--------------------------- MODULE LiveViewProofs ---------------------------
(***************************************************************************)
(* That what the App of Transcript shows live is what it would show if the *)
(* thread were opened again, for any shapes of messages, limits, prompts   *)
(* and troubles.  The proof rests on the invariant of TranscriptProofs.    *)
(***************************************************************************)
EXTENDS TranscriptProofs

---------------------------------------------------------------------------
(* What is read of a transcript, as a fold over its messages: the turns    *)
(* that are over, and of the turn of the agent that may go on its rows and *)
(* how its tools ended.                                                    *)

Known(tool) == IF tool.recorded THEN tool.status ELSE "unknown"

Knowledge == [Slots -> {"unknown", "running", "complete", "error"}]
Unknown == [t \in Slots |-> "unknown"]

\* A message that has a tool is newer than what was known of it.
Overlay(known, tools) == [t \in Slots |-> IF t \in DOMAIN tools THEN Known(tools[t]) ELSE known[t]]

RowsShown(rows, known) ==
  [i \in DOMAIN rows |->
     [type |-> rows[i].type, text |-> rows[i].text,
      tool |-> IF rows[i].type = "tool" THEN <<rows[i].slot, known[rows[i].slot]>> ELSE <<>>]]

TurnOf(role, text, rows, known) ==
  [role |-> role, text |-> text, rows |-> RowsShown(Distinct(rows), known)]

Turns ==
  {TurnOf(role, text, rows, known) : role \in {"user", "assistant"}, text \in Texts,
                                     rows \in Seq(Rows), known \in Knowledge}

Digests == [closed : Seq(Turns), rows : Seq(Rows), tools : Knowledge]
Blank == [closed |-> <<>>, rows |-> <<>>, tools |-> Unknown]

\* The turn that may go on; it is shown once it has a row.
OpenTurn(d) == TurnOf("assistant", <<>>, d.rows, d.tools)
Shut(d) == IF OpenTurn(d).rows = <<>> THEN d.closed ELSE Append(d.closed, OpenTurn(d))

AddChat(d, c) ==
  IF c.role = "assistant"
    THEN [d EXCEPT !.rows = @ \o c.work, !.tools = Overlay(@, c.tools)]
    ELSE [closed |-> Append(Shut(d), TurnOf("user", c.text, c.work, Overlay(Unknown, c.tools))),
          rows |-> <<>>, tools |-> Unknown]

Digest(ms) == Reduced(Digests, [p \in Digests \X Chats |-> AddChat(p[1], p[2])], Blank, ms)

---------------------------------------------------------------------------
(* The folds of groupConversation and turnWork.                            *)

\* groupConversation follows the descent of FoldLeft, with the step AddToGroups.
LEMMA GroupFold ==
  ASSUME NEW A, NEW E, NEW op, NEW s, Folding(A, E, op, <<>>, s),
         \A a \in A, x \in E : op[<<a, x>>] = AddToGroups(a, x)
  PROVE  groupConversation(s) = Reduced(A, op, <<>>, s)
<1> DEFINE n == Len(s)
           Step(g) == [t \in SUBSET DOMAIN s |->
                         IF t = {} THEN <<>> ELSE AddToGroups(g[t \ {Max(t)}], s[Max(t)])]
<1>1. n \in Nat /\ DOMAIN s = 1..n /\ \A i \in 1..n : s[i] \in E
  BY DEF Folding
<1>3. ASSUME NEW t \in SUBSET (1..n), t # {} PROVE s[Max(t)] \in E
  <2>1. Max(t) \in 1..n
    BY <1>1, <1>3, MaxPlace
  <2> QED BY <1>1, <2>1
<1>4. PICK G \in [SUBSET (1..n) -> A] : Descent(A, op, <<>>, s, G)
  BY <1>1, DescentExists
<1>5. ASSUME NEW t \in SUBSET (1..n), t # {}
      PROVE  G[t] = AddToGroups(G[t \ {Max(t)}], s[Max(t)])
  <2>1. t \ {Max(t)} \in SUBSET (1..n)
    OBVIOUS
  <2>2. G[t \ {Max(t)}] \in A
    BY <2>1, <1>4
  <2>3. G[t] = op[<<G[t \ {Max(t)}], s[Max(t)]>>]
    BY <1>4, <1>5 DEF Descent
  <2> QED BY <2>2, <2>3, <1>3, <1>5
<1>6. G = Step(G)
  <2>1. G[{}] = <<>>
    BY <1>4 DEF Descent
  <2>2. G = [t \in SUBSET (1..n) |-> G[t]]
    BY <1>4
  <2> QED BY <1>1, <1>5, <2>1, <2>2
<1> DEFINE g == CHOOSE h : h = Step(h)
<1>7. g = Step(g)
  <2> HIDE DEF Step
  <2> QED BY <1>6
<1>8. groupConversation(s) = g[DOMAIN s]
  BY DEF FoldLeft, MapThenFoldSet, groupConversation
<1> HIDE DEF g
<1>9. g[{}] = <<>>
  BY <1>1, <1>7
<1>10. ASSUME NEW t \in SUBSET (1..n), t # {} /\ g[t \ {Max(t)}] \in A
       PROVE  g[t] = op[<<g[t \ {Max(t)}], s[Max(t)]>>]
  <2>1. g[t] = AddToGroups(g[t \ {Max(t)}], s[Max(t)])
    BY <1>1, <1>7, <1>10
  <2> QED BY <2>1, <1>3, <1>10
<1>11. Descent(A, op, <<>>, s, g)
  BY <1>9, <1>10 DEF Descent
<1>12. g[1..n] = Reduced(A, op, <<>>, s)
  BY <1>1, <1>11, DescentIsReduced
<1> QED
  BY <1>1, <1>8, <1>12

\* So it begins with b, stays in A, and makes a step with each further member.
LEMMA GroupFoldSteps ==
  ASSUME NEW A, NEW E, <<>> \in A, NEW s \in Seq(E),
         \A a \in A, x \in E : AddToGroups(a, x) \in A
  PROVE  /\ groupConversation(<<>>) = <<>>
         /\ groupConversation(s) \in A
         /\ \A y \in E : groupConversation(Append(s, y)) = AddToGroups(groupConversation(s), y)
<1> DEFINE op == [p \in A \X E |-> AddToGroups(p[1], p[2])]
<1>0. op \in [A \X E -> A] /\ \A a \in A, x \in E : op[<<a, x>>] = AddToGroups(a, x)
  OBVIOUS
<1> HIDE DEF op
<1>5. ASSUME NEW z \in Seq(E)
      PROVE  Folding(A, E, op, <<>>, z) /\ groupConversation(z) = Reduced(A, op, <<>>, z)
  <2>1. Folding(A, E, op, <<>>, z)
    BY <1>0 DEF Folding
  <2> QED BY <2>1, <1>0, GroupFold
<1>1. Folding(A, E, op, <<>>, s) /\ groupConversation(s) = Reduced(A, op, <<>>, s)
  BY <1>5
<1>2. groupConversation(<<>>) = <<>>
  <2>1. <<>> \in Seq(E)
    OBVIOUS
  <2>2. Folding(A, E, op, <<>>, <<>>) /\ groupConversation(<<>>) = Reduced(A, op, <<>>, <<>>)
    BY <2>1, <1>5
  <2> QED BY <2>2, ReducedEmpty
<1>3. groupConversation(s) \in A
  <2>1. \E f \in [0..Len(s) -> A] : Trace(A, op, <<>>, s, f)
    BY <1>1, TraceExists
  <2> QED BY <1>1, <2>1, ReducedIs
<1>4. ASSUME NEW y \in E
      PROVE  groupConversation(Append(s, y)) = AddToGroups(groupConversation(s), y)
  <2>1. Append(s, y) \in Seq(E)
    OBVIOUS
  <2>2. groupConversation(Append(s, y)) = Reduced(A, op, <<>>, Append(s, y))
    BY <2>1, <1>5
  <2>3. op[<<groupConversation(s), y>>] = AddToGroups(groupConversation(s), y)
    BY <1>0, <1>3
  <2>4. Reduced(A, op, <<>>, Append(s, y)) = op[<<Reduced(A, op, <<>>, s), y>>]
    BY <1>1, ReducedAppend
  <2> QED BY <1>1, <2>2, <2>3, <2>4
<1> QED BY <1>2, <1>3, <1>4

\* Distinct follows the descent of FoldLeft, with the step AddRow.
LEMMA RowFold ==
  ASSUME NEW A, NEW E, NEW op, NEW s, Folding(A, E, op, <<>>, s),
         \A a \in A, x \in E : op[<<a, x>>] = AddRow(a, x)
  PROVE  Distinct(s) = Reduced(A, op, <<>>, s)
<1> DEFINE n == Len(s)
           Step(g) == [t \in SUBSET DOMAIN s |->
                         IF t = {} THEN <<>> ELSE AddRow(g[t \ {Max(t)}], s[Max(t)])]
<1>1. n \in Nat /\ DOMAIN s = 1..n /\ \A i \in 1..n : s[i] \in E
  BY DEF Folding
<1>3. ASSUME NEW t \in SUBSET (1..n), t # {} PROVE s[Max(t)] \in E
  <2>1. Max(t) \in 1..n
    BY <1>1, <1>3, MaxPlace
  <2> QED BY <1>1, <2>1
<1>4. PICK G \in [SUBSET (1..n) -> A] : Descent(A, op, <<>>, s, G)
  BY <1>1, DescentExists
<1>5. ASSUME NEW t \in SUBSET (1..n), t # {}
      PROVE  G[t] = AddRow(G[t \ {Max(t)}], s[Max(t)])
  <2>1. t \ {Max(t)} \in SUBSET (1..n)
    OBVIOUS
  <2>2. G[t \ {Max(t)}] \in A
    BY <2>1, <1>4
  <2>3. G[t] = op[<<G[t \ {Max(t)}], s[Max(t)]>>]
    BY <1>4, <1>5 DEF Descent
  <2> QED BY <2>2, <2>3, <1>3, <1>5
<1>6. G = Step(G)
  <2>1. G[{}] = <<>>
    BY <1>4 DEF Descent
  <2>2. G = [t \in SUBSET (1..n) |-> G[t]]
    BY <1>4
  <2> QED BY <1>1, <1>5, <2>1, <2>2
<1> DEFINE g == CHOOSE h : h = Step(h)
<1>7. g = Step(g)
  <2> HIDE DEF Step
  <2> QED BY <1>6
<1>8. Distinct(s) = g[DOMAIN s]
  BY DEF FoldLeft, MapThenFoldSet, Distinct
<1> HIDE DEF g
<1>9. g[{}] = <<>>
  BY <1>1, <1>7
<1>10. ASSUME NEW t \in SUBSET (1..n), t # {} /\ g[t \ {Max(t)}] \in A
       PROVE  g[t] = op[<<g[t \ {Max(t)}], s[Max(t)]>>]
  <2>1. g[t] = AddRow(g[t \ {Max(t)}], s[Max(t)])
    BY <1>1, <1>7, <1>10
  <2> QED BY <2>1, <1>3, <1>10
<1>11. Descent(A, op, <<>>, s, g)
  BY <1>9, <1>10 DEF Descent
<1>12. g[1..n] = Reduced(A, op, <<>>, s)
  BY <1>1, <1>11, DescentIsReduced
<1> QED
  BY <1>1, <1>8, <1>12

\* So it begins with b, stays in A, and makes a step with each further member.
LEMMA RowFoldSteps ==
  ASSUME NEW A, NEW E, <<>> \in A, NEW s \in Seq(E),
         \A a \in A, x \in E : AddRow(a, x) \in A
  PROVE  /\ Distinct(<<>>) = <<>>
         /\ Distinct(s) \in A
         /\ \A y \in E : Distinct(Append(s, y)) = AddRow(Distinct(s), y)
<1> DEFINE op == [p \in A \X E |-> AddRow(p[1], p[2])]
<1>0. op \in [A \X E -> A] /\ \A a \in A, x \in E : op[<<a, x>>] = AddRow(a, x)
  OBVIOUS
<1> HIDE DEF op
<1>5. ASSUME NEW z \in Seq(E)
      PROVE  Folding(A, E, op, <<>>, z) /\ Distinct(z) = Reduced(A, op, <<>>, z)
  <2>1. Folding(A, E, op, <<>>, z)
    BY <1>0 DEF Folding
  <2> QED BY <2>1, <1>0, RowFold
<1>1. Folding(A, E, op, <<>>, s) /\ Distinct(s) = Reduced(A, op, <<>>, s)
  BY <1>5
<1>2. Distinct(<<>>) = <<>>
  <2>1. <<>> \in Seq(E)
    OBVIOUS
  <2>2. Folding(A, E, op, <<>>, <<>>) /\ Distinct(<<>>) = Reduced(A, op, <<>>, <<>>)
    BY <2>1, <1>5
  <2> QED BY <2>2, ReducedEmpty
<1>3. Distinct(s) \in A
  <2>1. \E f \in [0..Len(s) -> A] : Trace(A, op, <<>>, s, f)
    BY <1>1, TraceExists
  <2> QED BY <1>1, <2>1, ReducedIs
<1>4. ASSUME NEW y \in E
      PROVE  Distinct(Append(s, y)) = AddRow(Distinct(s), y)
  <2>1. Append(s, y) \in Seq(E)
    OBVIOUS
  <2>2. Distinct(Append(s, y)) = Reduced(A, op, <<>>, Append(s, y))
    BY <2>1, <1>5
  <2>3. op[<<Distinct(s), y>>] = AddRow(Distinct(s), y)
    BY <1>0, <1>3
  <2>4. Reduced(A, op, <<>>, Append(s, y)) = op[<<Reduced(A, op, <<>>, s), y>>]
    BY <1>1, ReducedAppend
  <2> QED BY <1>1, <2>2, <2>3, <2>4
<1> QED BY <1>2, <1>3, <1>4

---------------------------------------------------------------------------
(* What a message adds to the digest.                                      *)

LEMMA DistinctType ==
  ASSUME NEW rows \in Seq(Rows)
  PROVE  Distinct(rows) \in Seq(Rows) /\ Distinct(<<>>) = <<>>
<1>1. \A a \in Seq(Rows), x \in Rows : AddRow(a, x) \in Seq(Rows)
  BY DEF AddRow
<1>2. <<>> \in Seq(Rows)
  OBVIOUS
<1> QED BY <1>1, <1>2, RowFoldSteps

LEMMA KnownType ==
  ASSUME NEW tools \in ToolSets, NEW known \in Knowledge
  PROVE  Overlay(known, tools) \in Knowledge /\ Unknown \in Knowledge
<1>1. ASSUME NEW t \in DOMAIN tools
      PROVE  Known(tools[t]) \in {"unknown", "running", "complete", "error"}
  <2>1. tools[t] \in ToolStates
    BY <1>1, ToolSetFacts
  <2> QED BY <2>1 DEF ToolStates, Known
<1> QED BY <1>1 DEF Overlay, Unknown, Knowledge

LEMMA TurnType ==
  ASSUME NEW role \in {"user", "assistant"}, NEW text \in Texts, NEW rows \in Seq(Rows),
         NEW known \in Knowledge
  PROVE  TurnOf(role, text, rows, known) \in Turns
BY DEF Turns

LEMMA ShutType ==
  ASSUME NEW d \in Digests
  PROVE  Shut(d) \in Seq(Turns) /\ OpenTurn(d) \in Turns
<1>1. d.closed \in Seq(Turns) /\ d.rows \in Seq(Rows) /\ d.tools \in Knowledge
  BY DEF Digests
<1>2. <<>> \in Texts
  BY DEF Texts
<1>3. OpenTurn(d) \in Turns
  BY <1>1, <1>2, TurnType DEF OpenTurn
<1> HIDE DEF Turns, OpenTurn
<1> QED BY <1>1, <1>3 DEF Shut

LEMMA ChatParts ==
  ASSUME NEW c \in Chats
  PROVE  /\ c.role \in {"user", "assistant"} /\ c.text \in Texts /\ c.tools \in ToolSets
         /\ c.work \in Seq(Rows) /\ c.id \in Nat /\ c.workOffset \in Nat \cup {-1}
         /\ c.workOffset <= Len(c.work)
         /\ c.role = "user" => DOMAIN c.tools = {}
BY DEF Chats, ChatRecords, Sound

LEMMA AddChatFields ==
  ASSUME NEW d \in Digests, NEW c \in Chats
  PROVE  /\ AddChat(d, c) \in Digests
         /\ c.role = "assistant" =>
              /\ AddChat(d, c).closed = d.closed
              /\ AddChat(d, c).rows = d.rows \o c.work
              /\ AddChat(d, c).tools = Overlay(d.tools, c.tools)
         /\ c.role = "user" =>
              AddChat(d, c) =
                [closed |-> Append(Shut(d), TurnOf("user", c.text, c.work, Overlay(Unknown, c.tools))),
                 rows |-> <<>>, tools |-> Unknown]
<1>0. /\ d.closed \in Seq(Turns) /\ d.rows \in Seq(Rows) /\ d.tools \in Knowledge
      /\ d = [closed |-> d.closed, rows |-> d.rows, tools |-> d.tools]
  BY DEF Digests
<1>1. Shut(d) \in Seq(Turns)
  BY ShutType
<1>2. Overlay(d.tools, c.tools) \in Knowledge /\ Overlay(Unknown, c.tools) \in Knowledge /\ Unknown \in Knowledge
  BY <1>0, ChatParts, KnownType
<1> DEFINE q == TurnOf("user", c.text, c.work, Overlay(Unknown, c.tools))
<1>3. q \in Turns
  BY <1>2, ChatParts, TurnType
<1>4. CASE c.role = "assistant"
  <2>1. d.rows \o c.work \in Seq(Rows)
    BY <1>0, ChatParts
  <2> HIDE DEF Turns, Overlay, Knowledge, Rows
  <2> QED BY <1>0, <1>2, <1>4, <2>1 DEF AddChat, Digests
<1>5. CASE c.role = "user"
  <2>1. AddChat(d, c) = [closed |-> Append(Shut(d), q), rows |-> <<>>, tools |-> Unknown]
    BY <1>5 DEF AddChat
  <2> HIDE DEF q
  <2>2. Append(Shut(d), q) \in Seq(Turns) /\ <<>> \in Seq(Rows)
    BY <1>1, <1>3
  <2>3. AddChat(d, c) \in Digests
    BY <2>1, <2>2, <1>2 DEF Digests
  <2> QED BY <2>1, <2>3, <1>5 DEF q
<1> QED BY <1>4, <1>5, ChatParts

LEMMA BlankType == Blank \in Digests
<1>1. Unknown \in Knowledge /\ <<>> \in Seq(Turns) /\ <<>> \in Seq(Rows)
  BY DEF Unknown, Knowledge
<1> QED BY <1>1 DEF Blank, Digests

LEMMA DigestSteps ==
  ASSUME NEW ms \in Seq(Chats)
  PROVE  /\ Digest(<<>>) = Blank
         /\ Digest(ms) \in Digests
         /\ \A c \in Chats : Digest(Append(ms, c)) = AddChat(Digest(ms), c)
<1> DEFINE op == [p \in Digests \X Chats |-> AddChat(p[1], p[2])]
<1>1. op \in [Digests \X Chats -> Digests]
  BY AddChatFields
<1>2. \A d \in Digests, c \in Chats : op[<<d, c>>] = AddChat(d, c)
  OBVIOUS
<1>3. \A z : Digest(z) = Reduced(Digests, op, Blank, z)
  BY DEF Digest
<1> HIDE DEF op
<1>4. \A z \in Seq(Chats) : Folding(Digests, Chats, op, Blank, z)
  BY <1>1, BlankType DEF Folding
<1>5. <<>> \in Seq(Chats)
  OBVIOUS
<1>6. Digest(<<>>) = Blank
  BY <1>3, <1>4, <1>5, ReducedEmpty
<1>7. Digest(ms) \in Digests
  <2>1. \E f \in [0..Len(ms) -> Digests] : Trace(Digests, op, Blank, ms, f)
    BY <1>4, TraceExists
  <2> QED BY <1>3, <1>4, <2>1, ReducedIs
<1>8. ASSUME NEW c \in Chats PROVE Digest(Append(ms, c)) = AddChat(Digest(ms), c)
  <2>1. Reduced(Digests, op, Blank, Append(ms, c)) = op[<<Reduced(Digests, op, Blank, ms), c>>]
    BY <1>4, ReducedAppend
  <2> QED BY <2>1, <1>2, <1>3, <1>7
<1> QED BY <1>6, <1>7, <1>8

\* The beginnings of a sequence.
LEMMA Beginnings ==
  ASSUME NEW S, NEW s \in Seq(S)
  PROVE  /\ Len(s) \in Nat /\ SubSeq(s, 1, 0) = <<>> /\ SubSeq(s, 1, Len(s)) = s
         /\ \A i \in 0..Len(s) : SubSeq(s, 1, i) \in Seq(S) /\ Len(SubSeq(s, 1, i)) = i
         /\ \A i \in 0..(Len(s) - 1) :
              /\ s[i + 1] \in S
              /\ SubSeq(s, 1, i + 1) = Append(SubSeq(s, 1, i), s[i + 1])
<1>1. Len(s) \in Nat /\ SubSeq(s, 1, 0) = <<>> /\ SubSeq(s, 1, Len(s)) = s
  OBVIOUS
<1>2. ASSUME NEW i \in 0..Len(s) PROVE SubSeq(s, 1, i) \in Seq(S) /\ Len(SubSeq(s, 1, i)) = i
  OBVIOUS
<1>3. ASSUME NEW i \in 0..(Len(s) - 1)
      PROVE  s[i + 1] \in S /\ SubSeq(s, 1, i + 1) = Append(SubSeq(s, 1, i), s[i + 1])
  OBVIOUS
<1> QED BY <1>1, <1>2, <1>3

\* The messages are read alike.
SameFace(c, d) ==
  /\ c.role = d.role /\ c.work = d.work /\ DOMAIN c.tools = DOMAIN d.tools
  /\ c.role = "user" => c.text = d.text
  /\ \A t \in DOMAIN c.tools : Known(c.tools[t]) = Known(d.tools[t])

LEMMA FaceAdded ==
  ASSUME NEW d \in Digests, NEW b \in Chats, NEW c \in Chats, SameFace(b, c)
  PROVE  AddChat(d, b) = AddChat(d, c)
<1>1. Overlay(d.tools, b.tools) = Overlay(d.tools, c.tools)
  BY DEF SameFace, Overlay
<1>2. Overlay(Unknown, b.tools) = Overlay(Unknown, c.tools)
  BY DEF SameFace, Overlay
<1>3. b.role \in {"user", "assistant"}
  BY ChatParts
<1>4. b.work = c.work /\ b.role = c.role /\ (b.role = "user" => b.text = c.text)
  BY DEF SameFace
<1> QED BY <1>1, <1>2, <1>3, <1>4 DEF AddChat

LEMMA FacesFold ==
  ASSUME NEW a \in Seq(Chats), NEW b \in Seq(Chats), Len(a) = Len(b),
         \A i \in 1..Len(a) : SameFace(a[i], b[i])
  PROVE  Digest(a) = Digest(b)
<1> DEFINE S == {i \in 0..Len(a) : Digest(SubSeq(a, 1, i)) = Digest(SubSeq(b, 1, i))}
<1>1. 0 \in S
  <2>1. Len(a) \in Nat /\ SubSeq(a, 1, 0) = <<>> /\ SubSeq(b, 1, 0) = <<>>
    BY Beginnings
  <2>2. Digest(SubSeq(a, 1, 0)) = Digest(SubSeq(b, 1, 0)) /\ 0 \in 0..Len(a)
    <3> HIDE DEF Digest
    <3>1. SubSeq(a, 1, 0) = SubSeq(b, 1, 0)
      BY <2>1, Zenon
    <3>2. Digest(SubSeq(a, 1, 0)) = Digest(SubSeq(b, 1, 0))
      BY <3>1, Zenon
    <3>3. 0 \in 0..Len(a)
      BY <2>1
    <3> QED BY <3>2, <3>3, Zenon
  <2> QED BY <2>2
<1>2. ASSUME NEW i \in 0..(Len(a) - 1), i \in S PROVE i + 1 \in S
  <2> DEFINE c == SubSeq(a, 1, i)
             d == SubSeq(b, 1, i)
  <2>1. c \in Seq(Chats) /\ d \in Seq(Chats) /\ a[i + 1] \in Chats /\ b[i + 1] \in Chats
        /\ SubSeq(a, 1, i + 1) = Append(c, a[i + 1]) /\ SubSeq(b, 1, i + 1) = Append(d, b[i + 1])
    BY Beginnings
  <2>2. Digest(c) = Digest(d)
    BY <1>2
  <2>3. SameFace(a[i + 1], b[i + 1]) /\ i + 1 \in 0..Len(a)
    OBVIOUS
  <2> HIDE DEF c, d
  <2>4. Digest(Append(c, a[i + 1])) = AddChat(Digest(c), a[i + 1]) /\ Digest(c) \in Digests
        /\ Digest(Append(d, b[i + 1])) = AddChat(Digest(d), b[i + 1])
    BY <2>1, DigestSteps
  <2>5. AddChat(Digest(c), a[i + 1]) = AddChat(Digest(c), b[i + 1])
    BY <2>1, <2>3, <2>4, FaceAdded
  <2> QED BY <2>1, <2>2, <2>3, <2>4, <2>5
<1>3. Len(a) \in Nat /\ SubSeq(a, 1, Len(a)) = a /\ SubSeq(b, 1, Len(b)) = b
  BY Beginnings
<1>4. Len(a) \in S
  <2> HIDE DEF S
  <2>1. \A i \in 0..(Len(a) - 1) : i \in S => i + 1 \in S
    BY <1>2
  <2>2. \A i \in 0..Len(a) : i \in S
    BY <1>1, <1>3, <2>1, UpTo
  <2> QED BY <1>3, <2>2
<1> QED BY <1>3, <1>4

\* The last message is the last one added.
LEMMA DigestLast ==
  ASSUME NEW ms \in Seq(Chats), ms # <<>>
  PROVE  /\ Digest(Front(ms)) \in Digests
         /\ Digest(ms) = AddChat(Digest(Front(ms)), Last(ms))
         /\ \A c \in Chats : Digest(WithLast(ms, c)) = AddChat(Digest(Front(ms)), c)
<1>1. Front(ms) \in Seq(Chats) /\ Last(ms) \in Chats /\ ms = Append(Front(ms), Last(ms))
  BY FrontFacts
<1> QED BY <1>1, DigestSteps DEF WithLast

\* A message without rows and tools is not read.
Empty(c) == c.role = "assistant" /\ c.work = <<>> /\ DOMAIN c.tools = {}

LEMMA EmptyAdded ==
  ASSUME NEW d \in Digests, NEW c \in Chats, Empty(c)
  PROVE  AddChat(d, c) = d
<1>1. /\ d.rows \in Seq(Rows) /\ d.tools \in Knowledge
      /\ d = [closed |-> d.closed, rows |-> d.rows, tools |-> d.tools]
  BY DEF Digests
<1>2. d.rows \o c.work = d.rows
  BY <1>1 DEF Empty
<1>3. Overlay(d.tools, c.tools) = d.tools
  BY <1>1 DEF Empty, Overlay, Knowledge
<1> QED BY <1>1, <1>2, <1>3 DEF AddChat, Empty

---------------------------------------------------------------------------
(* The digest tells what is presented.                                     *)

LEMMA FlattenAppend ==
  ASSUME NEW S, NEW u \in Seq(Seq(S)), NEW y \in Seq(S)
  PROVE  /\ FlattenSeq(u) \in Seq(S)
         /\ FlattenSeq(Append(u, y)) = FlattenSeq(u) \o y
         /\ FlattenSeq(<<>>) = <<>>
<1> DEFINE T == Seq(S)
           op == [p \in T \X T |-> p[1] \o p[2]]
<1>1. u \in Seq(T) /\ y \in T /\ <<>> \in Seq(T) /\ <<>> \in T
  OBVIOUS
<1>2. Append(u, y) \in Seq(T)
  <2> HIDE DEF T
  <2> QED BY <1>1
<1>3. \A z \in Seq(T) : FlattenSeq(z) = Reduced(T, op, <<>>, z) /\ FlattenSeq(z) \in T
  BY FlattenIsJoined DEF Joined
<1>9. \A a \in T, b \in T : a \o b \in T
  BY ConcatProperties
<1>4. op \in [T \X T -> T] /\ \A a \in T, b \in T : op[<<a, b>>] = a \o b
  <2> HIDE DEF T
  <2> QED BY <1>9
<1> HIDE DEF op, T
<1>5. \A z \in Seq(T) : Folding(T, T, op, <<>>, z)
  BY <1>1, <1>4 DEF Folding
<1>6. Reduced(T, op, <<>>, Append(u, y)) = op[<<Reduced(T, op, <<>>, u), y>>]
  BY <1>1, <1>5, ReducedAppend
<1>7. Reduced(T, op, <<>>, <<>>) = <<>>
  BY <1>1, <1>5, ReducedEmpty
<1>8. FlattenSeq(u) = Reduced(T, op, <<>>, u) /\ FlattenSeq(u) \in T
      /\ FlattenSeq(Append(u, y)) = Reduced(T, op, <<>>, Append(u, y))
      /\ FlattenSeq(<<>>) = Reduced(T, op, <<>>, <<>>)
  BY <1>1, <1>2, <1>3
<1> QED BY <1>1, <1>4, <1>6, <1>7, <1>8 DEF T

LEMMA PickedAppend ==
  ASSUME NEW S, NEW s \in Seq(S), NEW x \in S, NEW P, NEW Q,
         \A i \in 1..Len(s) : i \in P <=> i \in Q
  PROVE  /\ Picked(s, P) \in Seq(S) /\ Picked(<<>>, P) = <<>>
         /\ Picked(Append(s, x), Q) =
              IF Len(s) + 1 \in Q THEN Append(Picked(s, P), x) ELSE Picked(s, P)
<1> DEFINE T == Seq(S)
           u == [i \in 1..Len(s) |-> IF i \in P THEN <<s[i]>> ELSE <<>>]
           y == IF Len(s) + 1 \in Q THEN <<x>> ELSE <<>>
           w == Append(s, x)
           v == [i \in 1..Len(w) |-> IF i \in Q THEN <<w[i]>> ELSE <<>>]
<1>1. /\ Len(s) \in Nat /\ DOMAIN s = 1..Len(s) /\ DOMAIN w = 1..Len(w) /\ Len(w) = Len(s) + 1
      /\ w[Len(s) + 1] = x /\ \A i \in 1..Len(s) : w[i] = s[i] /\ s[i] \in S
  OBVIOUS
<1>2. Picked(s, P) = FlattenSeq(u) /\ Picked(w, Q) = FlattenSeq(v)
  BY <1>1 DEF Picked
<1>3. u \in Seq(T) /\ y \in T
  <2>1. \A i \in 1..Len(s) : (IF i \in P THEN <<s[i]>> ELSE <<>>) \in T
    BY <1>1
  <2>2. y \in T
    OBVIOUS
  <2> HIDE DEF T
  <2> QED BY <1>1, <2>1, <2>2
<1>4. v = Append(u, y)
  <2>1. v[Len(s) + 1] = y /\ \A i \in 1..Len(s) : v[i] = u[i]
    BY <1>1
  <2>2. Len(u) = Len(s) /\ Len(v) = Len(s) + 1
    BY <1>1
  <2>3. v \in Seq(T)
    <3>1. \A i \in 1..Len(w) : (IF i \in Q THEN <<w[i]>> ELSE <<>>) \in T
      BY <1>1
    <3> HIDE DEF T, w
    <3> QED BY <1>1, <3>1
  <2> HIDE DEF u, v, y, w, T
  <2>4. /\ Append(u, y) \in Seq(T) /\ Len(Append(u, y)) = Len(u) + 1
        /\ Append(u, y)[Len(u) + 1] = y /\ \A i \in 1..Len(u) : Append(u, y)[i] = u[i]
    BY <1>3, AppendProperties
  <2>5. \A i \in 1..Len(v) : v[i] = Append(u, y)[i]
    BY <1>1, <2>1, <2>2, <2>4
  <2> QED BY <2>2, <2>3, <2>4, <2>5, SeqEqual
<1>5. FlattenSeq(u) \in Seq(S) /\ FlattenSeq(v) = FlattenSeq(u) \o y
  <2> HIDE DEF u, v, y
  <2> QED BY <1>3, <1>4, FlattenAppend DEF T
<1>6. FlattenSeq(u) \o y = IF Len(s) + 1 \in Q THEN Append(FlattenSeq(u), x) ELSE FlattenSeq(u)
  <2> HIDE DEF u
  <2> QED BY <1>5
<1>7. Picked(<<>>, P) = <<>>
  <2>1. Picked(<<>>, P) = FlattenSeq(<<>>)
    BY DEF Picked
  <2>2. <<>> \in Seq(T) /\ <<>> \in T
    OBVIOUS
  <2> QED BY <2>1, <2>2, FlattenAppend
<1> HIDE DEF u, v, y
<1> QED BY <1>2, <1>5, <1>6, <1>7

\* A group of messages, its rows and what is known of its tools.
Groups == Seq(Chats) \ {<<>>}
RowsOf(group) == FlattenSeq([i \in DOMAIN group |-> group[i].work])
ToolsOf(group) == [t \in Slots |-> TurnTool(group, t)]

\* The turn that Presentation makes of it, and the turns it shows.
TurnIn(group) ==
  [role |-> group[1].role,
   text |-> IF group[1].role = "user" THEN group[1].text ELSE <<>>,
   rows |-> buildTurnPresentation(group)]

Visible(turn) == turn.role = "user" \/ turn.rows # <<>>

Presented(groups) ==
  LET turns == [i \in DOMAIN groups |-> TurnIn(groups[i])]
  IN Picked(turns, {i \in DOMAIN turns : Visible(turns[i])})

LEMMA PresentationIs ==
  ASSUME NEW ms
  PROVE  Presentation(ms) = Presented(groupConversation(ms))
BY DEF Presentation, Presented, TurnIn, Visible

LEMMA ShownAppend ==
  ASSUME NEW groups \in Seq(Groups), NEW g \in Groups
  PROVE  /\ Presented(<<>>) = <<>>
         /\ Presented(Append(groups, g)) =
              IF Visible(TurnIn(g)) THEN Append(Presented(groups), TurnIn(g)) ELSE Presented(groups)
<1> DEFINE S == {TurnIn(h) : h \in Groups}
           n == Len(groups)
           u == [i \in 1..n |-> TurnIn(groups[i])]
           w == Append(groups, g)
           v == [i \in 1..(n + 1) |-> TurnIn(w[i])]
           P == {i \in DOMAIN u : Visible(u[i])}
           Q == {i \in DOMAIN v : Visible(v[i])}
<1>1. /\ n \in Nat /\ DOMAIN groups = 1..n /\ DOMAIN w = 1..(n + 1) /\ w[n + 1] = g
      /\ \A i \in 1..n : w[i] = groups[i] /\ groups[i] \in Groups
  <2> HIDE DEF Groups
  <2> QED OBVIOUS
<1>2. Presented(groups) = Picked(u, P) /\ Presented(w) = Picked(v, Q)
  BY <1>1 DEF Presented
<1>3. u \in Seq(S) /\ TurnIn(g) \in S /\ Len(u) = n /\ DOMAIN u = 1..n /\ DOMAIN v = 1..(n + 1)
  <2>1. \A i \in 1..n : TurnIn(groups[i]) \in S
    BY <1>1
  <2>2. TurnIn(g) \in S
    OBVIOUS
  <2> HIDE DEF S, TurnIn, Groups
  <2> QED BY <1>1, <2>1, <2>2
<1>4. v[n + 1] = TurnIn(g) /\ \A i \in 1..n : v[i] = u[i]
  BY <1>1
<1>5. v = Append(u, TurnIn(g))
  <2>1. v \in Seq(S) /\ Len(v) = n + 1
    <3>1. \A i \in 1..(n + 1) : TurnIn(w[i]) \in S
      BY <1>1
    <3> HIDE DEF S, w, TurnIn
    <3> QED BY <1>1, <3>1
  <2> HIDE DEF S, u, v
  <2>2. /\ Append(u, TurnIn(g)) \in Seq(S) /\ Len(Append(u, TurnIn(g))) = n + 1
        /\ Append(u, TurnIn(g))[n + 1] = TurnIn(g)
        /\ \A i \in 1..n : Append(u, TurnIn(g))[i] = u[i]
    BY <1>3, AppendProperties
  <2>3. \A i \in 1..(n + 1) : v[i] = Append(u, TurnIn(g))[i]
    BY <1>1, <1>4, <2>2
  <2> QED BY <2>1, <2>2, <2>3, SeqEqual
<1>6. \A i \in 1..Len(u) : i \in P <=> i \in Q
  <2> HIDE DEF u, v
  <2> QED BY <1>1, <1>3, <1>4
<1>7. Len(u) + 1 \in Q <=> Visible(TurnIn(g))
  <2> HIDE DEF u, v
  <2> QED BY <1>1, <1>3, <1>4
<1>8. Presented(<<>>) = <<>>
  <2>1. Presented(<<>>) = Picked(<<>>, {})
    BY DEF Presented
  <2>2. Picked(<<>>, {}) = FlattenSeq(<<>>)
    BY DEF Picked
  <2>3. FlattenSeq(<<>>) = <<>>
    BY DEF FlattenSeq
  <2> QED BY <2>1, <2>2, <2>3
<1>9. Picked(Append(u, TurnIn(g)), Q) =
        IF Len(u) + 1 \in Q THEN Append(Picked(u, P), TurnIn(g)) ELSE Picked(u, P)
  <2> HIDE DEF u, v, P, Q, S, TurnIn
  <2> QED BY <1>3, <1>6, PickedAppend
<1> HIDE DEF u, v, P, Q, S, TurnIn, w
<1> QED BY <1>2, <1>5, <1>7, <1>8, <1>9 DEF w

LEMMA TurnToolIs ==
  ASSUME NEW group \in Seq(Chats), NEW t \in Slots
  PROVE  \/ /\ \A i \in 1..Len(group) : t \notin DOMAIN group[i].tools
            /\ TurnTool(group, t) = "unknown"
         \/ \E i \in 1..Len(group) :
              /\ t \in DOMAIN group[i].tools /\ TurnTool(group, t) = Known(group[i].tools[t])
              /\ \A k \in 1..Len(group) : t \in DOMAIN group[k].tools => k <= i
<1> DEFINE I == {i \in 1..Len(group) : HasTool(group[i], t)}
           owner == IF I # {} THEN Max(I) ELSE 0
<1>1. TurnTool(group, t) =
        IF owner # 0 /\ group[owner].tools[t].recorded THEN group[owner].tools[t].status ELSE "unknown"
  BY DEF TurnTool, SelectLastInSeq
<1>2. I # {} => Max(I) \in I /\ \A i \in I : Max(I) >= i
  BY Len(group) \in Nat, I \in SUBSET (1..Len(group)), LastPlace
<1>3. CASE I = {}
  BY <1>1, <1>3 DEF HasTool
<1>4. CASE I # {}
  <2>1. Max(I) \in 1..Len(group) /\ t \in DOMAIN group[Max(I)].tools /\ owner = Max(I)
    BY <1>2, <1>4 DEF HasTool
  <2>2. \A k \in 1..Len(group) : t \in DOMAIN group[k].tools => k <= Max(I)
    BY <1>2, <1>4 DEF HasTool
  <2>3. TurnTool(group, t) = Known(group[Max(I)].tools[t])
    <3> HIDE DEF I
    <3> QED BY <1>1, <2>1 DEF Known
  <2> HIDE DEF I
  <2> QED BY <2>1, <2>2, <2>3
<1> QED BY <1>3, <1>4

LEMMA ToolsAppend ==
  ASSUME NEW group \in Seq(Chats), NEW c \in Chats
  PROVE  ToolsOf(Append(group, c)) = Overlay(ToolsOf(group), c.tools)
<1> DEFINE w == Append(group, c)
           n == Len(group)
<1>1. /\ n \in Nat /\ w \in Seq(Chats) /\ Len(w) = n + 1 /\ w[n + 1] = c
      /\ \A i \in 1..n : w[i] = group[i]
  OBVIOUS
<1> HIDE DEF w
<1>2. ASSUME NEW t \in Slots
      PROVE  TurnTool(w, t) = IF t \in DOMAIN c.tools THEN Known(c.tools[t]) ELSE TurnTool(group, t)
  <2>1. CASE t \in DOMAIN c.tools
    <3>1. n + 1 \in 1..Len(w) /\ t \in DOMAIN w[n + 1].tools
      BY <1>1, <2>1
    <3>2. PICK i \in 1..Len(w) : /\ TurnTool(w, t) = Known(w[i].tools[t])
                                 /\ \A k \in 1..Len(w) : t \in DOMAIN w[k].tools => k <= i
      BY <1>1, <3>1, TurnToolIs
    <3>3. i = n + 1
      BY <1>1, <3>1, <3>2
    <3> QED BY <1>1, <2>1, <3>2, <3>3
  <2>2. CASE t \notin DOMAIN c.tools
    <3>1. \A i \in 1..Len(w) : t \in DOMAIN w[i].tools =>
            i \in 1..n /\ w[i] = group[i] /\ t \in DOMAIN group[i].tools
      BY <1>1, <2>2
    <3>2. \A i \in 1..n : i \in 1..Len(w) /\ w[i] = group[i]
      BY <1>1
    <3>3. CASE \A i \in 1..n : t \notin DOMAIN group[i].tools
      <4>1. TurnTool(group, t) = "unknown"
        BY <3>3, TurnToolIs
      <4>2. TurnTool(w, t) = "unknown"
        BY <1>1, <3>1, <3>3, TurnToolIs
      <4> QED BY <2>2, <4>1, <4>2
    <3>4. CASE \E i \in 1..n : t \in DOMAIN group[i].tools
      <4>1. PICK i \in 1..n : /\ t \in DOMAIN group[i].tools /\ TurnTool(group, t) = Known(group[i].tools[t])
                              /\ \A k \in 1..n : t \in DOMAIN group[k].tools => k <= i
        BY <3>4, TurnToolIs
      <4>2. PICK j \in 1..Len(w) : /\ t \in DOMAIN w[j].tools /\ TurnTool(w, t) = Known(w[j].tools[t])
                                   /\ \A k \in 1..Len(w) : t \in DOMAIN w[k].tools => k <= j
        BY <1>1, <3>2, <4>1, TurnToolIs
      <4>3. i = j
        BY <1>1, <3>1, <3>2, <4>1, <4>2
      <4> QED BY <2>2, <3>2, <4>1, <4>2, <4>3
    <3> QED BY <3>3, <3>4
  <2> QED BY <2>1, <2>2
<1> QED BY <1>2 DEF ToolsOf, Overlay, w

LEMMA ToolsOfType ==
  ASSUME NEW group \in Seq(Chats)
  PROVE  ToolsOf(group) \in Knowledge /\ ToolsOf(<<>>) = Unknown
<1>1. ASSUME NEW t \in Slots
      PROVE  TurnTool(group, t) \in {"unknown", "running", "complete", "error"}
  <2>1. CASE TurnTool(group, t) = "unknown"
    BY <2>1
  <2>2. CASE TurnTool(group, t) # "unknown"
    <3>1. PICK i \in 1..Len(group) :
            t \in DOMAIN group[i].tools /\ TurnTool(group, t) = Known(group[i].tools[t])
      BY <2>2, TurnToolIs
    <3>2. group[i].tools[t] \in ToolStates
      BY <3>1, ChatParts, ToolSetFacts
    <3> QED BY <3>1, <3>2 DEF Known, ToolStates
  <2> QED BY <2>1, <2>2
<1>2. ASSUME NEW t \in Slots PROVE TurnTool(<<>>, t) = "unknown"
  <2>1. <<>> \in Seq(Chats) /\ ~\E i \in 1..Len(<<>>) : TRUE
    OBVIOUS
  <2> QED BY <2>1, TurnToolIs
<1> QED BY <1>1, <1>2 DEF ToolsOf, Knowledge, Unknown

LEMMA RowsAppend ==
  ASSUME NEW group \in Seq(Chats), NEW c \in Chats
  PROVE  /\ RowsOf(group) \in Seq(Rows) /\ RowsOf(<<>>) = <<>>
         /\ RowsOf(Append(group, c)) = RowsOf(group) \o c.work
<1> DEFINE T == Seq(Rows)
           n == Len(group)
           w == Append(group, c)
           u == [i \in 1..n |-> group[i].work]
           v == [i \in 1..(n + 1) |-> w[i].work]
<1>1. /\ n \in Nat /\ DOMAIN group = 1..n /\ DOMAIN w = 1..(n + 1) /\ w[n + 1] = c
      /\ \A i \in 1..n : w[i] = group[i] /\ group[i] \in Chats
  OBVIOUS
<1>2. RowsOf(group) = FlattenSeq(u) /\ RowsOf(w) = FlattenSeq(v)
  BY <1>1 DEF RowsOf
<1>3. u \in Seq(T) /\ c.work \in T /\ Len(u) = n
  <2>1. \A i \in 1..n : group[i].work \in T
    BY <1>1, ChatParts
  <2>2. c.work \in T
    BY ChatParts
  <2> HIDE DEF T
  <2> QED BY <1>1, <2>1, <2>2
<1>4. v = Append(u, c.work)
  <2>1. v \in Seq(T) /\ Len(v) = n + 1
    <3>1. \A i \in 1..(n + 1) : w[i].work \in T
      BY <1>1, ChatParts
    <3> HIDE DEF T, w
    <3> QED BY <1>1, <3>1
  <2>2. v[n + 1] = c.work /\ \A i \in 1..n : v[i] = u[i]
    BY <1>1
  <2> HIDE DEF T, u, v
  <2>3. /\ Append(u, c.work) \in Seq(T) /\ Len(Append(u, c.work)) = n + 1
        /\ Append(u, c.work)[n + 1] = c.work
        /\ \A i \in 1..n : Append(u, c.work)[i] = u[i]
    BY <1>3, AppendProperties
  <2>4. \A i \in 1..(n + 1) : v[i] = Append(u, c.work)[i]
    BY <1>1, <2>2, <2>3
  <2> QED BY <2>1, <2>3, <2>4, SeqEqual
<1>5. FlattenSeq(u) \in Seq(Rows) /\ FlattenSeq(Append(u, c.work)) = FlattenSeq(u) \o c.work
  <2>1. u \in Seq(Seq(Rows)) /\ c.work \in Seq(Rows)
    BY <1>3
  <2> HIDE DEF u, Rows
  <2> QED BY <2>1, FlattenAppend
<1>6. RowsOf(<<>>) = <<>>
  <2>1. RowsOf(<<>>) = FlattenSeq(<<>>)
    BY DEF RowsOf
  <2> QED BY <2>1 DEF FlattenSeq
<1> HIDE DEF u, v, w
<1> QED BY <1>2, <1>4, <1>5, <1>6 DEF w

LEMMA TurnInIs ==
  ASSUME NEW group \in Groups
  PROVE  TurnIn(group) =
           TurnOf(group[1].role, IF group[1].role = "user" THEN group[1].text ELSE <<>>,
                  RowsOf(group), ToolsOf(group))
<1> DEFINE rows == Distinct(RowsOf(group))
<1>1. turnWork(group) = rows
  BY DEF turnWork, RowsOf
<1>2. rows \in Seq(Rows)
  <2>1. group \in Seq(Chats) /\ group # <<>>
    BY DEF Groups
  <2>2. Last(group) \in Chats
    BY <2>1, FrontFacts
  <2> QED BY <2>1, <2>2, RowsAppend, DistinctType
<1> HIDE DEF rows
<1>3. \A i \in DOMAIN rows : rows[i].slot \in Slots
  <2>1. \A i \in DOMAIN rows : rows[i] \in Rows
    <3> HIDE DEF Rows
    <3> QED BY <1>2
  <2> QED BY <2>1 DEF Rows
<1>4. \A i \in DOMAIN rows : ToolsOf(group)[rows[i].slot] = TurnTool(group, rows[i].slot)
  BY <1>3 DEF ToolsOf
<1>5. buildTurnPresentation(group) = RowsShown(rows, ToolsOf(group))
  BY <1>1, <1>4 DEF buildTurnPresentation, RowsShown
<1> QED BY <1>5 DEF TurnIn, TurnOf, rows

\* The groups tell what the digest does: the last one may go on if it is the agent's.
Agrees(groups, d) ==
  /\ groups \in Seq(Groups)
  /\ groups # <<>> /\ Last(groups)[1].role = "assistant" =>
       /\ Presented(Front(groups)) = d.closed
       /\ RowsOf(Last(groups)) = d.rows /\ ToolsOf(Last(groups)) = d.tools
  /\ ~(groups # <<>> /\ Last(groups)[1].role = "assistant") =>
       Presented(groups) = d.closed /\ d.rows = <<>> /\ d.tools = Unknown

LEMMA AgreesShut ==
  ASSUME NEW groups, NEW d \in Digests, Agrees(groups, d)
  PROVE  Presented(groups) = Shut(d)
<1>1. CASE groups # <<>> /\ Last(groups)[1].role = "assistant"
  <2> DEFINE g == Last(groups)
  <2>1. g \in Groups /\ Front(groups) \in Seq(Groups) /\ groups = Append(Front(groups), g)
    <3>1. groups \in Seq(Groups)
      BY DEF Agrees
    <3> HIDE DEF Groups
    <3> QED BY <1>1, <3>1, FrontFacts
  <2>2. Presented(Front(groups)) = d.closed /\ RowsOf(g) = d.rows /\ ToolsOf(g) = d.tools
    BY <1>1 DEF Agrees
  <2> HIDE DEF g
  <2>3. TurnIn(g) = OpenTurn(d)
    <3>1. g[1].role = "assistant"
      BY <1>1 DEF g
    <3> QED BY <2>1, <2>2, <3>1, TurnInIs DEF OpenTurn
  <2>4. Visible(TurnIn(g)) <=> OpenTurn(d).rows # <<>>
    BY <2>3 DEF Visible, OpenTurn, TurnOf
  <2>5. Presented(Append(Front(groups), g)) =
          IF Visible(TurnIn(g)) THEN Append(Presented(Front(groups)), TurnIn(g))
                                ELSE Presented(Front(groups))
    BY <2>1, ShownAppend
  <2> QED BY <2>1, <2>2, <2>3, <2>4, <2>5, Zenon DEF Shut
<1>2. CASE ~(groups # <<>> /\ Last(groups)[1].role = "assistant")
  <2>1. Presented(groups) = d.closed /\ d.rows = <<>>
    BY <1>2 DEF Agrees
  <2>2. Distinct(d.rows) = <<>>
    BY <2>1, DistinctType, <<>> \in Seq(Rows)
  <2>3. OpenTurn(d).rows = <<>>
    BY <2>2 DEF OpenTurn, TurnOf, RowsShown
  <2> QED BY <2>1, <2>3 DEF Shut
<1> QED BY <1>1, <1>2

LEMMA SingleGroup ==
  ASSUME NEW c \in Chats
  PROVE  /\ <<c>> \in Groups /\ <<c>>[1] = c
         /\ RowsOf(<<c>>) = c.work /\ ToolsOf(<<c>>) = Overlay(Unknown, c.tools)
<1>1. <<>> \in Seq(Chats) /\ Append(<<>>, c) = <<c>> /\ c.work \in Seq(Rows)
  BY ChatParts
<1>2. RowsOf(<<c>>) = <<>> \o c.work /\ ToolsOf(<<c>>) = Overlay(Unknown, c.tools)
  BY <1>1, RowsAppend, ToolsAppend, ToolsOfType
<1> QED BY <1>1, <1>2 DEF Groups

LEMMA AgreesStep ==
  ASSUME NEW groups, NEW d \in Digests, Agrees(groups, d), NEW c \in Chats
  PROVE  Agrees(AddToGroups(groups, c), AddChat(d, c))
<1> DEFINE new == AddToGroups(groups, c)
           next == AddChat(d, c)
<1>1. groups \in Seq(Groups)
  BY DEF Agrees
<1>2. CASE c.role = "assistant" /\ groups # <<>> /\ Last(groups)[1].role = "assistant"
  <2> DEFINE g == Append(Last(groups), c)
  <2>1. Last(groups) \in Groups /\ Front(groups) \in Seq(Groups)
    <3> HIDE DEF Groups
    <3> QED BY <1>1, <1>2, FrontFacts
  <2>2. Last(groups) \in Seq(Chats) /\ g \in Groups /\ g[1] = Last(groups)[1]
    BY <2>1 DEF Groups
  <2>3. new = Append(Front(groups), g)
    BY <1>2 DEF AddToGroups, WithLast
  <2>4. RowsOf(g) = RowsOf(Last(groups)) \o c.work /\ ToolsOf(g) = Overlay(ToolsOf(Last(groups)), c.tools)
    BY <2>2, RowsAppend, ToolsAppend
  <2>5. /\ Presented(Front(groups)) = d.closed
        /\ RowsOf(Last(groups)) = d.rows /\ ToolsOf(Last(groups)) = d.tools
    BY <1>2 DEF Agrees
  <2>6. next.closed = d.closed /\ next.rows = d.rows \o c.work /\ next.tools = Overlay(d.tools, c.tools)
    BY <1>2, AddChatFields
  <2> HIDE DEF g, next, Groups
  <2>7. new \in Seq(Groups) /\ new # <<>> /\ Last(new) = g /\ Front(new) = Front(groups)
    <3>1. new \in Seq(Groups) /\ new # <<>> /\ Len(new) = Len(Front(groups)) + 1 /\ new[Len(new)] = g
          /\ Len(Front(groups)) \in Nat /\ \A i \in 1..Len(Front(groups)) : new[i] = Front(groups)[i]
      BY <2>1, <2>2, <2>3
    <3>2. Last(new) = new[Len(new)] /\ Front(new) \in Seq(Groups) /\ Len(Front(new)) = Len(new) - 1
          /\ \A i \in 1..(Len(new) - 1) : Front(new)[i] = new[i]
      BY <3>1, FrontFacts
    <3>3. Len(Front(new)) = Len(Front(groups)) /\ \A i \in 1..Len(Front(new)) : Front(new)[i] = Front(groups)[i]
      BY <3>1, <3>2
    <3> QED BY <2>1, <3>1, <3>2, <3>3, SeqEqual
  <2>8. Last(new)[1].role = "assistant"
    BY <1>2, <2>2, <2>7
  <2> QED BY <2>4, <2>5, <2>6, <2>7, <2>8, Zenon DEF Agrees, next
<1>3. CASE ~(c.role = "assistant" /\ groups # <<>> /\ Last(groups)[1].role = "assistant")
  <2> DEFINE g == <<c>>
  <2>1. g \in Groups /\ g[1] = c /\ RowsOf(g) = c.work /\ ToolsOf(g) = Overlay(Unknown, c.tools)
    BY SingleGroup
  <2>2. new = Append(groups, g)
    BY <1>3 DEF AddToGroups
  <2> HIDE DEF g, Groups
  <2>3. new \in Seq(Groups) /\ new # <<>> /\ Last(new) = g /\ Front(new) = groups
    <3>1. new \in Seq(Groups) /\ new # <<>> /\ Len(new) = Len(groups) + 1 /\ new[Len(new)] = g
          /\ Len(groups) \in Nat /\ \A i \in 1..Len(groups) : new[i] = groups[i]
      BY <1>1, <2>1, <2>2
    <3>2. Last(new) = new[Len(new)] /\ Front(new) \in Seq(Groups) /\ Len(Front(new)) = Len(new) - 1
          /\ \A i \in 1..(Len(new) - 1) : Front(new)[i] = new[i]
      BY <3>1, FrontFacts
    <3>3. Len(Front(new)) = Len(groups) /\ \A i \in 1..Len(Front(new)) : Front(new)[i] = groups[i]
      BY <3>1, <3>2
    <3> QED BY <1>1, <3>1, <3>2, <3>3, SeqEqual
  <2>4. CASE c.role = "assistant"
    <3>1. Presented(groups) = d.closed /\ d.rows = <<>> /\ d.tools = Unknown
      BY <1>3, <2>4 DEF Agrees
    <3>2. next.closed = d.closed /\ next.rows = d.rows \o c.work /\ next.tools = Overlay(d.tools, c.tools)
      BY <2>4, AddChatFields
    <3>3. c.work \in Seq(Rows)
      BY ChatParts
    <3>4. next.rows = c.work
      BY <3>1, <3>2, <3>3
    <3> QED BY <2>1, <2>3, <2>4, <3>1, <3>2, <3>4, Zenon DEF Agrees, next
  <2>5. CASE c.role # "assistant"
    <3>1. c.role = "user"
      BY <2>5, ChatParts
    <3>2. Presented(groups) = Shut(d)
      BY AgreesShut
    <3>3. TurnIn(g) = TurnOf("user", c.text, c.work, Overlay(Unknown, c.tools))
      BY <2>1, <3>1, TurnInIs
    <3>4. Visible(TurnIn(g))
      BY <3>3 DEF Visible, TurnOf
    <3>5. Presented(new) = Append(Shut(d), TurnIn(g))
      BY <1>1, <2>1, <2>2, <3>2, <3>4, ShownAppend
    <3>6. next.closed = Append(Shut(d), TurnIn(g)) /\ next.rows = <<>> /\ next.tools = Unknown
      <4>1. next = [closed |-> Append(Shut(d), TurnIn(g)), rows |-> <<>>, tools |-> Unknown]
        BY <3>1, <3>3, AddChatFields, Zenon DEF next
      <4> HIDE DEF next
      <4> QED BY <4>1
    <3>7. Last(new)[1].role = "user"
      BY <2>1, <2>3, <3>1
    <3> QED BY <2>3, <3>5, <3>6, <3>7, Zenon DEF Agrees, next
  <2> QED BY <2>4, <2>5
<1> QED BY <1>2, <1>3

LEMMA Presents ==
  ASSUME NEW ms \in Seq(Chats)
  PROVE  Presentation(ms) = Shut(Digest(ms))
<1> DEFINE S == {i \in 0..Len(ms) : Agrees(groupConversation(SubSeq(ms, 1, i)), Digest(SubSeq(ms, 1, i)))}
<1>1. /\ groupConversation(<<>>) = <<>>
      /\ \A z \in Seq(Chats) : groupConversation(z) \in Seq(Groups)
           /\ \A c \in Chats : groupConversation(Append(z, c)) = AddToGroups(groupConversation(z), c)
  <2>1. ASSUME NEW groups \in Seq(Groups), NEW c \in Chats PROVE AddToGroups(groups, c) \in Seq(Groups)
    <3>1. <<c>> \in Groups
      BY SingleGroup
    <3>2. CASE groups = <<>>
      BY <3>1, <3>2 DEF AddToGroups
    <3>3. CASE groups # <<>>
      <4>1. Last(groups) \in Groups /\ Front(groups) \in Seq(Groups)
        <5> HIDE DEF Groups
        <5> QED BY <3>3, FrontFacts
      <4>2. Append(Last(groups), c) \in Groups
        BY <4>1 DEF Groups
      <4> HIDE DEF Groups
      <4> QED BY <3>1, <4>1, <4>2 DEF AddToGroups, WithLast
    <3> QED BY <3>2, <3>3
  <2>2. <<>> \in Seq(Groups) /\ <<>> \in Seq(Chats)
    OBVIOUS
  <2> DEFINE A == Seq(Groups)
  <2>3. ASSUME NEW z \in Seq(Chats)
        PROVE  /\ groupConversation(<<>>) = <<>> /\ groupConversation(z) \in A
               /\ \A c \in Chats : groupConversation(Append(z, c)) = AddToGroups(groupConversation(z), c)
    <3>1. <<>> \in A /\ \A a \in A, c \in Chats : AddToGroups(a, c) \in A
      BY <2>1, <2>2
    <3> HIDE DEF A
    <3> QED BY <3>1, GroupFoldSteps
  <2> QED BY <2>2, <2>3
<1>2. Len(ms) \in Nat /\ SubSeq(ms, 1, 0) = <<>> /\ SubSeq(ms, 1, Len(ms)) = ms
  BY Beginnings
<1>3. 0 \in S
  <2>1. Digest(<<>>) = Blank
    BY DigestSteps
  <2>2. Presented(<<>>) = <<>>
    BY DEF Presented, Picked, FlattenSeq
  <2>3. Agrees(<<>>, Blank)
    BY <2>2 DEF Agrees, Blank
  <2>4. Agrees(groupConversation(SubSeq(ms, 1, 0)), Digest(SubSeq(ms, 1, 0)))
    BY <1>1, <1>2, <2>1, <2>3, Zenon
  <2>5. 0 \in 0..Len(ms)
    BY <1>2
  <2> QED BY <2>4, <2>5
<1>4. ASSUME NEW i \in 0..(Len(ms) - 1), i \in S PROVE i + 1 \in S
  <2> DEFINE b == SubSeq(ms, 1, i)
  <2>1. b \in Seq(Chats) /\ ms[i + 1] \in Chats /\ SubSeq(ms, 1, i + 1) = Append(b, ms[i + 1])
    BY Beginnings
  <2>2. Agrees(groupConversation(b), Digest(b)) /\ i + 1 \in 0..Len(ms)
    BY <1>2, <1>4
  <2> HIDE DEF b
  <2>3. Digest(b) \in Digests /\ Digest(Append(b, ms[i + 1])) = AddChat(Digest(b), ms[i + 1])
    BY <2>1, DigestSteps
  <2>4. Agrees(AddToGroups(groupConversation(b), ms[i + 1]), AddChat(Digest(b), ms[i + 1]))
    BY <2>1, <2>2, <2>3, AgreesStep
  <2> QED BY <1>1, <2>1, <2>2, <2>3, <2>4
<1>5. Len(ms) \in S
  <2> HIDE DEF S
  <2>1. \A i \in 0..(Len(ms) - 1) : i \in S => i + 1 \in S
    BY <1>4
  <2>2. \A i \in 0..Len(ms) : i \in S
    BY <1>2, <1>3, <2>1, UpTo
  <2> QED BY <1>2, <2>2
<1>6. Agrees(groupConversation(ms), Digest(ms)) /\ Digest(ms) \in Digests
  BY <1>2, <1>5, DigestSteps
<1> QED BY <1>6, AgreesShut, PresentationIs

---------------------------------------------------------------------------
(* Ends of turns do not change what is read.                               *)

Alike(c, d) ==
  SameFace(c, d) /\ c.id = d.id /\ c.text = d.text /\ c.workOffset = d.workOffset

AllAlike(ms, new) == Len(new) = Len(ms) /\ \A i \in 1..Len(ms) : Alike(ms[i], new[i])

\* An answer without rows, tools and text.
NoAnswer(c) == Empty(c) /\ c.id = 0 /\ c.text = <<>>

\* Every message is read as before; a question may get an answer that has nothing.
Settles(ms, new) ==
  \/ AllAlike(ms, new)
  \/ LastIs(ms, "user") /\ \E b \in Chats : NoAnswer(b) /\ new = Append(ms, b)

\* The result of a tool that is shown as running is not there.
Unheard(ms) ==
  \A i \in 1..Len(ms) : \A t \in DOMAIN ms[i].tools :
    ms[i].tools[t].status = "running" => ~ms[i].tools[t].recorded

LEMMA AlikeSelf == \A c : Alike(c, c)
BY DEF Alike, SameFace

LEMMA FinalizeFaces ==
  ASSUME NEW ms \in Seq(Chats), NEW interrupted \in BOOLEAN, Unheard(ms)
  PROVE  AllAlike(ms, finalizeInterruptedTurn(ms, interrupted))
<1> DEFINE new == finalizeInterruptedTurn(ms, interrupted)
           last == LastIs(ms, "assistant")
           HadRunning(i) ==
             /\ last /\ i = Len(ms)
             /\ \E t \in DOMAIN ms[i].tools : ms[i].tools[t].status = "running"
           GiveUp(tool) ==
             IF tool.status = "running"
               THEN [tool EXCEPT !.status = "error", !.interrupted = TRUE] ELSE tool
           Hit(i) == last /\ i = Len(ms) /\ interrupted
           Tools(i) == IF HadRunning(i)
                         THEN [t \in DOMAIN ms[i].tools |-> GiveUp(ms[i].tools[t])] ELSE ms[i].tools
           Broken(i) == ms[i].interrupted \/ HadRunning(i) \/ Hit(i)
           Final(i) == IF ~ms[i].streaming /\ ~HadRunning(i) /\ ~Hit(i) THEN ms[i]
                       ELSE [ms[i] EXCEPT !.streaming = FALSE, !.tools = Tools(i),
                                          !.interrupted = Broken(i)]
<1>1. new = [i \in DOMAIN ms |-> Final(i)]
  BY DEF finalizeInterruptedTurn
<1>2. ASSUME NEW i \in 1..Len(ms)
      PROVE  Alike(ms[i], Final(i))
  <2> DEFINE c == ms[i]
  <2>1. c \in Chats /\ c \in ChatRecords /\ c.tools \in ToolSets
    BY DEF Chats, ChatRecords
  <2>2. DOMAIN Tools(i) = DOMAIN c.tools /\ \A t \in DOMAIN c.tools : Known(Tools(i)[t]) = Known(c.tools[t])
    <3>1. CASE HadRunning(i)
      <4>1. ASSUME NEW t \in DOMAIN c.tools
            PROVE  Known(GiveUp(c.tools[t])) = Known(c.tools[t])
        <5>1. c.tools[t] \in ToolStates
          BY <2>1, ToolSetFacts
        <5>2. c.tools[t].status = "running" => ~c.tools[t].recorded
          BY DEF Unheard
        <5> QED BY <5>1, <5>2 DEF ToolStates, Known
      <4> QED BY <3>1, <4>1
    <3>2. CASE ~HadRunning(i)
      BY <3>2
    <3> QED BY <3>1, <3>2
  <2>3. CASE ~c.streaming /\ ~HadRunning(i) /\ ~Hit(i)
    BY <2>3, AlikeSelf
  <2>4. CASE ~(~c.streaming /\ ~HadRunning(i) /\ ~Hit(i))
    <3> DEFINE tools == Tools(i)
               broken == Broken(i)
               d == [c EXCEPT !.streaming = FALSE, !.tools = tools, !.interrupted = broken]
    <3>1. Final(i) = d
      BY <2>4
    <3>3. DOMAIN tools = DOMAIN c.tools /\ \A t \in DOMAIN c.tools : Known(tools[t]) = Known(c.tools[t])
      BY <2>2
    <3> HIDE DEF tools, broken, c
    <3>4. /\ d.tools = tools /\ d.work = c.work /\ d.workOffset = c.workOffset /\ d.role = c.role
          /\ d.id = c.id /\ d.text = c.text
      BY <2>1 DEF ChatRecords
    <3> HIDE DEF d
    <3>5. Alike(c, d)
      BY <3>3, <3>4 DEF Alike, SameFace
    <3> HIDE DEF Final, Tools
    <3> QED BY <3>1, <3>5 DEF c
  <2> HIDE DEF Final, Tools, HadRunning, Hit
  <2> QED BY <2>3, <2>4
<1> HIDE DEF Final
<1>3. Len(new) = Len(ms) /\ \A i \in 1..Len(ms) : new[i] = Final(i)
  <2>1. DOMAIN ms = 1..Len(ms) /\ Len(ms) \in Nat
    OBVIOUS
  <2> QED BY <1>1, <2>1
<1> HIDE DEF new
<1> QED BY <1>2, <1>3 DEF AllAlike, new

LEMMA SettleFaces ==
  ASSUME NEW ms \in Seq(Chats), Unheard(ms)
  PROVE  Settles(ms, settleStoppedTurn(ms)) /\ settleStoppedTurn(ms) \in Seq(Chats)
<1> DEFINE new == settleStoppedTurn(ms)
<1>0. new \in Seq(Chats)
  BY SettleType
<1>1. CASE LastIs(ms, "user")
  <2> DEFINE c == Chat("assistant", <<>>)
             d == [c EXCEPT !.interrupted = TRUE]
  <2>1. ~(LastIs(ms, "assistant") /\ Last(ms).stopReason = "stop")
    BY <1>1 DEF LastIs
  <2>2. new = Append(ms, d)
    BY <1>1, <2>1 DEF settleStoppedTurn
  <2>3. c.role = "assistant" /\ DOMAIN c.tools = {} /\ c.work = <<>> /\ c.id = 0 /\ c.text = <<>>
        /\ c.workOffset = -1
    BY NoTools DEF Chat
  <2>4. c \in ChatRecords
    <3>1. <<>> \in Texts
      BY DEF Texts
    <3> QED BY <3>1, ChatType DEF StillChats, Chats
  <2> HIDE DEF c
  <2>5. d \in ChatRecords /\ d.role = c.role /\ d.tools = c.tools /\ d.work = c.work /\ d.id = c.id
        /\ d.text = c.text /\ d.workOffset = c.workOffset
    BY <2>4 DEF ChatRecords
  <2> HIDE DEF d
  <2>6. d \in Chats /\ NoAnswer(d)
    BY <2>3, <2>5 DEF Chats, Sound, NoAnswer, Empty
  <2> HIDE DEF new
  <2> QED BY <1>0, <1>1, <2>2, <2>6 DEF Settles, new
<1>2. CASE ~LastIs(ms, "user")
  <2>1. \E broken \in BOOLEAN : new = finalizeInterruptedTurn(ms, broken)
    BY <1>2 DEF settleStoppedTurn
  <2> HIDE DEF new
  <2> QED BY <1>0, <2>1, FinalizeFaces DEF Settles, new
<1> QED BY <1>1, <1>2

LEMMA FailFaces ==
  ASSUME NEW ms \in Seq(Chats), Unheard(ms)
  PROVE  Settles(ms, failActiveTurn(ms)) /\ failActiveTurn(ms) \in Seq(Chats)
<1> DEFINE old == settleStoppedTurn(ms)
           new == failActiveTurn(ms)
           c == Last(old)
           d == [c EXCEPT !.error = TRUE, !.interrupted = TRUE, !.streaming = FALSE]
           n == Len(old)
<1>1. old \in Seq(Chats) /\ new \in Seq(Chats) /\ Settles(ms, old)
  BY SettleFaces, FailType
<1>2. new = IF ~LastIs(old, "assistant") THEN old ELSE Append(Front(old), d)
  BY DEF failActiveTurn, WithLast
<1> HIDE DEF old, new
<1>3. CASE ~LastIs(old, "assistant")
  BY <1>1, <1>2, <1>3 DEF new
<1>4. CASE LastIs(old, "assistant")
  <2>1. old # <<>> /\ c \in Chats /\ c = old[n] /\ n \in Nat \ {0} /\ c.role = "assistant"
    BY <1>1, <1>4, LastOf
  <2> HIDE DEF c, n
  <2>2. d \in Chats /\ Alike(c, d) /\ (NoAnswer(c) => NoAnswer(d))
    <3>1. c \in ChatRecords /\ Sound(c)
      BY <2>1 DEF Chats
    <3>2. d \in ChatRecords /\ d.tools = c.tools /\ d.work = c.work /\ d.workOffset = c.workOffset
          /\ d.role = c.role /\ d.streaming = FALSE /\ d.id = c.id /\ d.text = c.text
      BY <3>1 DEF ChatRecords
    <3> HIDE DEF d
    <3>3. Sound(d)
      BY <2>1, <3>1, <3>2 DEF Sound
    <3> QED BY <2>1, <3>2, <3>3 DEF Chats, Alike, SameFace, NoAnswer, Empty
  <2> HIDE DEF d
  <2>3. /\ Len(new) = n /\ new[n] = d /\ \A i \in 1..(n - 1) : new[i] = old[i]
    <3> DEFINE s == Append(Front(old), d)
    <3>1. /\ s \in Seq(Chats) /\ Len(s) = Len(old) /\ s[Len(old)] = d
          /\ \A i \in 1..(Len(old) - 1) : s[i] = old[i]
      BY <1>1, <2>1, <2>2, WithLastFacts
    <3>2. new = s
      BY <1>2, <1>4
    <3> QED BY <3>1, <3>2 DEF n
  <2>4. CASE AllAlike(ms, old)
    <3>1. n = Len(ms) /\ \A i \in 1..n : Alike(ms[i], old[i])
      BY <2>4 DEF AllAlike, n
    <3>2. Alike(ms[n], d)
      BY <2>1, <2>2, <3>1 DEF Alike, SameFace
    <3>3. \A i \in 1..n : Alike(ms[i], new[i])
      BY <2>1, <2>3, <3>1, <3>2
    <3> QED BY <1>1, <2>3, <3>1, <3>3 DEF AllAlike, Settles, new
  <2>5. CASE LastIs(ms, "user") /\ \E b \in Chats : NoAnswer(b) /\ old = Append(ms, b)
    <3>1. PICK b \in Chats : NoAnswer(b) /\ old = Append(ms, b)
      BY <2>5
    <3>2. n = Len(ms) + 1 /\ old[n] = b /\ \A i \in 1..Len(ms) : old[i] = ms[i]
      BY <3>1 DEF n
    <3>3. NoAnswer(d)
      BY <2>1, <2>2, <3>1, <3>2
    <3>4. new = Append(ms, d)
      <4>1. /\ Append(ms, d) \in Seq(Chats) /\ Len(Append(ms, d)) = n /\ Append(ms, d)[n] = d
            /\ \A i \in 1..(n - 1) : Append(ms, d)[i] = ms[i]
        BY <2>2, <3>2
      <4>2. \A i \in 1..n : new[i] = Append(ms, d)[i]
        BY <2>1, <2>3, <3>2, <4>1
      <4> QED BY <1>1, <2>3, <4>1, <4>2, SeqEqual
    <3> QED BY <1>1, <2>2, <2>5, <3>3, <3>4 DEF Settles, new
  <2> QED BY <1>1, <2>4, <2>5 DEF Settles
<1> QED BY <1>3, <1>4 DEF new

---------------------------------------------------------------------------
(* The rows of a message that is being written.                            *)

\* The later rows begin with the earlier ones, whose texts may have grown.
Grows(rows, next) ==
  Len(rows) <= Len(next) /\ \A i \in 1..Len(rows) : SameSlot(rows[i], next[i])

OwnSlots(rows) == \A i, k \in 1..Len(rows) : SameSlot(rows[i], rows[k]) => i = k

Below(rows, n) == \A i \in 1..Len(rows) : rows[i].slot[2] <= n

LEMMA ThoughtRows ==
  ASSUME NEW rows \in Seq(Rows), NEW j \in Nat, NEW text \in Texts
  PROVE  LET next == AddThought(rows, j, text)
         IN  /\ next \in Seq(Rows) /\ Grows(rows, next)
             /\ IF text = <<>> \/ (rows # <<>> /\ Last(rows).type = "thinking")
                  THEN Len(next) = Len(rows)
                  ELSE /\ Len(next) = Len(rows) + 1
                       /\ next[Len(next)].type = "thinking" /\ next[Len(next)].slot = <<0, j>>
<1> DEFINE next == AddThought(rows, j, text)
<1>0. Len(rows) \in Nat
  OBVIOUS
<1>1. CASE text = <<>>
  BY <1>0, <1>1 DEF AddThought, Grows, SameSlot
<1>2. CASE text # <<>> /\ rows # <<>> /\ Last(rows).type = "thinking"
  <2> DEFINE d == [Last(rows) EXCEPT !.text = @ \o text]
  <2>1. Last(rows) \in Rows /\ Last(rows) = rows[Len(rows)] /\ Len(rows) \in Nat \ {0}
    <3> HIDE DEF Rows
    <3> QED BY <1>2, FrontFacts
  <2>2. Last(rows).text \o text \in Texts
    BY <2>1 DEF Rows, Texts
  <2>3. d \in Rows /\ SameSlot(Last(rows), d)
    BY <2>1, <2>2 DEF Rows, SameSlot
  <2>4. next = Append(Front(rows), d)
    BY <1>2, Zenon DEF AddThought
  <2> HIDE DEF d, next
  <2>5. next \in Seq(Rows) /\ Len(next) = Len(rows) /\ next[Len(rows)] = d
        /\ \A i \in 1..(Len(rows) - 1) : next[i] = rows[i]
    <3> HIDE DEF Rows
    <3> QED BY <1>2, <2>3, <2>4, WithLastFacts
  <2>6. ASSUME NEW i \in 1..Len(rows) PROVE SameSlot(rows[i], next[i])
    <3>1. CASE i = Len(rows)
      BY <3>1, <2>1, <2>3, <2>5
    <3>2. CASE i # Len(rows)
      BY <3>2, <2>1, <2>5 DEF SameSlot
    <3> QED BY <3>1, <3>2
  <2> QED BY <1>2, <2>1, <2>5, <2>6 DEF Grows, next
<1>3. CASE text # <<>> /\ ~(rows # <<>> /\ Last(rows).type = "thinking")
  <2> DEFINE d == Row("thinking", <<0, j>>, text)
  <2>1. d \in Rows /\ d.type = "thinking" /\ d.slot = <<0, j>>
    BY DEF Row, Rows, Slots
  <2>2. next = Append(rows, d)
    BY <1>3, Zenon DEF AddThought
  <2> HIDE DEF d, next
  <2>3. next \in Seq(Rows) /\ Len(next) = Len(rows) + 1 /\ next[Len(rows) + 1] = d
        /\ \A i \in 1..Len(rows) : next[i] = rows[i]
    <3> HIDE DEF Rows
    <3> QED BY <2>1, <2>2
  <2> QED BY <1>0, <1>3, <2>1, <2>3 DEF Grows, SameSlot, next
<1> QED BY <1>1, <1>2, <1>3

LEMMA TextRows ==
  ASSUME NEW rows \in Seq(Rows), NEW j \in Nat, NEW text \in Texts
  PROVE  LET next == AddText(rows, j, text)
         IN  /\ next \in Seq(Rows) /\ Grows(rows, next)
             /\ IF text = <<>> THEN Len(next) = Len(rows)
                ELSE /\ Len(next) = Len(rows) + 1
                     /\ next[Len(next)].type = "text" /\ next[Len(next)].slot = <<0, j>>
<1> DEFINE next == AddText(rows, j, text)
<1>0. Len(rows) \in Nat
  OBVIOUS
<1>1. CASE text = <<>>
  BY <1>0, <1>1 DEF AddText, Grows, SameSlot
<1>3. CASE text # <<>>
  <2> DEFINE d == Row("text", <<0, j>>, text)
  <2>1. d \in Rows /\ d.type = "text" /\ d.slot = <<0, j>>
    BY DEF Row, Rows, Slots
  <2>2. next = Append(rows, d)
    BY <1>3 DEF AddText
  <2> HIDE DEF d, next
  <2>3. next \in Seq(Rows) /\ Len(next) = Len(rows) + 1 /\ next[Len(rows) + 1] = d
        /\ \A i \in 1..Len(rows) : next[i] = rows[i]
    <3> HIDE DEF Rows
    <3> QED BY <2>1, <2>2
  <2> QED BY <1>0, <1>3, <2>1, <2>3 DEF Grows, SameSlot, next
<1> QED BY <1>1, <1>3

LEMMA GrowsOn ==
  ASSUME NEW a \in Seq(Rows), NEW b \in Seq(Rows), NEW c \in Seq(Rows)
  PROVE  Grows(a, a) /\ (Grows(a, b) /\ Grows(b, c) => Grows(a, c))
<1>1. Grows(a, a)
  BY Len(a) \in Nat DEF Grows, SameSlot
<1>2. ASSUME Grows(a, b), Grows(b, c) PROVE Grows(a, c)
  <2>1. Len(a) \in Nat /\ Len(b) \in Nat /\ Len(c) \in Nat /\ Len(a) <= Len(b) /\ Len(b) <= Len(c)
    BY <1>2 DEF Grows
  <2>2. ASSUME NEW i \in 1..Len(a) PROVE SameSlot(a[i], c[i])
    <3>1. SameSlot(a[i], b[i])
      BY <1>2 DEF Grows
    <3>2. SameSlot(b[i], c[i])
      BY <1>2, <2>1 DEF Grows
    <3> QED BY <3>1, <3>2 DEF SameSlot
  <2> QED BY <2>1, <2>2 DEF Grows
<1> QED BY <1>1, <1>2

\* A part adds at most one row of each kind, with its own number.
LEMMA PartRows ==
  ASSUME NEW rows \in Seq(Rows), NEW m \in Nat, NEW j \in Nat \ {0}, NEW part \in PartRecords,
         OwnSlots(rows), Below(rows, j - 1)
  PROVE  LET next == AddPart(rows, <<m, j, part>>)
         IN  next \in Seq(Rows) /\ OwnSlots(next) /\ Below(next, j) /\ Grows(rows, next)
<1> DEFINE next == AddPart(rows, <<m, j, part>>)
           n == Len(rows)
<1>0. n \in Nat /\ next \in Seq(Rows)
  <2>1. j \in Nat
    OBVIOUS
  <2>2. next \in Seq(Rows)
    BY <2>1, AddPartType, Zenon
  <2> QED BY <2>2
<1>1. ASSUME NEW a \in Seq(Rows), Grows(rows, a),
             \A i \in 1..Len(a) : i > n => a[i].slot[2] = j,
             \A i, k \in 1..Len(a) : i > n /\ k > n /\ SameSlot(a[i], a[k]) => i = k
      PROVE  OwnSlots(a) /\ Below(a, j)
  <2>1. \A i \in 1..n : i \in 1..Len(a) /\ SameSlot(rows[i], a[i])
    BY <1>0, <1>1 DEF Grows
  <2>2. \A i \in 1..n : a[i].slot[2] <= j - 1
    BY <2>1 DEF Below, SameSlot
  <2>3. Below(a, j)
    <3> SUFFICES ASSUME NEW i \in 1..Len(a) PROVE a[i].slot[2] <= j
      BY DEF Below
    <3>1. i > n \/ i \in 1..n
      BY <1>0
    <3>2. CASE i \in 1..n
      <4>1. a[i].slot[2] \in Nat
        <5>1. a[i] \in Rows
          <6> HIDE DEF Rows
          <6> QED BY <1>1
        <5> QED BY <5>1 DEF Rows, Slots
      <4> QED BY <2>2, <3>2, <4>1
    <3>3. CASE i > n
      BY <1>1, <3>3
    <3> QED BY <3>1, <3>2, <3>3
  <2>4. ASSUME NEW i \in 1..Len(a), NEW k \in 1..Len(a), SameSlot(a[i], a[k]) PROVE i = k
    <3>1. a[i].slot[2] = a[k].slot[2]
      BY <2>4 DEF SameSlot
    <3>2. (i > n \/ i \in 1..n) /\ (k > n \/ k \in 1..n)
      BY <1>0
    <3>3. CASE i \in 1..n /\ k \in 1..n
      <4>1. SameSlot(rows[i], rows[k])
        BY <2>1, <2>4, <3>3 DEF SameSlot
      <4> QED BY <3>3, <4>1 DEF OwnSlots
    <3>4. CASE i > n /\ k > n
      BY <1>1, <2>4, <3>4
    <3>5. CASE i > n /\ k \in 1..n
      <4>1. j <= j - 1
        BY <1>1, <2>2, <3>1, <3>5
      <4> QED BY <4>1
    <3>6. CASE k > n /\ i \in 1..n
      <4>1. j <= j - 1
        BY <1>1, <2>2, <3>1, <3>6
      <4> QED BY <4>1
    <3> QED BY <3>2, <3>3, <3>4, <3>5, <3>6
  <2> QED BY <2>3, <2>4 DEF OwnSlots
<1>2. CASE part.kind = "toolCall"
  <2> DEFINE d == ToolRow(<<m, j>>)
  <2>1. d \in Rows /\ d.slot[2] = j
    BY DEF ToolRow, Row, Rows, Slots, Texts
  <2>2. next = Append(rows, d)
    BY <1>2 DEF AddPart
  <2> HIDE DEF d, next
  <2>3. Len(next) = n + 1 /\ next[n + 1] = d /\ \A i \in 1..n : next[i] = rows[i]
    <3> HIDE DEF Rows
    <3> QED BY <2>1, <2>2
  <2>4. Grows(rows, next)
    BY <1>0, <2>3 DEF Grows, SameSlot
  <2>5. \A i \in 1..Len(next) : i > n => i = n + 1
    BY <1>0, <2>3
  <2> QED BY <1>0, <1>1, <2>1, <2>3, <2>4, <2>5 DEF next
<1>3. CASE part.kind # "toolCall"
  <2> DEFINE thought == Thought(m, j, part)
             prose == Prose(m, j, part)
             old == AddThought(rows, j, thought)
  <2>1. thought \in Texts /\ prose \in Texts
    BY PartTexts
  <2>2. next = AddText(old, j, prose)
    BY <1>3 DEF AddPart
  <2> HIDE DEF thought, prose, next
  <2>3. /\ old \in Seq(Rows) /\ Grows(rows, old)
        /\ \/ Len(old) = n
           \/ Len(old) = n + 1 /\ old[n + 1].type = "thinking" /\ old[n + 1].slot = <<0, j>>
    <3>0. j \in Nat
      OBVIOUS
    <3>1. /\ old \in Seq(Rows) /\ Grows(rows, old)
          /\ IF thought = <<>> \/ (rows # <<>> /\ Last(rows).type = "thinking")
               THEN Len(old) = Len(rows)
               ELSE /\ Len(old) = Len(rows) + 1
                    /\ old[Len(old)].type = "thinking" /\ old[Len(old)].slot = <<0, j>>
      BY <2>1, <3>0, ThoughtRows, Zenon
    <3> HIDE DEF old
    <3> QED BY <3>1
  <2> HIDE DEF old
  <2>4. /\ Grows(old, next)
        /\ \/ Len(next) = Len(old)
           \/ /\ Len(next) = Len(old) + 1
              /\ next[Len(old) + 1].type = "text" /\ next[Len(old) + 1].slot = <<0, j>>
    <3>0. j \in Nat
      OBVIOUS
    <3>1. /\ next \in Seq(Rows) /\ Grows(old, next)
          /\ IF prose = <<>> THEN Len(next) = Len(old)
             ELSE /\ Len(next) = Len(old) + 1
                  /\ next[Len(next)].type = "text" /\ next[Len(next)].slot = <<0, j>>
      BY <2>1, <2>2, <2>3, <3>0, TextRows, Zenon
    <3> QED BY <3>1
  <2>5. Grows(rows, next)
    BY <1>0, <2>3, <2>4, GrowsOn
  <2>6. \A i \in 1..Len(next) : i > n =>
          /\ next[i].slot = <<0, j>>
          /\ i <= Len(old) => i = n + 1 /\ next[i].type = "thinking"
          /\ i > Len(old) => i = Len(old) + 1 /\ next[i].type = "text"
    <3>1. Len(old) \in Nat /\ \A i \in 1..Len(old) : SameSlot(old[i], next[i])
      BY <2>3, <2>4 DEF Grows
    <3> SUFFICES ASSUME NEW i \in 1..Len(next), i > n
                 PROVE  /\ next[i].slot = <<0, j>>
                        /\ i <= Len(old) => i = n + 1 /\ next[i].type = "thinking"
                        /\ i > Len(old) => i = Len(old) + 1 /\ next[i].type = "text"
      OBVIOUS
    <3>2. CASE i <= Len(old)
      <4>1. i = n + 1 /\ i \in 1..Len(old) /\ Len(old) = n + 1
        BY <1>0, <2>3, <3>1, <3>2
      <4>2. SameSlot(old[i], next[i])
        BY <3>1, <4>1
      <4> QED BY <2>3, <4>1, <4>2, <1>0 DEF SameSlot
    <3>3. CASE i > Len(old)
      BY <1>0, <2>4, <3>1, <3>3
    <3> QED BY <3>1, <3>2, <3>3
  <2>7. \A i \in 1..Len(next) : i > n => next[i].slot[2] = j
    BY <2>6
  <2>8. ASSUME NEW i \in 1..Len(next), NEW k \in 1..Len(next), i > n, k > n, SameSlot(next[i], next[k])
        PROVE  i = k
    <3>1. next[i].type = next[k].type
      BY <2>8 DEF SameSlot
    <3>2. (i <= Len(old) \/ i > Len(old)) /\ (k <= Len(old) \/ k > Len(old))
      BY <2>3
    <3> QED BY <2>6, <2>8, <3>1, <3>2
  <2> QED BY <1>0, <1>1, <2>5, <2>7, <2>8 DEF next
<1> QED BY <1>2, <1>3

LEMMA WorkAppend ==
  ASSUME NEW m \in Nat, NEW ps \in Seq(PartRecords), NEW p \in PartRecords
  PROVE  /\ getWork(m, <<>>) = <<>> /\ getWork(m, ps) \in Seq(Rows)
         /\ getWork(m, Append(ps, p)) = AddPart(getWork(m, ps), <<m, Len(ps) + 1, p>>)
<1> DEFINE n == Len(ps)
           E == {m} \X Nat \X PartRecords
           A == Seq(Rows)
           op == [q \in A \X E |-> AddPart(q[1], q[2])]
           u == [j \in 1..n |-> <<m, j, ps[j]>>]
           w == Append(ps, p)
           v == [j \in 1..(n + 1) |-> <<m, j, w[j]>>]
           y == <<m, n + 1, p>>
<1>1. /\ n \in Nat /\ DOMAIN ps = 1..n /\ DOMAIN w = 1..(n + 1) /\ w[n + 1] = p /\ y \in E
      /\ \A j \in 1..n : w[j] = ps[j] /\ ps[j] \in PartRecords
  OBVIOUS
<1>2. u \in Seq(E) /\ Len(u) = n /\ v \in Seq(E) /\ Len(v) = n + 1
  BY <1>1
<1>3. v = Append(u, y)
  <2>1. v[n + 1] = y /\ \A j \in 1..n : v[j] = u[j]
    BY <1>1
  <2> HIDE DEF u, v, y, E
  <2>2. /\ Append(u, y) \in Seq(E) /\ Len(Append(u, y)) = n + 1 /\ Append(u, y)[n + 1] = y
        /\ \A j \in 1..n : Append(u, y)[j] = u[j]
    BY <1>1, <1>2, AppendProperties
  <2>3. \A j \in 1..(n + 1) : v[j] = Append(u, y)[j]
    BY <1>1, <2>1, <2>2
  <2> QED BY <1>2, <2>2, <2>3, SeqEqual
<1>4. getWork(m, ps) = Assembled(u) /\ getWork(m, w) = Assembled(v) /\ getWork(m, <<>>) = Assembled(<<>>)
  BY <1>1 DEF getWork, Assembled
<1>5. ASSUME NEW a \in A, NEW x \in E PROVE AddPart(a, x) \in A
  <2>1. PICK j \in Nat, part \in PartRecords : x = <<m, j, part>>
    OBVIOUS
  <2> QED BY <2>1, AddPartType
<1>6. op \in [A \X E -> A] /\ \A a \in A, x \in E : op[<<a, x>>] = AddPart(a, x)
  <2> HIDE DEF A, E
  <2> QED BY <1>5
<1>7. <<>> \in A /\ <<>> \in Seq(E)
  OBVIOUS
<1> HIDE DEF A, E, op, u, v, y
<1>8. ASSUME NEW z \in Seq(E)
      PROVE  Folding(A, E, op, <<>>, z) /\ Assembled(z) = Reduced(A, op, <<>>, z)
  <2>1. Folding(A, E, op, <<>>, z)
    BY <1>6, <1>7 DEF Folding
  <2> QED BY <2>1, <1>6, PartFold
<1>9. Assembled(<<>>) = <<>>
  BY <1>7, <1>8, ReducedEmpty
<1>10. Reduced(A, op, <<>>, u) \in A
       /\ Reduced(A, op, <<>>, Append(u, y)) = op[<<Reduced(A, op, <<>>, u), y>>]
  BY <1>1, <1>2, <1>8, ReducedAppend
<1>11. Assembled(u) \in A /\ Assembled(v) = AddPart(Assembled(u), y)
  BY <1>1, <1>2, <1>3, <1>6, <1>8, <1>10
<1> QED BY <1>4, <1>9, <1>11 DEF A, y

LEMMA WorkRows ==
  ASSUME NEW m \in Nat, NEW ps \in Seq(PartRecords)
  PROVE  /\ getWork(m, ps) \in Seq(Rows)
         /\ OwnSlots(getWork(m, ps)) /\ Below(getWork(m, ps), Len(ps))
<1> DEFINE Good(b) == OwnSlots(getWork(m, b)) /\ Below(getWork(m, b), Len(b))
           S == {i \in 0..Len(ps) : Good(SubSeq(ps, 1, i))}
<1>1. Len(ps) \in Nat /\ SubSeq(ps, 1, 0) = <<>> /\ SubSeq(ps, 1, Len(ps)) = ps
  BY Beginnings
<1>2. 0 \in S
  <2>1. [kind |-> "text", n |-> 1] \in PartRecords /\ <<>> \in Seq(PartRecords)
    BY DEF PartRecords, Kinds
  <2>2. getWork(m, <<>>) = <<>>
    BY <2>1, WorkAppend
  <2>3. OwnSlots(<<>>) /\ Below(<<>>, 0) /\ Len(<<>>) = 0
    BY DEF OwnSlots, Below
  <2>4. Good(SubSeq(ps, 1, 0))
    BY <1>1, <2>2, <2>3, Zenon
  <2> HIDE DEF Good
  <2> QED BY <1>1, <2>4
<1>3. ASSUME NEW i \in 0..(Len(ps) - 1), i \in S PROVE i + 1 \in S
  <2> DEFINE b == SubSeq(ps, 1, i)
             p == ps[i + 1]
  <2>1. b \in Seq(PartRecords) /\ Len(b) = i /\ p \in PartRecords /\ SubSeq(ps, 1, i + 1) = Append(b, p)
    <3>1. i \in 0..Len(ps)
      BY <1>1
    <3> QED BY <3>1, Beginnings
  <2>2. Good(b) /\ i + 1 \in 0..Len(ps) /\ i + 1 \in Nat \ {0} /\ (i + 1) - 1 = i
    BY <1>1, <1>3
  <2> HIDE DEF b, p
  <2>3. getWork(m, b) \in Seq(Rows) /\ getWork(m, Append(b, p)) = AddPart(getWork(m, b), <<m, i + 1, p>>)
    BY <2>1, WorkAppend
  <2>4. OwnSlots(getWork(m, b)) /\ Below(getWork(m, b), (i + 1) - 1)
    BY <2>1, <2>2
  <2>5. OwnSlots(getWork(m, Append(b, p))) /\ Below(getWork(m, Append(b, p)), i + 1)
    BY <2>1, <2>2, <2>3, <2>4, PartRows
  <2>6. Len(Append(b, p)) = i + 1
    BY <2>1
  <2>7. Good(Append(b, p))
    BY <2>5, <2>6
  <2> HIDE DEF Good
  <2> QED BY <2>1, <2>2, <2>7
<1>4. Len(ps) \in S
  <2> HIDE DEF S
  <2>1. \A i \in 0..(Len(ps) - 1) : i \in S => i + 1 \in S
    BY <1>3
  <2>2. \A i \in 0..Len(ps) : i \in S
    BY <1>1, <1>2, <2>1, UpTo
  <2> QED BY <1>1, <2>2
<1>5. Good(ps)
  <2> HIDE DEF Good
  <2> QED BY <1>1, <1>4
<1> QED BY <1>5, GetWorkType

\* The second instalment of a part adds to the rows that the first one has.
LEMMA Finished ==
  ASSUME NEW rows \in Seq(Rows), NEW m \in Nat, NEW j \in Nat \ {0}, NEW p \in PartRecords,
         p.n = 1, p.kind # "toolCall"
  PROVE  Grows(AddPart(rows, <<m, j, p>>), AddPart(rows, <<m, j, [p EXCEPT !.n = 2]>>))
<1> DEFINE q == [p EXCEPT !.n = 2]
<1>1. /\ q \in PartRecords /\ q.kind = p.kind /\ q.n = 2 /\ j \in Nat
      /\ p.kind \in {"thinking", "text", "tagged"}
  BY DEF PartRecords, Kinds
<1> HIDE DEF q
<1>2. AddPart(rows, <<m, j, p>>) = AddText(AddThought(rows, j, Thought(m, j, p)), j, Prose(m, j, p))
  BY DEF AddPart
<1>3. AddPart(rows, <<m, j, q>>) = AddText(AddThought(rows, j, Thought(m, j, q)), j, Prose(m, j, q))
  BY <1>1 DEF AddPart
<1> DEFINE tp == Thought(m, j, p)
           tq == Thought(m, j, q)
           pp == Prose(m, j, p)
           pq == Prose(m, j, q)
           a == AddThought(rows, j, tp)
           b == AddThought(rows, j, tq)
<1>4. tp \in Texts /\ tq \in Texts /\ pp \in Texts /\ pq \in Texts
  BY <1>1, PartTexts
<1>5. (tp = <<>> <=> tq = <<>>) /\ (pq = <<>> => pp = <<>>)
  <2>1. CASE p.kind = "thinking"
    BY <1>1, <2>1 DEF Thought, Prose
  <2>2. CASE p.kind = "text"
    BY <1>1, <2>2 DEF Thought, Prose
  <2>3. CASE p.kind = "tagged"
    BY <1>1, <2>3 DEF Thought, Prose
  <2> QED BY <1>1, <2>1, <2>2, <2>3
<1> HIDE DEF tp, tq, pp, pq
<1>6. /\ a \in Seq(Rows) /\ b \in Seq(Rows) /\ Len(a) = Len(b)
      /\ \A i \in 1..Len(a) : SameSlot(a[i], b[i])
  <2>1. /\ a \in Seq(Rows) /\ Grows(rows, a)
        /\ IF tp = <<>> \/ (rows # <<>> /\ Last(rows).type = "thinking")
             THEN Len(a) = Len(rows)
             ELSE /\ Len(a) = Len(rows) + 1
                  /\ a[Len(a)].type = "thinking" /\ a[Len(a)].slot = <<0, j>>
    BY <1>1, <1>4, ThoughtRows, Zenon
  <2>2. /\ b \in Seq(Rows) /\ Grows(rows, b)
        /\ IF tq = <<>> \/ (rows # <<>> /\ Last(rows).type = "thinking")
             THEN Len(b) = Len(rows)
             ELSE /\ Len(b) = Len(rows) + 1
                  /\ b[Len(b)].type = "thinking" /\ b[Len(b)].slot = <<0, j>>
    BY <1>1, <1>4, ThoughtRows, Zenon
  <2> HIDE DEF a, b
  <2>3. Len(a) = Len(b) /\ Len(rows) \in Nat
    BY <1>5, <2>1, <2>2
  <2>4. ASSUME NEW i \in 1..Len(a) PROVE SameSlot(a[i], b[i])
    <3>1. CASE i \in 1..Len(rows)
      BY <2>1, <2>2, <3>1 DEF Grows, SameSlot
    <3>2. CASE i \notin 1..Len(rows)
      <4>1. i = Len(a) /\ Len(a) = Len(rows) + 1
        BY <2>1, <2>3, <3>2
      <4>2. a[i].type = "thinking" /\ a[i].slot = <<0, j>> /\ b[i].type = "thinking" /\ b[i].slot = <<0, j>>
        BY <1>5, <2>1, <2>2, <2>3, <4>1
      <4> QED BY <4>2 DEF SameSlot
    <3> QED BY <3>1, <3>2
  <2> QED BY <2>1, <2>2, <2>3, <2>4
<1> HIDE DEF a, b
<1> DEFINE c == AddText(a, j, pp)
           d == AddText(b, j, pq)
<1>7. /\ c \in Seq(Rows) /\ Grows(a, c)
      /\ IF pp = <<>> THEN Len(c) = Len(a)
         ELSE /\ Len(c) = Len(a) + 1
              /\ c[Len(c)].type = "text" /\ c[Len(c)].slot = <<0, j>>
  BY <1>1, <1>4, <1>6, TextRows, Zenon
<1>8. /\ d \in Seq(Rows) /\ Grows(b, d)
      /\ IF pq = <<>> THEN Len(d) = Len(b)
         ELSE /\ Len(d) = Len(b) + 1
              /\ d[Len(d)].type = "text" /\ d[Len(d)].slot = <<0, j>>
  BY <1>1, <1>4, <1>6, TextRows, Zenon
<1>9. Grows(c, d)
  <2> HIDE DEF c, d
  <2>1. Len(c) <= Len(d) /\ Len(a) \in Nat /\ Len(c) \in Nat
    BY <1>5, <1>6, <1>7, <1>8
  <2>2. ASSUME NEW i \in 1..Len(c) PROVE SameSlot(c[i], d[i])
    <3>1. CASE i \in 1..Len(a)
      <4>1. SameSlot(a[i], c[i]) /\ SameSlot(b[i], d[i]) /\ SameSlot(a[i], b[i])
        BY <1>6, <1>7, <1>8, <3>1 DEF Grows
      <4> QED BY <4>1 DEF SameSlot
    <3>2. CASE i \notin 1..Len(a)
      <4>1. i = Len(a) + 1 /\ Len(c) = Len(a) + 1 /\ pp # <<>>
        BY <1>7, <2>1, <3>2
      <4>2. pq # <<>> /\ Len(d) = Len(a) + 1
        BY <1>5, <1>6, <1>8, <4>1
      <4>3. c[i].type = "text" /\ c[i].slot = <<0, j>> /\ d[i].type = "text" /\ d[i].slot = <<0, j>>
        BY <1>7, <1>8, <4>1, <4>2
      <4> QED BY <4>3 DEF SameSlot
    <3> QED BY <3>1, <3>2
  <2> QED BY <2>1, <2>2 DEF Grows
<1> QED BY <1>2, <1>3, <1>9 DEF a, b, tp, tq, pp, pq, q

\* So the rows of the message grow with each instalment.
LEMMA WrittenRows ==
  ASSUME parts \in Seq(PartRecords), shape \in Shapes, Len(parts) <= Len(shape), ~Complete,
         NEW m \in Nat
  PROVE  Grows(getWork(m, parts), getWork(m, Written))
<1>1. getWork(m, parts) \in Seq(Rows) /\ OwnSlots(getWork(m, parts)) /\ Below(getWork(m, parts), Len(parts))
  BY WorkRows
<1>2. CASE parts # <<>> /\ MoreToCome(Last(parts))
  <2> DEFINE p == Last(parts)
             q == [p EXCEPT !.n = 2]
             f == Front(parts)
  <2>1. p \in PartRecords /\ f \in Seq(PartRecords) /\ parts = Append(f, p)
    BY <1>2, FrontFacts
  <2>2. p.n = 1 /\ p.kind # "toolCall"
    BY <1>2, BoundsAssumption DEF MoreToCome
  <2>3. Written = Append(f, q)
    BY <1>2 DEF Written
  <2>4. q \in PartRecords
    BY <2>1 DEF PartRecords
  <2>5. getWork(m, f) \in Seq(Rows) /\ Len(f) + 1 \in Nat \ {0}
        /\ getWork(m, Append(f, p)) = AddPart(getWork(m, f), <<m, Len(f) + 1, p>>)
        /\ getWork(m, Append(f, q)) = AddPart(getWork(m, f), <<m, Len(f) + 1, q>>)
    <3> HIDE DEF p, q, f
    <3> QED BY <2>1, <2>4, WorkAppend
  <2>6. Grows(AddPart(getWork(m, f), <<m, Len(f) + 1, p>>), AddPart(getWork(m, f), <<m, Len(f) + 1, q>>))
    <3> HIDE DEF p, f
    <3> QED BY <2>1, <2>2, <2>5, Finished
  <2> QED BY <2>1, <2>3, <2>5, <2>6
<1>3. CASE ~(parts # <<>> /\ MoreToCome(Last(parts)))
  <2> DEFINE p == [kind |-> shape[Len(parts) + 1], n |-> 1]
  <2>1. Written = Append(parts, p)
    BY <1>3 DEF Written
  <2>2. Written \in Seq(PartRecords) /\ Len(parts) \in Nat
    BY WrittenType
  <2>3. p \in PartRecords
    <3>1. Written[Len(parts) + 1] = p /\ Len(Written) = Len(parts) + 1
      <4> HIDE DEF p
      <4> QED BY <2>1
    <3> HIDE DEF p
    <3> QED BY <2>2, <3>1
  <2> HIDE DEF p
  <2>4. getWork(m, Append(parts, p)) = AddPart(getWork(m, parts), <<m, Len(parts) + 1, p>>)
    BY <2>3, WorkAppend
  <2>5. Below(getWork(m, parts), (Len(parts) + 1) - 1) /\ Len(parts) + 1 \in Nat \ {0}
    BY <1>1, <2>2
  <2> QED BY <1>1, <2>1, <2>3, <2>4, <2>5, PartRows
<1> QED BY <1>2, <1>3

---------------------------------------------------------------------------
(* What merging a later state of the message that is being written does.   *)

\* The members of t are those of s behind the n-th.
Behind(t, s, n) == \A k \in 1..Len(t) : t[k] = s[n + k]

LEMMA PickedSuffix ==
  ASSUME NEW S, NEW s \in Seq(S), NEW n \in Nat, NEW P, \A i \in 1..Len(s) : i \in P <=> i > n
  PROVE  /\ Picked(s, P) \in Seq(S)
         /\ Len(Picked(s, P)) = IF Len(s) <= n THEN 0 ELSE Len(s) - n
         /\ Behind(Picked(s, P), s, n)
<1> DEFINE r(i) == Picked(SubSeq(s, 1, i), P)
           Good(i) == /\ r(i) \in Seq(S) /\ Len(r(i)) = IF i <= n THEN 0 ELSE i - n
                      /\ \A k \in 1..Len(r(i)) : r(i)[k] = s[n + k]
           I == {i \in 0..Len(s) : Good(i)}
<1>1. Len(s) \in Nat /\ SubSeq(s, 1, 0) = <<>> /\ SubSeq(s, 1, Len(s)) = s
  BY Beginnings
<1>2. CASE s = <<>>
  <2>1. Picked(<<>>, P) = <<>>
    <3>1. Picked(<<>>, P) = FlattenSeq(<<>>)
      BY DEF Picked
    <3>2. <<>> \in Seq(Seq(S)) /\ <<>> \in Seq(S)
      OBVIOUS
    <3> QED BY <3>1, <3>2, FlattenAppend
  <2>2. Len(s) = 0 /\ Len(Picked(s, P)) = 0 /\ Picked(s, P) = <<>> /\ <<>> \in Seq(S)
    BY <1>2, <2>1
  <2> QED BY <2>2 DEF Behind
<1>3. CASE s # <<>>
  <2>0. Len(s) > 0 /\ s[1] \in S /\ <<>> \in Seq(S)
    BY <1>1, <1>3
  <2>1. Picked(<<>>, P) = <<>>
    BY <2>0, PickedAppend
  <2>2. r(0) = <<>>
    BY <1>1, <2>1
  <2> HIDE DEF r
  <2>3. 0 \in I
    <3>0. Len(<<>>) = 0 /\ 0 <= n /\ 0 \in 0..Len(s)
      BY <1>1
    <3>1. r(0) \in Seq(S) /\ Len(r(0)) = 0 /\ 0 <= n /\ 0 \in 0..Len(s)
      BY <2>0, <2>2, <3>0, Zenon
    <3>2. \A k \in 1..Len(r(0)) : r(0)[k] = s[n + k]
      BY <3>1
    <3>3. Good(0)
      BY <3>1, <3>2
    <3> HIDE DEF Good
    <3> QED BY <3>1, <3>3
  <2>4. ASSUME NEW i \in 0..(Len(s) - 1), i \in I PROVE i + 1 \in I
    <3> DEFINE b == SubSeq(s, 1, i)
               x == s[i + 1]
    <3>1. b \in Seq(S) /\ Len(b) = i /\ x \in S /\ SubSeq(s, 1, i + 1) = Append(b, x)
      <4>1. i \in 0..Len(s)
        BY <1>1
      <4> QED BY <4>1, Beginnings
    <3> HIDE DEF b, x
    <3>2. Picked(Append(b, x), P) = IF Len(b) + 1 \in P THEN Append(Picked(b, P), x) ELSE Picked(b, P)
      BY <3>1, PickedAppend
    <3>3. r(i + 1) = IF i + 1 > n THEN Append(r(i), x) ELSE r(i)
      <4>0. i + 1 \in 1..Len(s) /\ r(i) = Picked(b, P)
        BY <1>1 DEF r, b
      <4>1. r(i + 1) = Picked(Append(b, x), P)
        BY <3>1, Zenon DEF r
      <4> QED BY <3>1, <3>2, <4>0, <4>1
    <3>4. Good(i) /\ i + 1 \in 0..Len(s) /\ i \in Nat
      BY <1>1, <2>4
    <3>7. r(i) \in Seq(S) /\ (i + 1 > n => Len(r(i)) = i - n)
      BY <3>4
    <3>5. CASE i + 1 > n
      <4>1. Len(r(i)) = i - n /\ r(i + 1) = Append(r(i), x) /\ r(i) \in Seq(S)
        BY <3>3, <3>5, <3>7
      <4>2. /\ Append(r(i), x) \in Seq(S) /\ Len(Append(r(i), x)) = i - n + 1
            /\ Append(r(i), x)[i - n + 1] = x /\ \A k \in 1..(i - n) : Append(r(i), x)[k] = r(i)[k]
        BY <3>1, <3>4, <3>5, <4>1
      <4>3. \A k \in 1..(i - n) : r(i)[k] = s[n + k]
        BY <3>4, <4>1
      <4>4. x = s[n + (i - n + 1)]
        BY <3>4 DEF x
      <4>5. \A k \in 1..(i - n + 1) : k \in 1..(i - n) \/ k = i - n + 1
        BY <3>4, <3>5
      <4>6. r(i + 1) \in Seq(S) /\ Len(r(i + 1)) = (i + 1) - n
        <5>1. r(i + 1) \in Seq(S) /\ Len(r(i + 1)) = i - n + 1
          BY <4>1, <4>2
        <5> QED BY <3>4, <5>1
      <4>7. ASSUME NEW k \in 1..Len(r(i + 1)) PROVE r(i + 1)[k] = s[n + k]
        <5>1. CASE k \in 1..(i - n)
          BY <4>1, <4>2, <4>3, <5>1
        <5>2. CASE k = i - n + 1
          BY <4>1, <4>2, <4>4, <5>2
        <5>3. k \in 1..(i - n + 1)
          BY <3>4, <4>6
        <5> QED BY <4>5, <5>1, <5>2, <5>3
      <4>8. Good(i + 1)
        BY <3>5, <4>6, <4>7
      <4> HIDE DEF Good
      <4> QED BY <3>4, <4>8
    <3>6. CASE ~(i + 1 > n)
      BY <3>3, <3>4, <3>6
    <3> QED BY <3>5, <3>6
  <2>5. Len(s) \in I
    <3> HIDE DEF I
    <3>1. \A i \in 0..(Len(s) - 1) : i \in I => i + 1 \in I
      BY <2>4
    <3>2. \A i \in 0..Len(s) : i \in I
      BY <1>1, <2>3, <3>1, UpTo
    <3> QED BY <1>1, <3>2
  <2>6. r(Len(s)) = Picked(s, P)
    BY <1>1 DEF r
  <2> QED BY <2>5, <2>6 DEF Behind
<1> QED BY <1>2, <1>3

\* Two states of the rows of one message: the longer one decides the length, the one
\* that comes in decides the rows it has.
LEMMA Graft ==
  ASSUME NEW current \in Seq(Rows), NEW incoming \in Seq(Rows), NEW all \in Seq(Rows), OwnSlots(all),
         Grows(current, all), Grows(incoming, all)
  PROVE  /\ graftWork(current, incoming) \in Seq(Rows)
         /\ Len(current) <= Len(incoming) => graftWork(current, incoming) = incoming
         /\ Len(incoming) <= Len(current) =>
              Len(graftWork(current, incoming)) = Len(current)
         /\ \A i \in 1..Len(current) : SameSlot(current[i], graftWork(current, incoming)[i])
<1> DEFINE Spots(i) == {k \in 1..Len(incoming) : SameSlot(current[i], incoming[k])}
           Spot(i) == IF Spots(i) # {} THEN Min(Spots(i)) ELSE 0
           Old(i) == IF Spot(i) = 0 THEN current[i] ELSE incoming[Spot(i)]
           kept == [i \in DOMAIN current |-> Old(i)]
           P == {i \in DOMAIN incoming : ~Continued(incoming[i], current)}
           more == Picked(incoming, P)
           g == graftWork(current, incoming)
<1>0. /\ Len(current) \in Nat /\ Len(incoming) \in Nat /\ Len(all) \in Nat
      /\ DOMAIN current = 1..Len(current) /\ DOMAIN incoming = 1..Len(incoming)
      /\ Len(current) <= Len(all) /\ Len(incoming) <= Len(all)
  BY DEF Grows
<1>1. g = kept \o more
  BY DEF graftWork, SelectInSeq
<1>2. ASSUME NEW i \in 1..Len(current), NEW k \in 1..Len(incoming)
      PROVE  SameSlot(current[i], incoming[k]) <=> i = k
  <2>1. i \in 1..Len(all) /\ k \in 1..Len(all)
    BY <1>0
  <2>2. SameSlot(current[i], all[i]) /\ SameSlot(incoming[k], all[k])
    BY DEF Grows
  <2>3. SameSlot(current[i], incoming[k]) <=> SameSlot(all[i], all[k])
    BY <2>2 DEF SameSlot
  <2>4. SameSlot(all[i], all[i])
    BY DEF SameSlot
  <2> QED BY <2>1, <2>3, <2>4 DEF OwnSlots
<1>3. \A i \in 1..Len(incoming) : i \in P <=> i > Len(current)
  <2> SUFFICES ASSUME NEW i \in 1..Len(incoming) PROVE Continued(incoming[i], current) <=> i \in 1..Len(current)
    BY <1>0
  <2>1. \A k \in 1..Len(current) : SameSlot(incoming[i], current[k]) <=> i = k
    BY <1>2 DEF SameSlot
  <2> QED BY <1>0, <2>1 DEF Continued
<1> HIDE DEF P
<1>4. /\ more \in Seq(Rows)
      /\ Len(more) = IF Len(incoming) <= Len(current) THEN 0 ELSE Len(incoming) - Len(current)
      /\ \A k \in 1..Len(more) : more[k] = incoming[Len(current) + k]
  <2>1. Len(current) \in Nat /\ incoming \in Seq(Rows)
    BY <1>0
  <2> HIDE DEF Rows
  <2>2. /\ Picked(incoming, P) \in Seq(Rows)
        /\ Len(Picked(incoming, P)) = IF Len(incoming) <= Len(current) THEN 0 ELSE Len(incoming) - Len(current)
        /\ \A k \in 1..Len(Picked(incoming, P)) : Picked(incoming, P)[k] = incoming[Len(current) + k]
    <3>1. \A i \in 1..Len(incoming) : i \in P <=> i > Len(current)
      BY <1>3
    <3>2. Picked(incoming, P) \in Seq(Rows)
      BY <2>1, <3>1, PickedSuffix
    <3>3. Len(Picked(incoming, P)) = IF Len(incoming) <= Len(current) THEN 0 ELSE Len(incoming) - Len(current)
      BY <2>1, <3>1, PickedSuffix
    <3>4. Behind(Picked(incoming, P), incoming, Len(current))
      BY <2>1, <3>1, PickedSuffix
    <3>5. \A k \in 1..Len(Picked(incoming, P)) : Picked(incoming, P)[k] = incoming[Len(current) + k]
      BY <3>4 DEF Behind
    <3> QED BY <3>2, <3>3, <3>5
  <2> QED BY <2>2
<1> HIDE DEF more
<1>5. ASSUME NEW i \in 1..Len(current)
      PROVE  Old(i) = IF i <= Len(incoming) THEN incoming[i] ELSE current[i]
  <2>1. CASE i <= Len(incoming)
    <3>1. i \in 1..Len(incoming)
      BY <1>0, <2>1
    <3>2. i \in Spots(i) /\ Spots(i) \in SUBSET (1..Len(incoming)) /\ \A k \in Spots(i) : k = i
      BY <1>2, <3>1
    <3> HIDE DEF Spots
    <3>3. Min(Spots(i)) \in Spots(i)
      BY <1>0, <3>2, MinPlace
    <3>4. Spot(i) = i
      BY <3>2, <3>3
    <3> QED BY <2>1, <3>1, <3>4
  <2>2. CASE ~(i <= Len(incoming))
    <3>1. Spots(i) = {}
      BY <1>0, <1>2, <2>2
    <3> QED BY <2>2, <3>1
  <2> QED BY <2>1, <2>2
<1> HIDE DEF Old
<1>6. kept \in Seq(Rows) /\ Len(kept) = Len(current) /\ \A i \in 1..Len(current) : kept[i] = Old(i)
  <2>1. \A i \in 1..Len(current) : Old(i) \in Rows
    <3> HIDE DEF Rows
    <3> QED BY <1>0, <1>5
  <2> HIDE DEF Rows
  <2> QED BY <1>0, <2>1
<1> HIDE DEF kept
<1>7. /\ kept \o more \in Seq(Rows) /\ Len(kept \o more) = Len(kept) + Len(more)
      /\ \A i \in 1..Len(kept) + Len(more) :
           (kept \o more)[i] = IF i <= Len(kept) THEN kept[i] ELSE more[i - Len(kept)]
  <2> HIDE DEF Rows
  <2> QED BY <1>4, <1>6, ConcatProperties
<1> HIDE DEF g
<1>10. Len(g) = Len(current) + Len(more) /\ g \in Seq(Rows)
  <2>1. Len(kept \o more) = Len(kept) + Len(more) /\ kept \o more \in Seq(Rows)
    BY <1>7
  <2> QED BY <1>1, <1>6, <2>1
<1>11. ASSUME NEW i \in 1..Len(g)
       PROVE  g[i] = IF i <= Len(current) THEN kept[i] ELSE more[i - Len(current)]
  <2>1. i \in 1..Len(kept) + Len(more)
    BY <1>6, <1>10
  <2> QED BY <1>1, <1>6, <1>7, <2>1
<1>12. Len(more) = IF Len(incoming) <= Len(current) THEN 0 ELSE Len(incoming) - Len(current)
  BY <1>4
<1>13. Len(current) \in Nat /\ Len(incoming) \in Nat
  BY <1>0
<1>14. \A i \in 1..Len(current) : SameSlot(current[i], g[i])
  BY GraftType DEF g
<1>8. CASE Len(current) <= Len(incoming)
  <2>1. Len(g) = Len(incoming)
    BY <1>8, <1>10, <1>12, <1>13
  <2>2. ASSUME NEW i \in 1..Len(incoming) PROVE g[i] = incoming[i]
    <3>1. g[i] = IF i <= Len(current) THEN kept[i] ELSE more[i - Len(current)]
      BY <1>11, <2>1
    <3>2. CASE i <= Len(current)
      <4>1. i \in 1..Len(current)
        BY <1>13, <3>2
      <4> QED BY <1>5, <1>6, <3>1, <3>2, <4>1
    <3>3. CASE ~(i <= Len(current))
      <4>1. i - Len(current) \in 1..Len(more) /\ Len(current) + (i - Len(current)) = i
        BY <1>8, <1>12, <1>13, <3>3
      <4> QED BY <1>4, <3>1, <3>3, <4>1
    <3> QED BY <3>2, <3>3
  <2>3. g = incoming
    <3> HIDE DEF Rows
    <3> QED BY <1>10, <2>1, <2>2, SeqEqual
  <2> QED BY <2>3, <1>8, <1>10, <1>13, <1>14 DEF g
<1>9. CASE ~(Len(current) <= Len(incoming))
  <2>1. Len(g) = Len(current)
    BY <1>9, <1>10, <1>12, <1>13
  <2> QED BY <2>1, <1>9, <1>10, <1>14 DEF g
<1> QED BY <1>8, <1>9

LEMMA Split ==
  ASSUME NEW S, NEW s \in Seq(S), NEW n \in 0..Len(s)
  PROVE  /\ SubSeq(s, 1, n) \in Seq(S) /\ SubSeq(s, n + 1, Len(s)) \in Seq(S)
         /\ Len(SubSeq(s, 1, n)) = n /\ Len(SubSeq(s, n + 1, Len(s))) = Len(s) - n
         /\ s = SubSeq(s, 1, n) \o SubSeq(s, n + 1, Len(s))
<1>0. Len(s) \in Nat /\ n \in Nat /\ n <= Len(s) /\ \A i \in 1..Len(s) : s[i] \in S
  OBVIOUS
<1>1. SubSeq(s, 1, n) \in Seq(S) /\ Len(SubSeq(s, 1, n)) = n
  BY Beginnings
<1>2. \A i \in (n + 1)..Len(s) : s[i] \in S
  BY <1>0
<1>3. /\ SubSeq(s, n + 1, Len(s)) \in Seq(S)
      /\ Len(SubSeq(s, n + 1, Len(s))) = IF n + 1 <= Len(s) THEN Len(s) - (n + 1) + 1 ELSE 0
  BY <1>0, <1>2, n + 1 \in Int, Len(s) \in Int, SubSeqProperties
<1>4. SubSeq(s, 1, n) \o SubSeq(s, n + 1, Len(s)) = SubSeq(s, 1, Len(s))
  BY <1>0, 1 \in 1..(Len(s) + 1), n \in (1 - 1)..Len(s), Len(s) \in n..Len(s), ConcatAdjacentSubSeq
<1>5. SubSeq(s, 1, Len(s)) = s
  BY Beginnings
<1>6. Len(SubSeq(s, n + 1, Len(s))) = Len(s) - n
  BY <1>0, <1>3
<1> QED BY <1>1, <1>3, <1>4, <1>5, <1>6, Zenon

LEMMA Suffix ==
  ASSUME NEW S, NEW p \in Seq(S), NEW w \in Seq(S)
  PROVE  p \o w \in Seq(S) /\ SubSeq(p \o w, Len(p) + 1, Len(p \o w)) = w
<1> DEFINE s == p \o w
           n == Len(p)
<1>1. /\ s \in Seq(S) /\ Len(s) = n + Len(w) /\ n \in Nat /\ Len(w) \in Nat
      /\ \A i \in 1..n + Len(w) : s[i] = IF i <= n THEN p[i] ELSE w[i - n]
  BY ConcatProperties
<1> HIDE DEF s, n
<1>2. n \in 0..Len(s)
  BY <1>1
<1> DEFINE a == SubSeq(s, n + 1, Len(s))
<1>3. a \in Seq(S) /\ Len(a) = Len(w)
  BY <1>1, <1>2, Split
<1>4. ASSUME NEW k \in 1..Len(w) PROVE a[k] = w[k]
  <2>1. k + n \in (n + 1)..Len(s) /\ k + n \in 1..n + Len(w) /\ ~(k + n <= n) /\ (k + n) - n = k
    BY <1>1
  <2>2. s[k + n] = w[k]
    BY <1>1, <2>1
  <2>3. a[k] = s[(n + 1) + k - 1]
    <3>1. n + 1 \in Int /\ Len(s) \in Int /\ \A i \in (n + 1)..Len(s) : s[i] \in S
      BY <1>1
    <3>2. \A i \in 1..Len(s) - (n + 1) + 1 : a[i] = s[(n + 1) + i - 1]
      BY <3>1, SubSeqProperties
    <3>3. k \in 1..Len(s) - (n + 1) + 1
      BY <1>1
    <3> QED BY <3>2, <3>3
  <2>4. (n + 1) + k - 1 = k + n
    BY <1>1
  <2> QED BY <2>2, <2>3, <2>4
<1> HIDE DEF a
<1>5. a = w
  BY <1>3, <1>4, SeqEqual
<1> QED BY <1>1, <1>5 DEF a, s, n

\* The rows of a message that were merged since it began.
Off(c) == IF c.workOffset = -1 THEN 0 ELSE c.workOffset
NewRows(c) == SubSeq(c.work, Off(c) + 1, Len(c.work))
OldRows(c) == SubSeq(c.work, 1, Off(c))

LEMMA RowsParts ==
  ASSUME NEW c \in Chats
  PROVE  /\ Off(c) \in 0..Len(c.work) /\ c.work \in Seq(Rows)
         /\ OldRows(c) \in Seq(Rows) /\ NewRows(c) \in Seq(Rows) /\ Len(OldRows(c)) = Off(c)
         /\ Len(NewRows(c)) = Len(c.work) - Off(c)
         /\ c.work = OldRows(c) \o NewRows(c)
<1>1. Off(c) \in 0..Len(c.work) /\ c.work \in Seq(Rows)
  <2>1. c.work \in Seq(Rows) /\ c.workOffset \in Nat \cup {-1} /\ c.workOffset <= Len(c.work)
    BY ChatParts
  <2>2. Len(c.work) \in Nat
    BY <2>1
  <2> QED BY <2>1, <2>2 DEF Off
<1> HIDE DEF Off
<1>2. /\ SubSeq(c.work, 1, Off(c)) \in Seq(Rows) /\ SubSeq(c.work, Off(c) + 1, Len(c.work)) \in Seq(Rows)
      /\ Len(SubSeq(c.work, 1, Off(c))) = Off(c) /\ Len(SubSeq(c.work, Off(c) + 1, Len(c.work))) = Len(c.work) - Off(c)
      /\ c.work = SubSeq(c.work, 1, Off(c)) \o SubSeq(c.work, Off(c) + 1, Len(c.work))
  BY <1>1, Split, Zenon
<1> QED BY <1>1, <1>2 DEF OldRows, NewRows

LEMMA MergedWork ==
  ASSUME NEW c \in Chats, c.role = "assistant", NEW incoming \in Chats, NEW streaming \in BOOLEAN
  PROVE  LET d == mergeAssistant(c, incoming, streaming, FALSE)
         IN  /\ d.workOffset = Off(c) /\ d.id = c.id /\ d.role = c.role /\ d.tools = c.tools
             /\ d.work = IF incoming.work = <<>> THEN c.work
                         ELSE OldRows(c) \o graftWork(NewRows(c), incoming.work)
<1> DEFINE d == mergeAssistant(c, incoming, streaming, FALSE)
<1>1. /\ d.workOffset = Off(c) /\ d.id = c.id /\ d.role = c.role /\ d.tools = c.tools
      /\ d.work = mergeWork(c.work, incoming.work, Off(c))
  BY DEF Chats, ChatRecords, mergeAssistant, Off
<1> HIDE DEF d
<1>2. mergeWork(c.work, incoming.work, Off(c)) =
        IF incoming.work = <<>> THEN c.work ELSE OldRows(c) \o graftWork(NewRows(c), incoming.work)
  BY DEF mergeWork, OldRows, NewRows
<1> QED BY <1>1, <1>2 DEF d

LEMMA MergedStart ==
  ASSUME NEW c \in Chats, c.role = "assistant", NEW incoming \in Chats, NEW streaming \in BOOLEAN,
         incoming.work = <<>>
  PROVE  LET d == mergeAssistant(c, incoming, streaming, TRUE)
         IN  /\ d.id = c.id /\ d.role = c.role /\ d.tools = c.tools /\ d.work = c.work
             /\ NewRows(d) = <<>>
<1> DEFINE d == mergeAssistant(c, incoming, streaming, TRUE)
<1>1. /\ d.id = c.id /\ d.role = c.role /\ d.tools = c.tools /\ d.work = c.work
      /\ d.workOffset = Len(c.work)
  BY DEF Chats, ChatRecords, mergeAssistant, mergeWork
<1> HIDE DEF d
<1>2. Len(c.work) \in Nat
  BY ChatParts
<1>3. Off(d) = Len(c.work)
  BY <1>1, <1>2 DEF Off
<1>4. SubSeq(c.work, Len(c.work) + 1, Len(c.work)) = <<>>
  BY <1>2, Len(c.work) + 1 \in Int, Len(c.work) \in Int, Len(c.work) < Len(c.work) + 1, SubSeqEmpty
<1>5. NewRows(d) = <<>>
  BY <1>1, <1>3, <1>4, Zenon DEF NewRows
<1> QED BY <1>1, <1>5 DEF d

\* The message goes on with rows that its newest rows grow into.
LEMMA Merged ==
  ASSUME NEW c \in Chats, c.role = "assistant", NEW incoming \in Chats, NEW streaming \in BOOLEAN,
         Grows(NewRows(c), incoming.work), OwnSlots(incoming.work)
  PROVE  LET d == mergeAssistant(c, incoming, streaming, FALSE)
         IN  /\ d.id = c.id /\ d.role = c.role /\ d.tools = c.tools
             /\ d.work = OldRows(c) \o incoming.work /\ NewRows(d) = incoming.work
<1> DEFINE d == mergeAssistant(c, incoming, streaming, FALSE)
           w == NewRows(c)
           v == incoming.work
<1>1. /\ d.workOffset = Off(c) /\ d.id = c.id /\ d.role = c.role /\ d.tools = c.tools
      /\ d.work = IF v = <<>> THEN c.work ELSE OldRows(c) \o graftWork(w, v)
  <2> HIDE DEF w
  <2>1. /\ d.workOffset = Off(c) /\ d.id = c.id /\ d.role = c.role /\ d.tools = c.tools
        /\ d.work = IF incoming.work = <<>> THEN c.work
                    ELSE OldRows(c) \o graftWork(NewRows(c), incoming.work)
    BY MergedWork, Zenon
  <2> QED BY <2>1 DEF w
<1> HIDE DEF d
<1>2. /\ Off(c) \in 0..Len(c.work) /\ OldRows(c) \in Seq(Rows) /\ w \in Seq(Rows) /\ Len(OldRows(c)) = Off(c)
      /\ c.work = OldRows(c) \o w
  BY RowsParts
<1>3. v \in Seq(Rows) /\ Grows(w, v) /\ Grows(v, v) /\ OwnSlots(v)
  <2>1. v \in Seq(Rows)
    BY ChatParts
  <2> QED BY <1>2, <2>1, GrowsOn
<1> HIDE DEF w, v
<1>4. graftWork(w, v) = v
  <2>1. Len(w) <= Len(v)
    BY <1>3 DEF Grows
  <2> QED BY <1>2, <1>3, <2>1, Graft
<1>5. d.work = OldRows(c) \o v
  <2>1. CASE v = <<>>
    <3>1. Len(w) <= 0 /\ Len(w) \in Nat
      BY <1>2, <1>3, <2>1 DEF Grows
    <3>2. w = <<>>
      BY <1>2, <3>1
    <3> QED BY <1>1, <1>2, <2>1, <3>2
  <2>2. CASE v # <<>>
    BY <1>1, <1>4, <2>2
  <2> QED BY <2>1, <2>2
<1>6. NewRows(d) = v
  <2>1. Off(d) = Off(c)
    BY <1>1, <1>2 DEF Off
  <2>2. SubSeq(OldRows(c) \o v, Len(OldRows(c)) + 1, Len(OldRows(c) \o v)) = v
    BY <1>2, <1>3, Suffix
  <2>3. SubSeq(d.work, Off(d) + 1, Len(d.work)) = v
    BY <1>2, <1>5, <2>1, <2>2, Zenon
  <2> QED BY <2>3 DEF NewRows
<1> QED BY <1>1, <1>5, <1>6 DEF d, v

Outcomes == {"unknown", "running", "complete", "error"}

\* The message with more rows; what becomes known of a tool.
Longer(d, rows) == [d EXCEPT !.rows = @ \o rows]
Learn(d, tool, state) == [d EXCEPT !.tools = [@ EXCEPT ![tool] = state]]

LEMMA DigestParts ==
  ASSUME NEW d \in Digests
  PROVE  /\ d.closed \in Seq(Turns) /\ d.rows \in Seq(Rows) /\ d.tools \in Knowledge
         /\ d = [closed |-> d.closed, rows |-> d.rows, tools |-> d.tools]
BY DEF Digests

LEMMA DigestSame ==
  ASSUME NEW d \in Digests, NEW e \in Digests, e.closed = d.closed, e.rows = d.rows, e.tools = d.tools
  PROVE  e = d
<1>1. /\ d = [closed |-> d.closed, rows |-> d.rows, tools |-> d.tools]
      /\ e = [closed |-> e.closed, rows |-> e.rows, tools |-> e.tools]
  BY DigestParts
<1> QED BY <1>1, Zenon

LEMMA LongerParts ==
  ASSUME NEW d \in Digests, NEW rows \in Seq(Rows)
  PROVE  /\ Longer(d, rows) \in Digests /\ Longer(d, rows).closed = d.closed
         /\ Longer(d, rows).rows = d.rows \o rows /\ Longer(d, rows).tools = d.tools
         /\ Longer(d, <<>>) = d
<1>0. \A r : [d EXCEPT !.rows = r] = [closed |-> d.closed, rows |-> r, tools |-> d.tools]
  BY DEF Digests
<1>1. ASSUME NEW v \in Seq(Rows)
      PROVE  Longer(d, v) = [closed |-> d.closed, rows |-> d.rows \o v, tools |-> d.tools]
  BY <1>0, Zenon DEF Longer
<1>2. d.rows \o rows \in Seq(Rows) /\ d.rows \o <<>> = d.rows /\ <<>> \in Seq(Rows)
  BY DigestParts
<1>3. Longer(d, rows) \in Digests
  <2> DEFINE r == d.rows \o rows
  <2>1. Longer(d, rows) = [closed |-> d.closed, rows |-> r, tools |-> d.tools]
    BY <1>1
  <2>2. r \in Seq(Rows)
    BY <1>2
  <2> HIDE DEF r
  <2> QED BY <2>1, <2>2, DigestParts DEF Digests
<1>4. Longer(d, <<>>) = d
  <2>1. Longer(d, <<>>) = [closed |-> d.closed, rows |-> d.rows \o <<>>, tools |-> d.tools]
    BY <1>1, <1>2, Zenon
  <2>2. d = [closed |-> d.closed, rows |-> d.rows, tools |-> d.tools]
    BY DigestParts
  <2> QED BY <1>2, <2>1, <2>2, Zenon
<1>5. /\ Longer(d, rows).closed = d.closed /\ Longer(d, rows).rows = d.rows \o rows
      /\ Longer(d, rows).tools = d.tools
  BY <1>1
<1> QED BY <1>3, <1>4, <1>5, Zenon

LEMMA LearnParts ==
  ASSUME NEW d \in Digests, NEW t \in Slots, NEW s \in Outcomes
  PROVE  /\ Learn(d, t, s) \in Digests /\ Learn(d, t, s).closed = d.closed
         /\ Learn(d, t, s).rows = d.rows
         /\ Learn(d, t, s).tools[t] = s
         /\ \A u \in Slots : u # t => Learn(d, t, s).tools[u] = d.tools[u]
         /\ d.tools[t] = s => Learn(d, t, s) = d
<1> DEFINE k == [d.tools EXCEPT ![t] = s]
<1>1. /\ k \in Knowledge /\ k[t] = s /\ \A u \in Slots : u # t => k[u] = d.tools[u]
      /\ d.tools[t] = s => k = d.tools
  BY DigestParts DEF Knowledge, Outcomes
<1>0. \A r : [d EXCEPT !.tools = r] = [closed |-> d.closed, rows |-> d.rows, tools |-> r]
  BY DEF Digests
<1>2. Learn(d, t, s) = [closed |-> d.closed, rows |-> d.rows, tools |-> k]
  BY <1>0, Zenon DEF Learn
<1> HIDE DEF k
<1>3. Learn(d, t, s) \in Digests
  BY <1>1, <1>2, DigestParts DEF Digests
<1>4. Learn(d, t, s).closed = d.closed /\ Learn(d, t, s).rows = d.rows /\ Learn(d, t, s).tools = k
  BY <1>2
<1>5. d.tools[t] = s => Learn(d, t, s) = d
  BY <1>1, <1>3, <1>4, DigestSame
<1> QED BY <1>1, <1>3, <1>4, <1>5

Concat(s, t) == s \o t
\* A sequence that has two beginnings by the same end has them by any other.
LEMMA OtherEnds ==
  ASSUME NEW S, NEW a \in Seq(S), NEW p \in Seq(S), NEW w \in Seq(S), NEW v \in Seq(S), NEW x \in Seq(S),
         Concat(a, Concat(p, w)) = Concat(x, w)
  PROVE  Concat(a, Concat(p, v)) = Concat(x, v)
<1>0. a \o (p \o w) = x \o w
  BY DEF Concat
<1>1. (a \o p) \o w = a \o (p \o w)
  BY ConcatAssociative, SMTT(30)
<1>6. (a \o p) \o v = a \o (p \o v)
  BY ConcatAssociative, SMTT(30)
<1>2. a \o p \in Seq(S)
  BY ConcatProperties
<1>3. (a \o p) \o w = x \o w
  BY <1>0, <1>1
<1>4. \A s, t, u \in Seq(S) : s \o u = t \o u => s = t
  BY ConcatSimplifications, Zenon
<1>5. a \o p = x
  BY <1>2, <1>3, <1>4
<1>7. a \o (p \o v) = x \o v
  BY <1>5, <1>6, Zenon
<1> QED BY <1>7 DEF Concat

\* The newest rows of the last message are others.
LEMMA Rewritten ==
  ASSUME NEW ms \in Seq(Chats), LastIs(ms, "assistant"), NEW b \in Chats, b.role = "assistant",
         b.tools = Last(ms).tools, NEW v \in Seq(Rows), b.work = OldRows(Last(ms)) \o v,
         NEW d \in Digests, Digest(ms) = Longer(d, NewRows(Last(ms)))
  PROVE  Digest(WithLast(ms, b)) = Longer(d, v)
<1> DEFINE c == Last(ms)
           f == Digest(Front(ms))
           p == OldRows(c)
           w == NewRows(c)
<1>1. ms # <<>> /\ c \in Chats /\ c.role = "assistant"
  BY LastOf DEF LastIs
<1>2. f \in Digests /\ Digest(ms) = AddChat(f, c) /\ Digest(WithLast(ms, b)) = AddChat(f, b)
  BY <1>1, DigestLast
<1>3. p \in Seq(Rows) /\ w \in Seq(Rows) /\ c.work = p \o w
  BY <1>1, RowsParts
<1>4. b.work = p \o v /\ b.tools = c.tools /\ Digest(ms) = Longer(d, w)
  OBVIOUS
<1> HIDE DEF c, f, p, w
<1>5. /\ AddChat(f, c) \in Digests /\ AddChat(f, c).closed = f.closed
      /\ AddChat(f, c).rows = f.rows \o c.work
      /\ AddChat(f, c).tools = Overlay(f.tools, c.tools)
  BY <1>1, <1>2, AddChatFields
<1>6. /\ AddChat(f, b) \in Digests /\ AddChat(f, b).closed = f.closed
      /\ AddChat(f, b).rows = f.rows \o b.work
      /\ AddChat(f, b).tools = Overlay(f.tools, b.tools)
  BY <1>2, AddChatFields
<1>7. /\ Longer(d, w).closed = d.closed /\ Longer(d, w).rows = d.rows \o w /\ Longer(d, w).tools = d.tools
      /\ Longer(d, v) \in Digests /\ Longer(d, v).closed = d.closed
      /\ Longer(d, v).rows = d.rows \o v /\ Longer(d, v).tools = d.tools
  BY <1>3, LongerParts
<1>20. d.rows \in Seq(Rows) /\ f.rows \in Seq(Rows)
  BY <1>2, DigestParts
<1>8. f.closed = d.closed /\ Overlay(f.tools, c.tools) = d.tools /\ f.rows \o c.work = d.rows \o w
  BY <1>2, <1>4, <1>5, <1>7, Zenon
<1>10. f.rows \o b.work = d.rows \o v
  <2>1. f.rows \o (p \o w) = d.rows \o w
    BY <1>3, <1>8
  <2>2. f.rows \o (p \o v) = d.rows \o v
    <3> DEFINE a == f.rows
               x == d.rows
    <3>1. a \in Seq(Rows) /\ x \in Seq(Rows) /\ p \in Seq(Rows) /\ w \in Seq(Rows)
      BY <1>3, <1>20
    <3>2. Concat(a, Concat(p, w)) = Concat(x, w)
      BY <2>1 DEF Concat
    <3> HIDE DEF a, x
    <3>3. Concat(a, Concat(p, v)) = Concat(x, v)
      BY <3>1, <3>2, OtherEnds
    <3> QED BY <3>3 DEF Concat, a, x
  <2> QED BY <1>4, <2>2, Zenon
<1>11. AddChat(f, b) = Longer(d, v)
  <2>1. AddChat(f, b).closed = d.closed /\ AddChat(f, b).rows = d.rows \o v /\ AddChat(f, b).tools = d.tools
    BY <1>4, <1>6, <1>8, <1>10, Zenon
  <2>2. AddChat(f, b) \in Digests /\ Longer(d, v) \in Digests
        /\ Longer(d, v).closed = d.closed /\ Longer(d, v).rows = d.rows \o v /\ Longer(d, v).tools = d.tools
    BY <1>6, <1>7
  <2>3. /\ AddChat(f, b).closed = Longer(d, v).closed /\ AddChat(f, b).rows = Longer(d, v).rows
        /\ AddChat(f, b).tools = Longer(d, v).tools
    BY <2>1, <2>2, Zenon
  <2> QED BY <2>2, <2>3, DigestSame
<1> QED BY <1>2, <1>11

\* A tool of the last message gets another state.
LEMMA Learned ==
  ASSUME NEW ms \in Seq(Chats), LastIs(ms, "assistant"), NEW b \in Chats, b.role = "assistant",
         b.work = Last(ms).work, NEW t \in Slots, DOMAIN b.tools = DOMAIN Last(ms).tools \cup {t},
         \A u \in DOMAIN Last(ms).tools : u # t => Known(b.tools[u]) = Known(Last(ms).tools[u])
  PROVE  /\ Digest(WithLast(ms, b)) = Learn(Digest(ms), t, Known(b.tools[t]))
         /\ Known(b.tools[t]) \in Outcomes
         /\ t \in DOMAIN Last(ms).tools => Digest(ms).tools[t] = Known(Last(ms).tools[t])
<1> DEFINE c == Last(ms)
           f == Digest(Front(ms))
           s == Known(b.tools[t])
<1>1. ms # <<>> /\ c \in Chats /\ c.role = "assistant"
  BY LastOf DEF LastIs
<1>2. f \in Digests /\ Digest(ms) = AddChat(f, c) /\ Digest(WithLast(ms, b)) = AddChat(f, b)
  BY <1>1, DigestLast
<1> HIDE DEF f
<1>3. s \in Outcomes
  <2>1. b.tools \in ToolSets
    BY ChatParts
  <2>2. b.tools[t] \in ToolStates
    BY <2>1, ToolSetFacts
  <2> QED BY <2>2 DEF ToolStates, Known, Outcomes
<1>5. /\ AddChat(f, c) \in Digests /\ AddChat(f, c).closed = f.closed
      /\ AddChat(f, c).rows = f.rows \o c.work
      /\ AddChat(f, c).tools = Overlay(f.tools, c.tools)
  BY <1>1, <1>2, AddChatFields
<1>6. /\ AddChat(f, b) \in Digests /\ AddChat(f, b).closed = f.closed
      /\ AddChat(f, b).rows = f.rows \o b.work
      /\ AddChat(f, b).tools = Overlay(f.tools, b.tools)
  BY <1>2, AddChatFields
<1> DEFINE e == Learn(AddChat(f, c), t, s)
           k == Overlay(f.tools, c.tools)
           l == Overlay(f.tools, b.tools)
<1>7. /\ e \in Digests /\ e.closed = f.closed /\ e.rows = f.rows \o c.work
      /\ e.tools[t] = s /\ \A u \in Slots : u # t => e.tools[u] = k[u]
  <2> HIDE DEF s
  <2>1. AddChat(f, c) \in Digests
    BY <1>5
  <2>2. /\ e \in Digests /\ e.closed = AddChat(f, c).closed /\ e.rows = AddChat(f, c).rows
        /\ e.tools[t] = s /\ \A u \in Slots : u # t => e.tools[u] = AddChat(f, c).tools[u]
    BY <1>3, <2>1, LearnParts, Zenon
  <2> QED BY <1>5, <2>2, Zenon
<1>8. l[t] = s /\ \A u \in Slots : u # t => l[u] = k[u]
  BY DEF Overlay
<1>9. l \in Knowledge /\ e.tools \in Knowledge
  <2>1. AddChat(f, b).tools \in Knowledge
    BY <1>6, DigestParts
  <2> HIDE DEF e
  <2> QED BY <1>6, <1>7, <2>1, DigestParts
<1> HIDE DEF e, l, s
<1>10. l = e.tools
  BY <1>7, <1>8, <1>9 DEF Knowledge, Outcomes
<1>11. AddChat(f, b) = e
  <2>1. AddChat(f, b).closed = e.closed /\ AddChat(f, b).tools = e.tools
    BY <1>6, <1>7, <1>10 DEF l
  <2>2. AddChat(f, b).rows = e.rows
    BY <1>6, <1>7
  <2>3. AddChat(f, b) \in Digests /\ e \in Digests
    BY <1>6, <1>7
  <2> QED BY <2>1, <2>2, <2>3, DigestSame
<1>12. t \in DOMAIN c.tools => Digest(ms).tools[t] = Known(c.tools[t])
  BY <1>2, <1>5 DEF Overlay
<1> QED BY <1>2, <1>3, <1>11, <1>12 DEF e, s

\* What an event of a tool does to the last message.
LEMMA Upserted ==
  ASSUME NEW ms \in Seq(Chats), LastIs(ms, "assistant"), NEW tool \in Slots,
         NEW status \in {"running", "complete", "error"},
         Continued(ToolRow(tool), Last(ms).work), Digest(ms).tools[tool] = "unknown"
  PROVE  LET new == upsertLastAssistantTool(ms, tool, status)
         IN  /\ Digest(new) = Learn(Digest(ms), tool, IF status = "running" THEN "unknown" ELSE status)
             /\ \E b \in Chats : /\ new = WithLast(ms, b) /\ b.role = "assistant" /\ b.id = Last(ms).id
                                 /\ b.work = Last(ms).work /\ b.workOffset = Last(ms).workOffset
<1> DEFINE I == {i \in 1..Len(ms) : ms[i].role = "assistant"}
           n == Len(ms)
           c == Last(ms)
           before == IF HasTool(c, tool) THEN c.tools[tool]
                     ELSE [CalledTool EXCEPT !.status = "running"]
           activity == [before EXCEPT !.status = status, !.recorded = @ \/ status # "running"]
           tools == [t \in DOMAIN c.tools \cup {tool} |->
                       IF t = tool THEN activity ELSE c.tools[t]]
           d == [c EXCEPT !.tools = tools, !.work = c.work]
           new == upsertLastAssistantTool(ms, tool, status)
<1>1. n \in Nat \ {0} /\ c = ms[n] /\ c \in Chats /\ c.role = "assistant" /\ ms # <<>>
  BY LastOf DEF LastIs
<1>2. I # {} /\ Max(I) = n
  <2>1. n \in I
    BY <1>1
  <2>2. I \in SUBSET (1..n) /\ \A i \in I : i <= n
    BY <1>1
  <2> HIDE DEF I
  <2>3. Max(I) \in I /\ Max(I) >= n
    BY <1>1, <2>1, <2>2, LastPlace
  <2>4. Max(I) \in 1..n /\ Max(I) <= n
    BY <2>2, <2>3
  <2> QED BY <1>1, <2>1, <2>3, <2>4
<1>3. new = [ms EXCEPT ![n] = d]
  <2> DEFINE index == IF I # {} THEN Max(I) ELSE 0
             base == IF index = 0 THEN Append(ms, Chat("assistant", <<>>)) ELSE ms
             at == IF index = 0 THEN Len(base) ELSE index
             x == base[at]
             work == IF Continued(ToolRow(tool), x.work) THEN x.work ELSE Append(x.work, ToolRow(tool))
             old == IF HasTool(x, tool) THEN x.tools[tool] ELSE [CalledTool EXCEPT !.status = "running"]
             next == [old EXCEPT !.status = status, !.recorded = @ \/ status # "running"]
             states == [t \in DOMAIN x.tools \cup {tool} |-> IF t = tool THEN next ELSE x.tools[t]]
  <2>1. new = [base EXCEPT ![at] = [x EXCEPT !.tools = states, !.work = work]]
    BY DEF upsertLastAssistantTool, SelectLastInSeq
  <2>2. index = n /\ n # 0
    BY <1>1, <1>2
  <2> HIDE DEF index
  <2>3. base = ms /\ at = n
    BY <2>2
  <2> HIDE DEF base, at, new
  <2>4. x = c
    BY <1>1, <2>3
  <2> HIDE DEF x
  <2>5. states = tools /\ work = c.work
    BY <2>4
  <2> HIDE DEF states, work, tools
  <2> QED BY <2>1, <2>3, <2>4, <2>5
<1>4. c \in ChatRecords /\ Sound(c) /\ c.tools \in ToolSets /\ c.work \in Seq(Rows)
  BY <1>1 DEF Chats, ChatRecords
<1> HIDE DEF new
<1>5. /\ DOMAIN c.tools \subseteq Slots /\ \A t \in DOMAIN c.tools : c.tools[t] \in ToolStates
  BY <1>4, ToolSetFacts
<1>6. before \in ToolStates /\ before.recorded = FALSE
  <2>1. CASE HasTool(c, tool)
    <3>1. tool \in DOMAIN c.tools /\ before = c.tools[tool] /\ before \in ToolStates
      BY <1>5, <2>1 DEF HasTool
    <3>2. Digest(ms).tools[tool] = Known(c.tools[tool])
      <4>1. DOMAIN c.tools = DOMAIN c.tools \cup {tool}
        BY <3>1
      <4>2. c \in Chats /\ c.role = "assistant"
        BY <1>1
      <4> HIDE DEF before
      <4> QED BY <3>1, <4>1, <4>2, Learned
    <3>3. Known(before) = "unknown"
      BY <3>1, <3>2
    <3> QED BY <3>1, <3>3 DEF Known, ToolStates
  <2>2. CASE ~HasTool(c, tool)
    BY <2>2 DEF CalledTool, ToolStates
  <2> QED BY <2>1, <2>2
<1>7. activity \in ToolStates /\ Known(activity) = IF status = "running" THEN "unknown" ELSE status
  <2> HIDE DEF before
  <2> QED BY <1>6 DEF ToolStates, Known
<1> HIDE DEF activity
<1>8. /\ DOMAIN tools = DOMAIN c.tools \cup {tool} /\ tools[tool] = activity
      /\ \A t \in DOMAIN tools : t # tool => tools[t] = c.tools[t]
  OBVIOUS
<1>9. tools \in ToolSets
  <2>1. DOMAIN tools \subseteq Slots /\ \A t \in DOMAIN tools : tools[t] \in ToolStates
    BY <1>5, <1>7, <1>8
  <2>2. tools = [t \in DOMAIN tools |-> tools[t]]
    BY <1>8
  <2> HIDE DEF tools
  <2> QED BY <2>1, <2>2, ToolSetType
<1> HIDE DEF tools
<1>10. /\ d.tools = tools /\ d.work = c.work /\ d.role = "assistant" /\ d.id = c.id
       /\ d.workOffset = c.workOffset /\ d.streaming = c.streaming
  BY <1>1, <1>4 DEF ChatRecords
<1>11. d \in Chats
  <2>1. d \in ChatRecords
    BY <1>4, <1>9 DEF ChatRecords
  <2>2. Sound(d)
    <3>1. \A t \in DOMAIN d.tools : Continued(ToolRow(t), d.work)
      BY <1>4, <1>8, <1>10 DEF Sound
    <3> QED BY <1>1, <1>4, <1>10, <3>1 DEF Sound
  <2> HIDE DEF d
  <2> QED BY <2>1, <2>2 DEF Chats
<1> HIDE DEF d
<1>12. new = WithLast(ms, d)
  <2>1. WithLast(ms, d) \in Seq(Chats) /\ Len(WithLast(ms, d)) = n /\ WithLast(ms, d)[n] = d
        /\ \A i \in 1..(n - 1) : WithLast(ms, d)[i] = ms[i]
    BY <1>1, <1>11, WithLastFacts DEF WithLast
  <2>2. new \in Seq(Chats) /\ Len(new) = n /\ \A i \in 1..n : new[i] = IF i = n THEN d ELSE ms[i]
    BY <1>1, <1>3, <1>11
  <2>3. \A i \in 1..n : i # n => i \in 1..(n - 1)
    BY <1>1
  <2> HIDE DEF n
  <2>4. \A i \in 1..Len(new) : new[i] = WithLast(ms, d)[i]
    BY <2>1, <2>2, <2>3
  <2> QED BY <2>1, <2>2, <2>4, SeqEqual
<1>13. Digest(WithLast(ms, d)) = Learn(Digest(ms), tool, Known(d.tools[tool]))
  <2>1. \A u \in DOMAIN c.tools : u # tool => Known(d.tools[u]) = Known(c.tools[u])
    BY <1>8, <1>10
  <2>2. DOMAIN d.tools = DOMAIN c.tools \cup {tool}
    BY <1>8, <1>10
  <2> QED BY <1>10, <1>11, <2>1, <2>2, Learned
<1>14. Known(d.tools[tool]) = IF status = "running" THEN "unknown" ELSE status
  BY <1>7, <1>8, <1>10
<1> QED BY <1>10, <1>11, <1>12, <1>13, <1>14 DEF new

\* What a stored result does to the last message, if it is its tool's.
LEMMA Attached ==
  ASSUME NEW ms \in Seq(StillChats), LastIs(ms, "assistant"), NEW r \in ResultRecords,
         r.tool \in DOMAIN Last(ms).tools
  PROVE  LET new == attachStoredToolResult(ms, r)
         IN  /\ Digest(new) = Learn(Digest(ms), r.tool, ToolOutcome(r.error))
             /\ new \in Seq(StillChats) /\ Len(new) = Len(ms)
             /\ LastIs(new, "assistant") /\ DOMAIN Last(new).tools = DOMAIN Last(ms).tools
             /\ \A i \in 1..Len(ms) : /\ new[i].role = ms[i].role /\ new[i].text = ms[i].text
                                      /\ new[i].id = ms[i].id
<1> DEFINE I == {i \in 1..Len(ms) : HasTool(ms[i], r.tool)}
           n == Len(ms)
           c == Last(ms)
           state == [c.tools[r.tool] EXCEPT !.status = ToolOutcome(r.error), !.recorded = TRUE]
           tools == [c.tools EXCEPT ![r.tool] = state]
           d == [c EXCEPT !.tools = tools]
           new == attachStoredToolResult(ms, r)
<1>0. ms \in Seq(Chats) /\ r.tool \in Slots /\ r.error \in BOOLEAN
  BY StillKnown DEF ResultRecords
<1>1. n \in Nat \ {0} /\ c = ms[n] /\ c \in Chats /\ c.role = "assistant" /\ ms # <<>>
  BY <1>0, LastOf DEF LastIs
<1>2. I # {} /\ Max(I) = n
  <2>1. n \in I
    BY <1>1 DEF HasTool
  <2>2. I \in SUBSET (1..n) /\ \A i \in I : i <= n
    BY <1>1
  <2> HIDE DEF I
  <2>3. Max(I) \in I /\ Max(I) >= n
    BY <1>1, <2>1, <2>2, LastPlace
  <2>4. Max(I) \in 1..n /\ Max(I) <= n
    BY <2>2, <2>3
  <2> QED BY <1>1, <2>1, <2>3, <2>4
<1>3. new = [ms EXCEPT ![n] = d]
  <2>1. new = [ms EXCEPT ![n].tools[r.tool] =
                 [@ EXCEPT !.status = ToolOutcome(r.error), !.recorded = TRUE]]
    <3>1. (IF I # {} THEN Max(I) ELSE 0) = n /\ n # 0
      BY <1>1, <1>2
    <3> HIDE DEF n
    <3> QED BY <3>1 DEF attachStoredToolResult, SelectLastInSeq
  <2> QED BY <1>1, <2>1
<1>4. c \in ChatRecords /\ Sound(c) /\ c.tools \in ToolSets /\ c.work \in Seq(Rows)
  BY <1>1 DEF Chats, ChatRecords
<1> HIDE DEF new
<1>5. DOMAIN c.tools \subseteq Slots /\ \A t \in DOMAIN c.tools : c.tools[t] \in ToolStates
  BY <1>4, ToolSetFacts
<1>6. state \in ToolStates /\ Known(state) = ToolOutcome(r.error)
  <2>1. ToolOutcome(r.error) \in {"complete", "error"}
    BY DEF ToolOutcome
  <2>2. c.tools[r.tool] \in ToolStates
    BY <1>5
  <2> QED BY <2>1, <2>2 DEF ToolStates, Known
<1> HIDE DEF state
<1>7. /\ DOMAIN tools = DOMAIN c.tools /\ tools[r.tool] = state
      /\ \A t \in DOMAIN tools : t # r.tool => tools[t] = c.tools[t]
  OBVIOUS
<1>8. tools \in ToolSets
  <2>1. DOMAIN tools \subseteq Slots /\ \A t \in DOMAIN tools : tools[t] \in ToolStates
    BY <1>5, <1>6, <1>7
  <2>2. tools = [t \in DOMAIN tools |-> tools[t]]
    OBVIOUS
  <2> HIDE DEF tools
  <2> QED BY <2>1, <2>2, ToolSetType
<1> HIDE DEF tools
<1>10. /\ d.tools = tools /\ d.work = c.work /\ d.role = "assistant" /\ d.id = c.id /\ d.text = c.text
       /\ d.workOffset = c.workOffset /\ d.streaming = c.streaming
  BY <1>1, <1>4 DEF ChatRecords
<1>11. d \in Chats
  <2>1. d \in ChatRecords
    BY <1>4, <1>8 DEF ChatRecords
  <2>2. Sound(d)
    <3>1. \A t \in DOMAIN d.tools : Continued(ToolRow(t), d.work)
      BY <1>4, <1>7, <1>10 DEF Sound
    <3> QED BY <1>1, <1>4, <1>10, <3>1 DEF Sound
  <2> HIDE DEF d
  <2> QED BY <2>1, <2>2 DEF Chats
<1> HIDE DEF d
<1>9. /\ new \in Seq(Chats) /\ Len(new) = n /\ \A i \in 1..n : new[i] = IF i = n THEN d ELSE ms[i]
  BY <1>0, <1>1, <1>3, <1>11
<1>12. new = WithLast(ms, d)
  <2>1. WithLast(ms, d) \in Seq(Chats) /\ Len(WithLast(ms, d)) = n /\ WithLast(ms, d)[n] = d
        /\ \A i \in 1..(n - 1) : WithLast(ms, d)[i] = ms[i]
    BY <1>0, <1>1, <1>11, WithLastFacts DEF WithLast
  <2>3. \A i \in 1..n : i # n => i \in 1..(n - 1)
    BY <1>1
  <2> HIDE DEF n
  <2>4. \A i \in 1..Len(new) : new[i] = WithLast(ms, d)[i]
    BY <1>9, <2>1, <2>3
  <2> QED BY <1>9, <2>1, <2>4, SeqEqual
<1>13. Digest(WithLast(ms, d)) = Learn(Digest(ms), r.tool, Known(d.tools[r.tool]))
  <2>1. \A u \in DOMAIN c.tools : u # r.tool => Known(d.tools[u]) = Known(c.tools[u])
    BY <1>7, <1>10
  <2>2. DOMAIN d.tools = DOMAIN c.tools \cup {r.tool}
    BY <1>7, <1>10
  <2> QED BY <1>0, <1>10, <1>11, <2>1, <2>2, Learned
<1>14. Known(d.tools[r.tool]) = ToolOutcome(r.error)
  BY <1>6, <1>7, <1>10
<1>15. new \in Seq(StillChats)
  BY AttachType DEF new
<1>16. LastIs(new, "assistant") /\ DOMAIN Last(new).tools = DOMAIN c.tools
  <2>1. new[Len(new)].role = "assistant" /\ new # <<>>
    BY <1>1, <1>9, <1>10
  <2>2. LastIs(new, "assistant")
    BY <1>9, <2>1, LastOf
  <2>3. Last(new) = d
    BY <1>1, <1>9, <2>2, LastOf
  <2> QED BY <1>7, <1>10, <2>2, <2>3
<1>17. \A i \in 1..n : new[i].role = ms[i].role /\ new[i].text = ms[i].text /\ new[i].id = ms[i].id
  BY <1>1, <1>9, <1>10
<1> QED BY <1>9, <1>12, <1>13, <1>14, <1>15, <1>16, <1>17 DEF new

---------------------------------------------------------------------------
(* What the view shows and what the session says.                          *)

\* The k-th question of the App, or the steer with this number.
Words(k) == <<<<0, 0, k>>>>
Question(k) == Chat("user", Words(k))

\* The questions that were read, or refused: of p prompts, the last of which may be under
\* way, and of the steers that may be on their way.
Ids(p, sending) == {i \in 0..p : sending # "no" => i # p}
Heard(p, sending, troubles, waiting) ==
  {k \in Nat : \/ k \in Ids(p, sending)
               \/ /\ MaxPrompts < k /\ k <= MaxPrompts + troubles
                  /\ \A j \in 1..Len(waiting) : waiting[j] # k}

SentIds == Ids(counts.prompts, app.sending)
Uttered == Heard(counts.prompts, app.sending, counts.troubles, steers)

\* A message says nothing that is not in U, and has one of the identities I.
Old(c, U, I) == (c.role = "user" => \E k \in U : c.text = Words(k)) /\ c.id \in I

\* The messages read as d.
Right(ms, d, U, I) == Digest(ms) = d /\ \A i \in 1..Len(ms) : Old(ms[i], U, I)

\* They read as d but for the n-th question, which was painted and is not read yet.
Posed(ms, d, U, I, n) ==
  \E before \in Seq(Chats), c \in Chats :
    /\ Right(before, d, U, I) /\ Alike(optimisticUserMessage(n, <<0, 0, n>>), c)
    /\ \/ ms = Append(before, c)
       \/ \E b \in Chats : NoAnswer(b) /\ ms = Append(Append(before, c), b)

\* Only messages of the agent are new, and only these changed.
Kin(ms, new) ==
  \A i \in 1..Len(new) :
    \/ new[i].role = "assistant"
    \/ /\ i \in 1..Len(ms) /\ new[i].role = ms[i].role
       /\ new[i].text = ms[i].text /\ new[i].id = ms[i].id

LEMMA WordsApart ==
  ASSUME NEW k, NEW j, Words(k) = Words(j)
  PROVE  k = j
BY DEF Words

LEMMA AskedIs ==
  ASSUME NEW k \in Nat
  PROVE  /\ messageFromRecord(Asked(k)) = Question(k) /\ Question(k) \in StillChats /\ Question(k) \in Chats
         /\ Question(k).role = "user" /\ Question(k).text = Words(k) /\ Question(k).id = 0
         /\ Question(k).work = <<>> /\ DOMAIN Question(k).tools = {}
         /\ LET c == optimisticUserMessage(k, <<0, 0, k>>)
            IN  c.role = "user" /\ c.text = Words(k) /\ c.id = k /\ c.work = <<>> /\ DOMAIN c.tools = {}
<1>1. Words(k) \in Texts
  BY DEF Words, Texts
<1>2. messageFromRecord(Asked(k)) = Question(k)
  BY DEF messageFromRecord, Asked, UserRecord, Question, Words
<1>3. Question(k) \in StillChats
  BY <1>1, ChatType DEF Question
<1>4. DOMAIN <<>> = {}
  BY NoTools
<1> QED BY <1>2, <1>3, <1>4 DEF StillChats, Question, Chat, optimisticUserMessage, Words

LEMMA KinOld ==
  ASSUME NEW ms \in Seq(Chats), NEW new \in Seq(Chats), Kin(ms, new), NEW U, NEW V, NEW I, NEW J,
         U \subseteq V, I \subseteq J, 0 \in J, \A i \in 1..Len(ms) : Old(ms[i], U, I)
  PROVE  \A i \in 1..Len(new) : Old(new[i], V, J)
<1> SUFFICES ASSUME NEW i \in 1..Len(new) PROVE Old(new[i], V, J)
  OBVIOUS
<1>1. CASE new[i].role = "assistant"
  <2>1. new[i] \in Chats
    OBVIOUS
  <2>2. new[i].id = 0
    BY <1>1, <2>1 DEF Chats, Sound
  <2> QED BY <1>1, <2>2 DEF Old
<1>2. CASE new[i].role # "assistant"
  BY <1>2 DEF Kin, Old
<1> QED BY <1>1, <1>2

LEMMA KinLast ==
  ASSUME NEW ms \in Seq(Chats), NEW b \in Chats, b.role = "assistant"
  PROVE  /\ LastIs(ms, "assistant") => Kin(ms, WithLast(ms, b))
         /\ Kin(ms, Append(ms, b)) /\ Kin(ms, ms)
<1>1. ASSUME LastIs(ms, "assistant") PROVE Kin(ms, WithLast(ms, b))
  <2>1. ms # <<>>
    BY <1>1 DEF LastIs
  <2>2. /\ WithLast(ms, b) \in Seq(Chats) /\ Len(WithLast(ms, b)) = Len(ms)
        /\ Len(ms) \in Nat \ {0} /\ WithLast(ms, b)[Len(ms)] = b
        /\ \A i \in 1..(Len(ms) - 1) : WithLast(ms, b)[i] = ms[i]
    BY <2>1, WithLastFacts DEF WithLast
  <2>3. \A i \in 1..Len(ms) : i = Len(ms) \/ i \in 1..(Len(ms) - 1)
    BY <2>2
  <2> QED BY <2>2, <2>3 DEF Kin
<1>2. Kin(ms, Append(ms, b))
  <2>1. /\ Len(Append(ms, b)) = Len(ms) + 1 /\ Append(ms, b)[Len(ms) + 1] = b
        /\ \A i \in 1..Len(ms) : Append(ms, b)[i] = ms[i]
    BY AppendProperties
  <2>2. \A i \in 1..(Len(ms) + 1) : i = Len(ms) + 1 \/ i \in 1..Len(ms)
    OBVIOUS
  <2> QED BY <2>1, <2>2 DEF Kin
<1>3. Kin(ms, ms)
  BY DEF Kin
<1> QED BY <1>1, <1>2, <1>3

\* The end of a turn leaves what is said.
LEMMA SettledRight ==
  ASSUME NEW ms \in Seq(Chats), NEW new \in Seq(Chats), Settles(ms, new)
  PROVE  Digest(new) = Digest(ms) /\ Kin(ms, new)
<1>1. CASE AllAlike(ms, new)
  <2>1. Digest(new) = Digest(ms)
    BY <1>1, FacesFold DEF AllAlike, Alike
  <2>2. Kin(ms, new)
    BY <1>1 DEF AllAlike, Alike, SameFace, Kin
  <2> QED BY <2>1, <2>2
<1>2. CASE LastIs(ms, "user") /\ \E b \in Chats : NoAnswer(b) /\ new = Append(ms, b)
  <2>1. PICK b \in Chats : NoAnswer(b) /\ new = Append(ms, b)
    BY <1>2
  <2>2. Digest(ms) \in Digests /\ Digest(Append(ms, b)) = AddChat(Digest(ms), b)
    BY DigestSteps
  <2>3. AddChat(Digest(ms), b) = Digest(ms)
    BY <2>1, <2>2, EmptyAdded DEF NoAnswer
  <2>4. b.role = "assistant"
    BY <2>1 DEF NoAnswer, Empty
  <2> QED BY <2>1, <2>2, <2>3, <2>4, KinLast
<1> QED BY <1>1, <1>2 DEF Settles

LEMMA AlikeOn ==
  ASSUME NEW a, NEW b, NEW c, Alike(a, b), Alike(b, c)
  PROVE  Alike(a, c) /\ (NoAnswer(b) => NoAnswer(c))
BY DEF Alike, SameFace, NoAnswer, Empty

Spoken == normalizeMessages(records)

\* What the session reads as, with the message under way.
Reading ==
  IF phase = "message" THEN Longer(Digest(Spoken), getWork(M, parts)) ELSE Digest(Spoken)

\* The last message of the session is the agent's, whose turn goes on.
Answered == Busy /\ LastIs(Spoken, "assistant")

\* The messages go on where the agent is: the last one is its message, has the rows w of
\* the message under way as its newest, and a row for each call that is left.
Goes(ms, ph, w, left, agent) ==
  /\ ph = "message" => LastIs(ms, "assistant") /\ NewRows(Last(ms)) = w
  /\ ph = "tools" => LastIs(ms, "assistant")
                     /\ \A i \in 1..Len(left) : Continued(ToolRow(left[i]), Last(ms).work)
  /\ agent => LastIs(ms, "assistant")

\* Every question and steer has its own words, and the session has those that were read.
Questions ==
  /\ counts.prompts <= MaxPrompts
  /\ \A i \in 1..Len(steers) : MaxPrompts < steers[i] /\ steers[i] <= MaxPrompts + counts.troubles
  /\ \A i, k \in 1..Len(steers) : steers[i] = steers[k] => i = k
  /\ \A i \in 1..Len(Spoken) : Old(Spoken[i], Uttered, SentIds)

\* The tools of a message to come have no result, nor those of the calls that are left,
\* which the last message made.
Calling ==
  /\ \A t \in Slots : t[1] > M \/ (phase = "message" /\ t[1] = M)
                        => Digest(Spoken).tools[t] = "unknown"
  /\ phase = "tools" =>
       /\ \A i \in 1..Len(toolsLeft) :
            /\ toolsLeft[i][1] = M /\ toolsLeft[i] \in DOMAIN Last(Spoken).tools
            /\ Digest(Spoken).tools[toolsLeft[i]] = "unknown"
       /\ \A i, k \in 1..Len(toolsLeft) : toolsLeft[i] = toolsLeft[k] => i = k

\* The updates that wait are earlier states of the message under way; the last one is all
\* of it.
Earlier(r, w) == Grows(getWork(r.m, r.parts), w)

HeldBack ==
  phase = "message" /\ held # <<>> =>
    /\ held[Len(held)].record = Partial
    /\ \A i \in 1..Len(held) : Earlier(held[i].record, getWork(M, parts))

\* What is shown live, with what waits, reads as the session does; so does what was shown
\* before a question that is on its way.
Shows ==
  app.live /\ app.misled # "asked" =>
    /\ Goes(flush, phase, getWork(M, parts), toolsLeft, Answered)
    /\ \/ /\ Right(flush, Reading, Uttered, SentIds)
          /\ \A i \in 1..Len(messages) : messages[i].id \in SentIds
       \/ /\ app.sending = "asked" /\ ~Busy /\ held = <<>>
          /\ Posed(messages, Reading, Uttered, SentIds, counts.prompts)

Live == Questions /\ Calling /\ HeldBack /\ Shows

LInv == IInv /\ (view = "app" => Live)

---------------------------------------------------------------------------
(* What the session says.                                                  *)

\* A message of the agent as it is shown first.
LEMMA AgentChat ==
  ASSUME NEW m \in Nat, NEW ps \in Seq(PartRecords), NEW stop \in Stops,
         NEW c, c = messageFromRecord(AgentRecord(m, ps, stop))
  PROVE  /\ c \in StillChats /\ c \in Chats /\ c.role = "assistant" /\ c.id = 0
         /\ c.work = getWork(m, ps) /\ c.workOffset = -1 /\ NewRows(c) = c.work
         /\ \A t \in DOMAIN c.tools : t[1] = m /\ Known(c.tools[t]) = "unknown"
<1> DEFINE r == AgentRecord(m, ps, stop)
           T == {<<m, j>> : j \in {i \in DOMAIN ps : ps[i].kind = "toolCall"}}
<1>1. r \in AgentRecords
  BY AgentRecordType
<1>2. r.role = "assistant" /\ r.m = m /\ r.parts = ps
  BY DEF AgentRecord
<1>3. c \in StillChats
  BY <1>1, FromRecordType
<1>4. /\ c.role = "assistant" /\ c.id = 0 /\ c.work = getWork(m, ps) /\ c.workOffset = -1
      /\ c.tools = getTools(m, ps)
  BY <1>2 DEF messageFromRecord, Chat
<1>5. getTools(m, ps) = [t \in T |-> CalledTool]
  BY DEF getTools
<1>6. c.tools = [t \in T |-> CalledTool]
  BY <1>4, <1>5
<1>7. \A t \in T : t[1] = m
  OBVIOUS
<1> HIDE DEF T
<1>8. DOMAIN c.tools = T /\ \A t \in DOMAIN c.tools : c.tools[t] = CalledTool
  BY <1>6
<1>9. Known(CalledTool) = "unknown"
  BY DEF Known, CalledTool
<1>10. c \in Chats
  BY <1>3 DEF StillChats
<1>11. NewRows(c) = c.work
  <2>1. c.work \in Seq(Rows)
    BY <1>10, ChatParts
  <2>2. Off(c) = 0
    BY <1>4 DEF Off
  <2>3. SubSeq(c.work, 1, Len(c.work)) = c.work
    BY <2>1
  <2> QED BY <2>2, <2>3 DEF NewRows
<1>12. \A t \in DOMAIN c.tools : t[1] = m /\ Known(c.tools[t]) = "unknown"
  BY <1>7, <1>8, <1>9
<1> QED BY <1>3, <1>4, <1>10, <1>11, <1>12

LEMMA AgentCalls ==
  ASSUME NEW m \in Nat, NEW ps \in Seq(PartRecords), NEW stop \in Stops
  PROVE  DOMAIN messageFromRecord(AgentRecord(m, ps, stop)).tools =
           {<<m, j>> : j \in {i \in DOMAIN ps : ps[i].kind = "toolCall"}}
<1>1. messageFromRecord(AgentRecord(m, ps, stop)).tools = getTools(m, ps)
  BY DEF AgentRecord, messageFromRecord, Chat
<1> QED BY <1>1 DEF getTools

LEMMA SpokenType ==
  ASSUME Typed
  PROVE  /\ Spoken \in Seq(StillChats) /\ Spoken \in Seq(Chats)
         /\ Digest(Spoken) \in Digests /\ Reading \in Digests
         /\ M \in Nat /\ getWork(M, parts) \in Seq(Rows) /\ OwnSlots(getWork(M, parts))
<1>1. Spoken \in Seq(StillChats)
  BY Normalized DEF Typed, Spoken
<1>2. Spoken \in Seq(Chats)
  BY <1>1, StillKnown
<1>3. Digest(Spoken) \in Digests
  BY <1>2, DigestSteps
<1>4. M \in Nat
  BY DEF Typed, Counters, M
<1>5. getWork(M, parts) \in Seq(Rows) /\ OwnSlots(getWork(M, parts))
  BY <1>4, WorkRows DEF Typed
<1>6. Reading \in Digests
  BY <1>3, <1>5, LongerParts DEF Reading
<1> QED BY <1>1, <1>2, <1>3, <1>4, <1>5, <1>6

\* A message whose tools have no result.
LEMMA AddedRows ==
  ASSUME NEW d \in Digests, NEW c \in Chats, c.role = "assistant",
         \A t \in DOMAIN c.tools : Known(c.tools[t]) = "unknown" /\ d.tools[t] = "unknown"
  PROVE  AddChat(d, c) = Longer(d, c.work)
<1> DEFINE e == AddChat(d, c)
           f == Longer(d, c.work)
<1>1. e \in Digests /\ e.closed = d.closed /\ e.rows = d.rows \o c.work /\ e.tools = Overlay(d.tools, c.tools)
  BY AddChatFields
<1>2. c.work \in Seq(Rows) /\ c.tools \in ToolSets
  BY ChatParts
<1>3. f \in Digests /\ f.closed = d.closed /\ f.rows = d.rows \o c.work /\ f.tools = d.tools
  BY <1>2, LongerParts
<1>4. d.tools \in Knowledge
  BY DigestParts
<1>5. Overlay(d.tools, c.tools) = d.tools
  <2>1. d.tools = [t \in Slots |-> d.tools[t]]
    BY <1>4 DEF Knowledge
  <2>2. \A t \in Slots : (IF t \in DOMAIN c.tools THEN Known(c.tools[t]) ELSE d.tools[t]) = d.tools[t]
    OBVIOUS
  <2> QED BY <2>1, <2>2 DEF Overlay
<1> HIDE DEF e, f
<1>6. e = f
  BY <1>1, <1>3, <1>5, DigestSame
<1> QED BY <1>6 DEF e, f

LEMMA PartialChat ==
  ASSUME Typed, NEW c, c = messageFromRecord(Partial)
  PROVE  /\ c \in Chats /\ c.role = "assistant" /\ c.id = 0
         /\ c.work = getWork(M, parts) /\ NewRows(c) = c.work
         /\ \A t \in DOMAIN c.tools : t[1] = M /\ Known(c.tools[t]) = "unknown"
<1>1. M \in Nat /\ parts \in Seq(PartRecords)
  BY DEF Typed, Counters, M
<1>2. PICK stop \in Stops : Partial = AgentRecord(M, parts, stop)
  BY DEF Stops, Partial
<1>3. c = messageFromRecord(AgentRecord(M, parts, stop))
  BY <1>2
<1> QED BY <1>1, <1>3, AgentChat

LEMMA SnapshotIs ==
  ASSUME Typed
  PROVE  /\ phase # "message" => normalizeMessages(Snapshot) = Spoken
         /\ phase = "message" =>
              normalizeMessages(Snapshot) = Append(Spoken, messageFromRecord(Partial))
<1>1. records \in Seq(Records) /\ M \in Nat /\ parts \in Seq(PartRecords)
  BY DEF Typed, Counters, M
<1>2. CASE phase = "message"
  <2> DEFINE r == Partial
  <2>1. r \in AgentRecords /\ r.role = "assistant"
    BY <1>1, AgentRecordType DEF Partial, Stops, AgentRecord
  <2>2. r \in Records
    BY <2>1 DEF Records
  <2> HIDE DEF r
  <2>3. Snapshot = Append(records, r)
    BY <1>1, <1>2, <2>2 DEF Snapshot, r
  <2>4. normalizeMessages(Append(records, r)) = AddRecord(Spoken, r)
    BY <1>1, <2>2, Normalized DEF Spoken
  <2>5. AddRecord(Spoken, r) = Append(Spoken, messageFromRecord(r))
    BY <2>1 DEF AddRecord
  <2> QED BY <1>2, <2>3, <2>4, <2>5 DEF r
<1>3. CASE phase # "message"
  <2>1. Snapshot = records
    BY <1>1, <1>3 DEF Snapshot
  <2> QED BY <1>3, <2>1 DEF Spoken
<1> QED BY <1>2, <1>3

\* A transcript that is opened again reads as the session.
LEMMA Reloaded ==
  ASSUME LInv, view = "app", 0 \in SentIds
  PROVE  LET ms == normalizeMessages(Snapshot)
         IN  /\ ms \in Seq(Chats) /\ Digest(ms) = Reading
             /\ Right(ms, Reading, Uttered, SentIds)
             /\ Goes(ms, phase, getWork(M, parts), toolsLeft, Answered)
<1> DEFINE ms == normalizeMessages(Snapshot)
           w == getWork(M, parts)
<1>1. Typed /\ Going /\ Questions /\ Calling
  BY DEF LInv, IInv, Live
<1>2. /\ Spoken \in Seq(Chats) /\ Digest(Spoken) \in Digests /\ M \in Nat
      /\ w \in Seq(Rows)
  BY <1>1, SpokenType
<1>3. \A i \in 1..Len(Spoken) : Old(Spoken[i], Uttered, SentIds)
  BY <1>1 DEF Questions
<1>4. CASE phase = "message"
  <2> DEFINE c == messageFromRecord(Partial)
  <2>1. "" \in Stops /\ parts \in Seq(PartRecords)
    BY <1>1 DEF Stops, Typed
  <2>2. /\ c \in Chats /\ c.role = "assistant" /\ c.id = 0 /\ c.work = w /\ NewRows(c) = c.work
        /\ \A t \in DOMAIN c.tools : t[1] = M /\ Known(c.tools[t]) = "unknown"
    <3>1. c = messageFromRecord(Partial)
      OBVIOUS
    <3> HIDE DEF c
    <3> QED BY <1>1, <3>1, PartialChat
  <2> HIDE DEF c
  <2>3. ms = Append(Spoken, c)
    BY <1>1, <1>4, SnapshotIs DEF c
  <2>4. DOMAIN c.tools \subseteq Slots
    BY <2>2, ChatParts, ToolSetFacts
  <2>5. \A t \in DOMAIN c.tools : Digest(Spoken).tools[t] = "unknown"
    BY <1>1, <1>4, <2>2, <2>4 DEF Calling
  <2>6. AddChat(Digest(Spoken), c) = Longer(Digest(Spoken), c.work)
    BY <1>2, <2>2, <2>5, AddedRows
  <2>7. Digest(Append(Spoken, c)) = AddChat(Digest(Spoken), c)
    BY <1>2, <2>2, DigestSteps
  <2>8. Digest(ms) = Reading
    BY <1>4, <2>2, <2>3, <2>6, <2>7 DEF Reading
  <2>9. /\ Append(Spoken, c) \in Seq(Chats) /\ Len(Append(Spoken, c)) = Len(Spoken) + 1
        /\ \A i \in 1..Len(Append(Spoken, c)) :
             IF i = Len(Spoken) + 1 THEN Append(Spoken, c)[i] = c
             ELSE i \in 1..Len(Spoken) /\ Append(Spoken, c)[i] = Spoken[i]
    BY <1>2, <2>2
  <2>10. Old(c, Uttered, SentIds)
    BY <2>2 DEF Old
  <2>11. \A i \in 1..Len(ms) : Old(ms[i], Uttered, SentIds)
    BY <1>3, <2>3, <2>9, <2>10
  <2>12. LastIs(ms, "assistant") /\ Last(ms) = c
    BY <1>2, <2>2, <2>3, <2>9 DEF LastIs, Last
  <2> HIDE DEF ms
  <2> QED BY <1>4, <2>2, <2>3, <2>8, <2>9, <2>11, <2>12 DEF Right, Goes, ms
<1>5. CASE phase # "message"
  <2>1. ms = Spoken
    BY <1>1, <1>5, SnapshotIs
  <2>2. Digest(ms) = Reading
    BY <1>5, <2>1 DEF Reading
  <2>3. phase = "tools" => LastIs(Spoken, "assistant")
    BY <1>1 DEF Going, Spoken
  <2>4. ASSUME phase = "tools", NEW i \in 1..Len(toolsLeft)
        PROVE  Continued(ToolRow(toolsLeft[i]), Last(Spoken).work)
    <3>1. toolsLeft[i] \in DOMAIN Last(Spoken).tools
      BY <1>1, <2>4 DEF Calling
    <3>2. Last(Spoken) \in Chats
      BY <1>2, <2>3, <2>4, LastOf
    <3> QED BY <3>1, <3>2 DEF Chats, Sound
  <2> HIDE DEF ms
  <2>5. Answered => LastIs(Spoken, "assistant")
    BY DEF Answered
  <2>6. Goes(Spoken, phase, w, toolsLeft, Answered)
    BY <1>5, <2>3, <2>4, <2>5 DEF Goes
  <2>7. Right(Spoken, Reading, Uttered, SentIds)
    BY <1>3, <2>1, <2>2 DEF Right
  <2> QED BY <1>2, <2>1, <2>2, <2>6, <2>7 DEF ms
<1> QED BY <1>4, <1>5

\* What was said and read stays so.
LEMMA IdsGrow ==
  ASSUME NEW p \in Nat, NEW q \in Nat, NEW s, NEW t,
         (q = p /\ (t = "no" \/ s # "no")) \/ q = p + 1
  PROVE  Ids(p, s) \subseteq Ids(q, t)
BY DEF Ids

LEMMA HeardGrows ==
  ASSUME NEW p \in Nat, NEW q \in Nat, NEW s, NEW t, Ids(p, s) \subseteq Ids(q, t),
         NEW m \in Nat, NEW n \in Nat, m <= n, NEW a \in Seq(Nat), NEW b \in Seq(Nat),
         \A k \in 1..Len(b) : b[k] > MaxPrompts + m \/ \E i \in 1..Len(a) : b[k] = a[i]
  PROVE  Heard(p, s, m, a) \subseteq Heard(q, t, n, b)
<1>1. MaxPrompts \in Nat
  BY BoundsAssumption
<1>2. SUFFICES ASSUME NEW k \in Nat, MaxPrompts < k, k <= MaxPrompts + m,
                      \A j \in 1..Len(a) : a[j] # k
               PROVE  k <= MaxPrompts + n /\ \A j \in 1..Len(b) : b[j] # k
  BY DEF Heard
<1>3. k <= MaxPrompts + n
  BY <1>1, <1>2
<1>4. ASSUME NEW j \in 1..Len(b) PROVE b[j] # k
  <2>1. b[j] > MaxPrompts + m => b[j] # k
    BY <1>1, <1>2
  <2> QED BY <1>2, <2>1
<1> QED BY <1>3, <1>4

LEMMA NoneSent ==
  ASSUME AppKnows, Typed, view = "app"
  PROVE  0 \in SentIds
BY DEF AppKnows, SentIds, Ids, Typed, Counters

\* An event of the agent, once the view has it or holds it back.
LEMMA Flushed ==
  ASSUME IInv, view = "app", app.live, NEW e \in Events, Receive(<<e>>)
  PROVE  /\ flush \in Seq(Chats) /\ flush' = applyAgentEvent(flush, e)
         /\ messages' = messages \/ messages' = flush'
         /\ held' = <<>> \/ (IsUpdate(e) /\ held' = Append(held, e))
<1>1. Typed /\ Waiting
  BY DEF IInv
<1>2. PICK s \in Shown :
        /\ Took(s)
        /\ \/ IsUpdate(e) /\ s.messages = messages /\ s.held = Append(held, e)
           \/ s.messages = applyAgentEvent(flush, e) /\ s.held = <<>>
        /\ ~IsUpdate(e) => s.messages = applyAgentEvent(flush, e) /\ s.held = <<>>
  BY <1>1, ReceivedOne
<1>3. messages' = s.messages /\ held' = s.held
  BY <1>2 DEF Took
<1>4. /\ messages \in Seq(Chats) /\ held \in Seq(Events) /\ flush \in Seq(Chats)
      /\ s.messages \in Seq(Chats)
  BY <1>1, FlushType DEF Typed, Shown
<1>5. ApplyAll(messages, Append(held, e)) = applyAgentEvent(ApplyAll(messages, held), e)
  BY <1>4, Applied
<1>6. ApplyAll(s.messages, <<>>) = s.messages
  <2>1. <<>> \in Seq(Events)
    OBVIOUS
  <2> QED BY <1>4, <2>1, Applied
<1>7. CASE IsUpdate(e) /\ s.messages = messages /\ s.held = Append(held, e)
  <2>1. flush' = ApplyAll(messages, Append(held, e))
    BY <1>3, <1>7 DEF flush
  <2> QED BY <1>3, <1>4, <1>5, <1>7, <2>1 DEF flush
<1>8. CASE s.messages = applyAgentEvent(flush, e) /\ s.held = <<>>
  <2>1. flush' = ApplyAll(s.messages, <<>>)
    BY <1>3, <1>8 DEF flush
  <2> QED BY <1>3, <1>4, <1>6, <1>8, <2>1
<1> QED BY <1>2, <1>7, <1>8

LEMMA FlushedTwo ==
  ASSUME IInv, view = "app", app.live, NEW e \in Events, NEW f \in Events,
         ~IsUpdate(e), ~IsUpdate(f), Receive(<<e, f>>)
  PROVE  /\ flush \in Seq(Chats) /\ flush' = applyAgentEvent(applyAgentEvent(flush, e), f)
         /\ messages' = flush' /\ held' = <<>>
<1>1. Typed /\ Waiting
  BY DEF IInv
<1>2. PICK s \in Shown :
        /\ Took(s)
        /\ s.messages = applyAgentEvent(applyAgentEvent(flush, e), f) /\ s.held = <<>>
  BY <1>1, ReceivedTwo
<1>3. messages' = s.messages /\ held' = <<>> /\ s.messages \in Seq(Chats)
  BY <1>2 DEF Took, Shown
<1>4. flush' = ApplyAll(s.messages, <<>>)
  BY <1>3 DEF flush
<1>5. ApplyAll(s.messages, <<>>) = s.messages
  <2>1. <<>> \in Seq(Events)
    OBVIOUS
  <2> QED BY <1>3, <2>1, Applied
<1> QED BY <1>1, <1>2, <1>3, <1>4, <1>5, FlushType

---------------------------------------------------------------------------
(* What the events of the agent do to what is read.                        *)

LEMMA OldGrows ==
  ASSUME NEW c, NEW U, NEW V, NEW I, NEW J, Old(c, U, I), U \subseteq V, I \subseteq J
  PROVE  Old(c, V, J)
BY DEF Old

LEMMA RightAppend ==
  ASSUME NEW ms \in Seq(Chats), NEW d, NEW U, NEW I, Right(ms, d, U, I), NEW V, NEW J,
         U \subseteq V, I \subseteq J, NEW c \in Chats, Old(c, V, J)
  PROVE  Append(ms, c) \in Seq(Chats) /\ Right(Append(ms, c), AddChat(d, c), V, J)
<1>1. Digest(ms) = d /\ Digest(Append(ms, c)) = AddChat(d, c)
  BY DigestSteps DEF Right
<1>2. /\ Append(ms, c) \in Seq(Chats) /\ Len(Append(ms, c)) = Len(ms) + 1
      /\ \A i \in 1..Len(Append(ms, c)) :
           IF i = Len(ms) + 1 THEN Append(ms, c)[i] = c
           ELSE i \in 1..Len(ms) /\ Append(ms, c)[i] = ms[i]
  OBVIOUS
<1>3. \A i \in 1..Len(ms) : Old(ms[i], V, J)
  BY OldGrows DEF Right
<1> QED BY <1>1, <1>2, <1>3 DEF Right

LEMMA RightGrows ==
  ASSUME NEW ms, NEW d, NEW U, NEW I, Right(ms, d, U, I), NEW V, NEW J, U \subseteq V, I \subseteq J
  PROVE  Right(ms, d, V, J)
BY OldGrows DEF Right

\* A question is heard as it begins or as it ends.
LEMMA AskedHeard ==
  ASSUME NEW ms, NEW k, NEW type \in {"message_start", "message_end"}
  PROVE  applyAgentEvent(ms, MessageEvent(type, Asked(k)))
           = ApplyUserMessage(ms, MessageEvent(type, Asked(k)))
BY DEF applyAgentEvent, MessageEvent, Asked, UserRecord, MessageTypes, ToolTypes

\* What hearing it does: the message that was painted for it stays, and its empty answer.
LEMMA UserHeard ==
  ASSUME NEW ms \in Seq(Chats), NEW k \in Nat, NEW type \in {"message_start", "message_end"}
  PROVE  LET new == ApplyUserMessage(ms, MessageEvent(type, Asked(k)))
             asked == /\ LastIs(ms, "assistant") /\ Last(ms).text = <<>>
                      /\ LastIs(Front(ms), "user") /\ Last(Front(ms)).text = Words(k)
             there == LastIs(ms, "user") /\ Last(ms).text = Words(k)
         IN  /\ there \/ asked => new = ms
             /\ ~there /\ ~asked /\ type = "message_start" => new = Append(ms, Question(k))
<1>1. MessageEvent(type, Asked(k)).type = type /\ MessageEvent(type, Asked(k)).record = Asked(k)
  BY DEF MessageEvent
<1>2. Asked(k).text = Words(k)
  BY DEF Asked, UserRecord, Words
<1>3. messageFromRecord(Asked(k)) = Question(k)
  BY AskedIs
<1> QED BY <1>1, <1>2, <1>3, Zenon DEF ApplyUserMessage

LEMMA QuestionHeard ==
  ASSUME NEW ms \in Seq(Chats), NEW d \in Digests, NEW U, NEW I, Right(ms, d, U, I),
         NEW k \in Nat, k \notin U, NEW V, NEW J, U \subseteq V, I \subseteq J, k \in V, 0 \in J,
         NEW e, e = MessageEvent("message_start", Asked(k)),
         NEW f, f = MessageEvent("message_end", Asked(k)),
         NEW new, new = applyAgentEvent(applyAgentEvent(ms, e), f)
  PROVE  new \in Seq(Chats) /\ Right(new, AddChat(d, Question(k)), V, J)
<1> DEFINE q == Question(k)
           next == Append(ms, q)
<1>1. /\ q \in Chats /\ q.role = "user" /\ q.text = Words(k) /\ q.id = 0
  BY AskedIs
<1>2. \A i \in 1..Len(ms) : ms[i].role = "user" => ms[i].text # Words(k)
  BY WordsApart DEF Right, Old
<1>3. ~(LastIs(ms, "user") /\ Last(ms).text = Words(k))
  BY <1>2 DEF LastIs, Last
<1>4. ~(/\ LastIs(ms, "assistant") /\ Last(ms).text = <<>>
        /\ LastIs(Front(ms), "user") /\ Last(Front(ms)).text = Words(k))
  <2>1. SUFFICES ASSUME ms # <<>>, LastIs(Front(ms), "user") PROVE Last(Front(ms)).text # Words(k)
    BY DEF LastIs
  <2>2. /\ Front(ms) \in Seq(Chats) /\ Len(Front(ms)) = Len(ms) - 1 /\ Len(ms) \in Nat
        /\ \A i \in 1..(Len(ms) - 1) : Front(ms)[i] = ms[i]
    BY <2>1, FrontFacts
  <2>3. /\ Last(Front(ms)) = Front(ms)[Len(Front(ms))] /\ Len(Front(ms)) \in Nat \ {0}
        /\ Front(ms)[Len(Front(ms))].role = "user"
    BY <2>1, <2>2, LastOf
  <2>4. Len(ms) - 1 \in 1..(Len(ms) - 1) /\ Len(ms) - 1 \in 1..Len(ms)
    BY <2>2, <2>3
  <2> QED BY <1>2, <2>2, <2>3, <2>4
<1>5. ApplyUserMessage(ms, e) = next
  BY <1>3, <1>4, UserHeard, Zenon
<1>6. applyAgentEvent(ms, e) = next
  BY <1>5, AskedHeard
<1> HIDE DEF q
<1>7. next \in Seq(Chats) /\ Len(next) = Len(ms) + 1 /\ next[Len(ms) + 1] = q /\ next # <<>>
  BY <1>1
<1>8. LastIs(next, "user") /\ Last(next).text = Words(k)
  BY <1>1, <1>7 DEF LastIs, Last
<1> HIDE DEF next
<1>9. ApplyUserMessage(next, f) = next
  BY <1>7, <1>8, UserHeard, Zenon
<1>10. applyAgentEvent(next, f) = next
  BY <1>9, AskedHeard
<1>11. Old(q, V, J)
  BY <1>1 DEF Old
<1>12. Right(next, AddChat(d, q), V, J)
  BY <1>1, <1>11, RightAppend DEF next
<1> QED BY <1>6, <1>7, <1>10, <1>12 DEF q

LEMMA FrontOfAppend ==
  ASSUME NEW S, NEW s \in Seq(S), NEW x \in S
  PROVE  /\ Append(s, x) \in Seq(S) /\ Len(Append(s, x)) = Len(s) + 1 /\ Append(s, x)[Len(s) + 1] = x
         /\ Len(s) \in Nat /\ Append(s, x) # <<>> /\ Last(Append(s, x)) = x
         /\ Front(Append(s, x)) = s
<1> DEFINE t == Append(s, x)
<1>1. /\ t \in Seq(S) /\ Len(t) = Len(s) + 1 /\ t[Len(s) + 1] = x /\ Len(s) \in Nat /\ t # <<>>
      /\ \A i \in 1..Len(s) : t[i] = s[i]
  OBVIOUS
<1> HIDE DEF t
<1>2. /\ Front(t) \in Seq(S) /\ Len(Front(t)) = Len(t) - 1
      /\ \A i \in 1..(Len(t) - 1) : Front(t)[i] = t[i]
  BY <1>1, FrontFacts
<1>3. Len(Front(t)) = Len(s) /\ \A i \in 1..Len(s) : Front(t)[i] = s[i]
  BY <1>1, <1>2
<1>4. Front(t) = s
  BY <1>2, <1>3, SeqEqual
<1>5. Last(t) = x
  BY <1>1 DEF Last
<1> QED BY <1>1, <1>4, <1>5 DEF t

\* The painted question is read like the question.
LEMMA PaintedIs ==
  ASSUME NEW k \in Nat, NEW c \in Chats, Alike(optimisticUserMessage(k, <<0, 0, k>>), c)
  PROVE  /\ c.role = "user" /\ c.text = Words(k) /\ c.id = k /\ SameFace(Question(k), c)
<1> DEFINE o == optimisticUserMessage(k, <<0, 0, k>>)
           q == Question(k)
<1>1. o.role = "user" /\ o.text = Words(k) /\ o.id = k /\ o.work = <<>> /\ DOMAIN o.tools = {}
  BY AskedIs
<1>2. q.role = "user" /\ q.text = Words(k) /\ q.work = <<>> /\ DOMAIN q.tools = {}
  BY AskedIs
<1> HIDE DEF o, q
<1>3. Alike(o, c)
  BY DEF o
<1>4. /\ o.role = c.role /\ o.work = c.work /\ DOMAIN o.tools = DOMAIN c.tools
      /\ o.id = c.id /\ o.text = c.text
  BY <1>3 DEF Alike, SameFace
<1>5. SameFace(q, c)
  BY <1>1, <1>2, <1>4 DEF SameFace
<1> QED BY <1>1, <1>4, <1>5 DEF q

\* The view stays as it is when the question that it painted is read.
LEMMA PosedStays ==
  ASSUME NEW ms \in Seq(Chats), NEW d, NEW U, NEW I, NEW k \in Nat, Posed(ms, d, U, I, k),
         NEW e, e = MessageEvent("message_start", Asked(k)),
         NEW f, f = MessageEvent("message_end", Asked(k)),
         NEW new, new = applyAgentEvent(applyAgentEvent(ms, e), f)
  PROVE  new = ms
<1>1. PICK before \in Seq(Chats), c \in Chats :
        /\ Right(before, d, U, I) /\ Alike(optimisticUserMessage(k, <<0, 0, k>>), c)
        /\ \/ ms = Append(before, c)
           \/ \E b \in Chats : NoAnswer(b) /\ ms = Append(Append(before, c), b)
  BY DEF Posed
<1>2. c.role = "user" /\ c.text = Words(k)
  BY <1>1, PaintedIs
<1> DEFINE asked == Append(before, c)
<1>3. asked \in Seq(Chats) /\ asked # <<>> /\ Last(asked) = c
  BY FrontOfAppend
<1>4. LastIs(asked, "user") /\ Last(asked) = c
  BY <1>2, <1>3 DEF LastIs
<1> HIDE DEF asked
<1>5. CASE ms = asked
  <2>1. LastIs(ms, "user") /\ Last(ms).text = Words(k)
    BY <1>2, <1>4, <1>5
  <2>2. ApplyUserMessage(ms, e) = ms /\ ApplyUserMessage(ms, f) = ms
    BY <2>1, UserHeard, Zenon
  <2>3. applyAgentEvent(ms, e) = ms /\ applyAgentEvent(ms, f) = ms
    BY <2>2, AskedHeard
  <2> QED BY <2>3
<1>6. ASSUME NEW b \in Chats, NoAnswer(b), ms = Append(asked, b)
      PROVE  new = ms
  <2>1. ms # <<>> /\ Front(ms) = asked /\ Last(ms) = b
    BY <1>3, <1>6, FrontOfAppend
  <2>2. b.role = "assistant" /\ b.text = <<>>
    BY <1>6 DEF NoAnswer, Empty
  <2>3. LastIs(ms, "assistant") /\ Last(ms) = b
    BY <2>1, <2>2 DEF LastIs
  <2>4. /\ LastIs(ms, "assistant") /\ Last(ms).text = <<>>
        /\ LastIs(Front(ms), "user") /\ Last(Front(ms)).text = Words(k)
    BY <1>2, <1>4, <2>1, <2>2, <2>3
  <2>5. ApplyUserMessage(ms, e) = ms /\ ApplyUserMessage(ms, f) = ms
    BY <2>4, UserHeard, Zenon
  <2>6. applyAgentEvent(ms, e) = ms /\ applyAgentEvent(ms, f) = ms
    BY <2>5, AskedHeard
  <2> QED BY <2>6
<1> QED BY <1>1, <1>5, <1>6 DEF asked

\* It reads as the session does once the question is read.
LEMMA PosedReads ==
  ASSUME NEW ms \in Seq(Chats), NEW d \in Digests, NEW U, NEW I, NEW k \in Nat, Posed(ms, d, U, I, k),
         NEW V, NEW J, U \subseteq V, I \subseteq J, k \in V, k \in J, 0 \in J
  PROVE  Right(ms, AddChat(d, Question(k)), V, J)
<1> DEFINE q == Question(k)
<1>1. PICK before \in Seq(Chats), c \in Chats :
        /\ Right(before, d, U, I) /\ Alike(optimisticUserMessage(k, <<0, 0, k>>), c)
        /\ \/ ms = Append(before, c)
           \/ \E b \in Chats : NoAnswer(b) /\ ms = Append(Append(before, c), b)
  BY DEF Posed
<1>2. c.role = "user" /\ c.text = Words(k) /\ c.id = k /\ SameFace(q, c) /\ q \in Chats
  BY <1>1, PaintedIs, AskedIs
<1> HIDE DEF q
<1>3. Old(c, V, J)
  BY <1>2 DEF Old
<1> DEFINE asked == Append(before, c)
<1>4. asked \in Seq(Chats) /\ Right(asked, AddChat(d, c), V, J)
  BY <1>1, <1>3, RightAppend
<1>5. AddChat(d, q) = AddChat(d, c)
  BY <1>2, FaceAdded
<1> HIDE DEF asked
<1>6. CASE ms = asked
  BY <1>4, <1>5, <1>6 DEF q
<1>7. ASSUME NEW b \in Chats, NoAnswer(b), ms = Append(asked, b)
      PROVE  Right(ms, AddChat(d, Question(k)), V, J)
  <2>1. b.role = "assistant" /\ b.id = 0 /\ Empty(b)
    BY <1>7 DEF NoAnswer, Empty
  <2>2. AddChat(d, c) \in Digests
    BY AddChatFields
  <2>3. AddChat(AddChat(d, c), b) = AddChat(d, c)
    BY <2>1, <2>2, EmptyAdded
  <2>4. Old(b, V, J)
    BY <2>1 DEF Old
  <2>5. Right(ms, AddChat(AddChat(d, c), b), V, J)
    BY <1>4, <1>7, <2>4, RightAppend
  <2> QED BY <1>5, <2>3, <2>5 DEF q
<1> QED BY <1>1, <1>6, <1>7 DEF asked

Streams(c, streaming) == [c EXCEPT !.streaming = streaming]

LEMMA AgentHeard ==
  ASSUME NEW ms \in Seq(Chats), NEW type \in MessageTypes, NEW r \in AgentRecords,
         NEW new, new = applyAgentEvent(ms, MessageEvent(type, r))
  PROVE  /\ new \in Seq(Chats) /\ LastIs(new, "assistant")
         /\ LastIs(ms, "assistant") =>
              \E streaming \in BOOLEAN :
                new = WithLast(ms, mergeAssistant(Last(ms), messageFromRecord(r), streaming,
                                                  type = "message_start"))
         /\ ~LastIs(ms, "assistant") =>
              \E streaming \in BOOLEAN :
                new = Append(ms, Streams(messageFromRecord(r), streaming))
<1> DEFINE e == MessageEvent(type, r)
<1>1. r.role = "assistant" /\ e.type = type /\ e.record = r
  BY DEF AgentRecords, MessageEvent
<1>2. e \in MessageEvents /\ e \in Events
  BY DEF MessageEvents, MessageEvent, Events
<1>3. e.type \notin ToolTypes /\ e.type # "agent_settled" /\ e.type # "agent_end"
  BY <1>1 DEF ToolTypes, MessageTypes
<1> HIDE DEF e
<1>4. new = ApplyAgentMessage(ms, e)
  BY <1>1, <1>3, Zenon DEF applyAgentEvent, e
<1>5. new \in Seq(Chats) /\ LastIs(new, "assistant")
  BY <1>1, <1>2, <1>4, AgentMessageType
<1>6. /\ LastIs(ms, "assistant") =>
           ApplyAgentMessage(ms, e) =
             WithLast(ms, mergeAssistant(Last(ms), messageFromRecord(r),
               (type # "message_end") \/ messageFromRecord(r).text = <<>>, type = "message_start"))
      /\ ~LastIs(ms, "assistant") =>
           ApplyAgentMessage(ms, e) =
             Append(ms, Streams(messageFromRecord(r), type # "message_end"))
  BY <1>1, Zenon DEF ApplyAgentMessage, Streams
<1>7. /\ ((type # "message_end") \/ messageFromRecord(r).text = <<>>) \in BOOLEAN
      /\ (type # "message_end") \in BOOLEAN
  OBVIOUS
<1> QED BY <1>4, <1>5, <1>6, <1>7, Zenon

LEMMA LastReplaced ==
  ASSUME NEW ms \in Seq(Chats), LastIs(ms, "assistant"), NEW b \in Chats, b.role = "assistant"
  PROVE  /\ WithLast(ms, b) \in Seq(Chats) /\ LastIs(WithLast(ms, b), "assistant")
         /\ Last(WithLast(ms, b)) = b /\ Kin(ms, WithLast(ms, b))
         /\ ms # <<>> /\ Last(ms) \in Chats /\ Last(ms).role = "assistant"
<1>1. ms # <<>> /\ Last(ms) \in Chats /\ Last(ms).role = "assistant"
  BY DEF LastIs, Last
<1>2. Front(ms) \in Seq(Chats)
  BY <1>1, FrontFacts
<1>3. /\ WithLast(ms, b) \in Seq(Chats) /\ WithLast(ms, b) # <<>> /\ Last(WithLast(ms, b)) = b
  BY <1>2, FrontOfAppend DEF WithLast
<1> QED BY <1>1, <1>3, KinLast DEF LastIs

\* A message of which nothing is written yet.
LEMMA BlankChat ==
  ASSUME NEW m \in Nat, NEW stop \in Stops, NEW r, r = AgentRecord(m, <<>>, stop)
  PROVE  /\ r \in AgentRecords
         /\ messageFromRecord(r) \in Chats /\ NoAnswer(messageFromRecord(r))
         /\ messageFromRecord(r).workOffset = -1
<1> DEFINE c == messageFromRecord(r)
<1>1. <<>> \in Seq(PartRecords) /\ DOMAIN <<>> = {}
  BY NoTools
<1>2. r \in AgentRecords /\ r.role = "assistant" /\ r.m = m /\ r.parts = <<>>
  BY <1>1 DEF AgentRecords, AgentRecord
<1>3. c \in StillChats
  BY <1>2, FromRecordType
<1>4. /\ c.role = "assistant" /\ c.id = 0 /\ c.work = getWork(m, <<>>) /\ c.workOffset = -1
      /\ c.tools = getTools(m, <<>>) /\ c.text = getMessageText(m, <<>>)
  BY <1>2 DEF messageFromRecord, Chat
<1> HIDE DEF c
<1>5. getWork(m, <<>>) = <<>>
  <2>1. [kind |-> "text", n |-> 1] \in PartRecords
    BY DEF PartRecords, Kinds
  <2> QED BY <1>1, <2>1, WorkAppend
<1>6. DOMAIN getTools(m, <<>>) = {}
  BY <1>1 DEF getTools
<1>7. getMessageText(m, <<>>) = <<>>
  <2>1. [j \in DOMAIN <<>> |-> Prose(m, j, <<>>[j])] = <<>>
    OBVIOUS
  <2>2. FlattenSeq(<<>>) = <<>>
    <3> DEFINE S == {0}
    <3>1. <<>> \in Seq(Seq(S)) /\ <<>> \in Seq(S)
      OBVIOUS
    <3> HIDE DEF S
    <3> QED BY <3>1, FlattenAppend
  <2> QED BY <2>1, <2>2 DEF getMessageText
<1>8. c \in Chats
  BY <1>3 DEF StillChats
<1> QED BY <1>2, <1>4, <1>5, <1>6, <1>7, <1>8 DEF c, NoAnswer, Empty

\* A message of the agent begins: nothing is read yet, and no row is its own.
LEMMA StartHeard ==
  ASSUME NEW ms \in Seq(Chats), NEW r \in AgentRecords, NEW c \in Chats, c = messageFromRecord(r),
         NoAnswer(c), c.workOffset = -1,
         NEW new, new = applyAgentEvent(ms, MessageEvent("message_start", r))
  PROVE  /\ new \in Seq(Chats) /\ Digest(new) = Digest(ms) /\ Kin(ms, new)
         /\ LastIs(new, "assistant") /\ NewRows(Last(new)) = <<>>
<1>3. c.role = "assistant" /\ c.id = 0 /\ c.workOffset = -1
  BY DEF NoAnswer, Empty
<1>4. c.work = <<>>
  BY DEF NoAnswer, Empty
<1>5. DOMAIN c.tools = {}
  BY DEF NoAnswer, Empty
<1>6. "message_start" \in MessageTypes
  BY DEF MessageTypes
<1>7. /\ new \in Seq(Chats) /\ LastIs(new, "assistant")
      /\ LastIs(ms, "assistant") =>
           \E streaming \in BOOLEAN : new = WithLast(ms, mergeAssistant(Last(ms), c, streaming, TRUE))
      /\ ~LastIs(ms, "assistant") =>
           \E streaming \in BOOLEAN : new = Append(ms, Streams(c, streaming))
  <2> DEFINE type == "message_start"
  <2>1. type \in MessageTypes /\ (type = "message_start") = TRUE /\ new = applyAgentEvent(ms, MessageEvent(type, r))
    BY <1>6
  <2> HIDE DEF type
  <2>2. new \in Seq(Chats) /\ LastIs(new, "assistant")
    BY <2>1, AgentHeard
  <2>3. ASSUME LastIs(ms, "assistant")
        PROVE  \E streaming \in BOOLEAN :
                 new = WithLast(ms, mergeAssistant(Last(ms), messageFromRecord(r), streaming,
                                                   type = "message_start"))
    BY <2>1, <2>3, AgentHeard
  <2>4. ASSUME ~LastIs(ms, "assistant")
        PROVE  \E streaming \in BOOLEAN :
                 new = Append(ms, Streams(messageFromRecord(r), streaming))
    BY <2>1, <2>4, AgentHeard
  <2> QED BY <2>1, <2>2, <2>3, <2>4, Zenon
<1>8. CASE LastIs(ms, "assistant")
  <2>1. PICK streaming \in BOOLEAN : new = WithLast(ms, mergeAssistant(Last(ms), c, streaming, TRUE))
    BY <1>7, <1>8
  <2> DEFINE d == mergeAssistant(Last(ms), c, streaming, TRUE)
             l == Last(ms)
  <2>2. l \in Chats /\ l.role = "assistant" /\ ms # <<>>
    BY <1>8 DEF LastIs, Last
  <2>3. d \in Chats
    BY <1>3, <2>2, MergeAssistantType
  <2>4. d.id = l.id /\ d.role = l.role /\ d.tools = l.tools /\ d.work = l.work /\ NewRows(d) = <<>>
    BY <1>3, <1>4, <2>2, MergedStart
  <2> HIDE DEF d, l
  <2>5. new = WithLast(ms, d) /\ Last(ms) = l
    BY <2>1 DEF d, l
  <2>6. SameFace(d, l)
    BY <2>2, <2>4 DEF SameFace
  <2>7. /\ Digest(Front(ms)) \in Digests /\ Digest(ms) = AddChat(Digest(Front(ms)), l)
        /\ Digest(WithLast(ms, d)) = AddChat(Digest(Front(ms)), d)
    BY <2>2, <2>3, <2>5, DigestLast
  <2>8. AddChat(Digest(Front(ms)), d) = AddChat(Digest(Front(ms)), l)
    BY <2>2, <2>3, <2>6, <2>7, FaceAdded
  <2>9. Kin(ms, new) /\ Last(new) = d
    BY <1>8, <2>2, <2>3, <2>4, <2>5, LastReplaced
  <2> QED BY <1>7, <2>4, <2>5, <2>7, <2>8, <2>9
<1>9. CASE ~LastIs(ms, "assistant")
  <2>1. PICK streaming \in BOOLEAN : new = Append(ms, Streams(c, streaming))
    BY <1>7, <1>9
  <2> DEFINE d == Streams(c, streaming)
  <2>2. d \in Chats /\ d.role = "assistant" /\ d.work = <<>> /\ d.workOffset = -1 /\ d.tools = c.tools
    <3>1. c \in ChatRecords /\ Sound(c)
      BY <1>3 DEF Chats
    <3>2. /\ d \in ChatRecords /\ d.id = c.id /\ d.role = c.role /\ d.tools = c.tools /\ d.work = c.work
          /\ d.workOffset = c.workOffset
      BY <3>1 DEF ChatRecords, Streams
    <3>3. Sound(d)
      BY <1>3, <3>1, <3>2 DEF Sound
    <3> QED BY <1>3, <1>4, <3>2, <3>3 DEF Chats
  <2> HIDE DEF d
  <2>3. Empty(d)
    BY <1>5, <2>2 DEF Empty
  <2>4. new = Append(ms, d)
    BY <2>1 DEF d
  <2>5. Digest(new) = AddChat(Digest(ms), d) /\ Digest(ms) \in Digests
    BY <2>2, <2>4, DigestSteps
  <2>6. AddChat(Digest(ms), d) = Digest(ms)
    BY <2>2, <2>3, <2>5, EmptyAdded
  <2>7. Kin(ms, new)
    BY <2>2, <2>4, KinLast
  <2>8. Last(new) = d
    <3>1. Last(Append(ms, d)) = d
      BY <2>2, FrontOfAppend
    <3> QED BY <2>4, <3>1
  <2>9. NewRows(d) = <<>>
    BY <2>2, RowsParts DEF NewRows
  <2> QED BY <1>7, <2>5, <2>6, <2>7, <2>8, <2>9
<1> QED BY <1>8, <1>9

\* d is what becomes of c when a later state of it is merged.
Merges(c, incoming, d) ==
  \E streaming \in BOOLEAN : d = mergeAssistant(c, incoming, streaming, FALSE)

LEMMA MergesType ==
  ASSUME NEW c \in Chats, c.role = "assistant", NEW incoming \in Chats, NEW d, Merges(c, incoming, d)
  PROVE  d \in Chats /\ d.role = "assistant" /\ d.tools = c.tools
<1>1. PICK streaming \in BOOLEAN : d = mergeAssistant(c, incoming, streaming, FALSE)
  BY DEF Merges
<1>2. PICK starts \in BOOLEAN : starts = FALSE
  OBVIOUS
<1>3. d = mergeAssistant(c, incoming, streaming, starts)
  BY <1>1, <1>2
<1>4. d \in Chats
  BY <1>3, MergeAssistantType
<1>5. d.role = "assistant"
  BY <1>1, MergedWork
<1>6. d.tools = c.tools
  BY <1>1, MergedWork
<1> QED BY <1>4, <1>5, <1>6

LEMMA MergesWork ==
  ASSUME NEW c \in Chats, c.role = "assistant", NEW incoming \in Chats, NEW d, Merges(c, incoming, d)
  PROVE  /\ d.workOffset = Off(c)
         /\ incoming.work = <<>> => d.work = c.work
         /\ incoming.work # <<>> => d.work = OldRows(c) \o graftWork(NewRows(c), incoming.work)
<1>1. PICK streaming \in BOOLEAN : d = mergeAssistant(c, incoming, streaming, FALSE)
  BY DEF Merges
<1>2. d.workOffset = Off(c)
  BY <1>1, MergedWork
<1>3. d.work = IF incoming.work = <<>> THEN c.work
               ELSE OldRows(c) \o graftWork(NewRows(c), incoming.work)
  BY <1>1, MergedWork
<1> QED BY <1>2, <1>3

LEMMA MergesRows ==
  ASSUME NEW c \in Chats, c.role = "assistant", NEW incoming \in Chats, NEW d, Merges(c, incoming, d),
         Grows(NewRows(c), incoming.work), OwnSlots(incoming.work)
  PROVE  d.work = OldRows(c) \o incoming.work /\ NewRows(d) = incoming.work
<1>1. PICK streaming \in BOOLEAN : d = mergeAssistant(c, incoming, streaming, FALSE)
  BY DEF Merges
<1> QED BY <1>1, Merged

\* Merging a later state of the last message: what becomes of it.
LEMMA MergedHeard ==
  ASSUME NEW ms \in Seq(Chats), LastIs(ms, "assistant"), NEW type \in MessageTypes, type # "message_start",
         NEW r \in AgentRecords, NEW c \in Chats, c = messageFromRecord(r),
         NEW new, new = applyAgentEvent(ms, MessageEvent(type, r))
  PROVE  \E b \in Chats :
           /\ Merges(Last(ms), c, b)
           /\ new = WithLast(ms, b) /\ new \in Seq(Chats)
           /\ b.role = "assistant" /\ b.tools = Last(ms).tools
           /\ LastIs(new, "assistant") /\ Last(new) = b /\ Kin(ms, new)
<1>1. (type = "message_start") = FALSE
  OBVIOUS
<1>2. \E streaming \in BOOLEAN :
        new = WithLast(ms, mergeAssistant(Last(ms), messageFromRecord(r), streaming,
                                          type = "message_start"))
  BY <1>1, AgentHeard
<1>3. PICK streaming \in BOOLEAN : new = WithLast(ms, mergeAssistant(Last(ms), c, streaming, FALSE))
  BY <1>1, <1>2, Zenon
<1> DEFINE b == mergeAssistant(Last(ms), c, streaming, FALSE)
<1>4. Last(ms) \in Chats /\ Last(ms).role = "assistant" /\ Merges(Last(ms), c, b)
  <2>1. Merges(Last(ms), c, b)
    BY Zenon DEF Merges
  <2>2. Last(ms) \in Chats /\ Last(ms).role = "assistant"
    BY DEF LastIs, Last
  <2> QED BY <2>1, <2>2
<1>5. b \in Chats /\ b.role = "assistant" /\ b.tools = Last(ms).tools
  BY <1>4, MergesType
<1> HIDE DEF b
<1>6. new = WithLast(ms, b)
  BY <1>3 DEF b
<1>7. new \in Seq(Chats) /\ LastIs(new, "assistant") /\ Last(new) = b /\ Kin(ms, new)
  BY <1>5, <1>6, LastReplaced
<1> QED BY <1>4, <1>5, <1>6, <1>7

\* More of the message arrives, or all of it.
LEMMA WriteHeard ==
  ASSUME NEW ms \in Seq(Chats), LastIs(ms, "assistant"), NEW type \in {"message_update", "message_end"},
         NEW r \in AgentRecords, NEW c \in Chats, c = messageFromRecord(r),
         NEW d \in Digests, Digest(ms) = Longer(d, NewRows(Last(ms))),
         Grows(NewRows(Last(ms)), c.work), OwnSlots(c.work),
         NEW new, new = applyAgentEvent(ms, MessageEvent(type, r))
  PROVE  /\ new \in Seq(Chats) /\ Digest(new) = Longer(d, c.work) /\ Kin(ms, new)
         /\ LastIs(new, "assistant") /\ NewRows(Last(new)) = c.work
         /\ \A row : Continued(row, c.work) => Continued(row, Last(new).work)
<1>1. PICK b \in Chats :
        /\ Merges(Last(ms), c, b)
        /\ new = WithLast(ms, b) /\ new \in Seq(Chats)
        /\ b.role = "assistant" /\ b.tools = Last(ms).tools
        /\ LastIs(new, "assistant") /\ Last(new) = b /\ Kin(ms, new)
  <2>1. type \in MessageTypes /\ type # "message_start"
    BY DEF MessageTypes
  <2> QED BY <2>1, MergedHeard
<1>2. Last(ms) \in Chats /\ Last(ms).role = "assistant" /\ c.work \in Seq(Rows)
  BY ChatParts DEF LastIs, Last
<1>3. b.work = OldRows(Last(ms)) \o c.work /\ NewRows(b) = c.work
  BY <1>1, <1>2, MergesRows
<1>4. Digest(WithLast(ms, b)) = Longer(d, c.work)
  BY <1>1, <1>2, <1>3, Rewritten
<1>5. ASSUME NEW row, Continued(row, c.work) PROVE Continued(row, b.work)
  <2>1. PICK i \in 1..Len(c.work) : SameSlot(row, c.work[i])
    BY <1>2, <1>5 DEF Continued
  <2>2. OldRows(Last(ms)) \in Seq(Rows)
    BY <1>2, RowsParts
  <2> DEFINE p == OldRows(Last(ms))
             k == Len(p) + i
  <2> HIDE DEF p
  <2>3. k \in 1..Len(p \o c.work) /\ (p \o c.work)[k] = c.work[i] /\ DOMAIN (p \o c.work) = 1..Len(p \o c.work)
    BY <1>2, <2>2, ConcatProperties DEF p
  <2>4. b.work = p \o c.work
    BY <1>3 DEF p
  <2> HIDE DEF k
  <2> QED BY <2>1, <2>3, <2>4 DEF Continued
<1> QED BY <1>1, <1>3, <1>4, <1>5

\* An earlier state of the message arrives late: its rows stay as many as they are.
LEMMA LateHeard ==
  ASSUME NEW ms \in Seq(Chats), LastIs(ms, "assistant"),
         NEW r \in AgentRecords, NEW c \in Chats, c = messageFromRecord(r),
         NEW d \in Digests, Digest(ms) = Longer(d, NewRows(Last(ms))),
         NEW all \in Seq(Rows), OwnSlots(all), Grows(NewRows(Last(ms)), all),
         Len(NewRows(Last(ms))) = Len(all), Grows(c.work, all),
         NEW new, new = applyAgentEvent(ms, MessageEvent("message_update", r))
  PROVE  /\ new \in Seq(Chats) /\ Kin(ms, new) /\ LastIs(new, "assistant")
         /\ Digest(new) = Longer(d, NewRows(Last(new)))
         /\ Grows(NewRows(Last(new)), all) /\ Len(NewRows(Last(new))) = Len(all)
         /\ c.work = all => NewRows(Last(new)) = all
<1> DEFINE l == Last(ms)
           v == IF c.work = <<>> THEN NewRows(l) ELSE graftWork(NewRows(l), c.work)
<1>1. PICK b \in Chats :
        /\ Merges(Last(ms), c, b)
        /\ new = WithLast(ms, b) /\ new \in Seq(Chats)
        /\ b.role = "assistant" /\ b.tools = Last(ms).tools
        /\ LastIs(new, "assistant") /\ Last(new) = b /\ Kin(ms, new)
  <2>1. PICK type \in MessageTypes : type = "message_update"
    BY DEF MessageTypes
  <2>2. new = applyAgentEvent(ms, MessageEvent(type, r))
    BY <2>1
  <2> QED BY <2>1, <2>2, MergedHeard
<1>2. l \in Chats /\ l.role = "assistant" /\ c.work \in Seq(Rows)
  BY ChatParts DEF LastIs, Last
<1>3. NewRows(l) \in Seq(Rows) /\ OldRows(l) \in Seq(Rows) /\ l.work = OldRows(l) \o NewRows(l)
      /\ Len(OldRows(l)) = Off(l)
  BY <1>2, RowsParts
<1>4. b.workOffset = Off(l)
  BY <1>1, <1>2, MergesWork
<1>5. b.work = OldRows(l) \o v
  <2>1. c.work = <<>> => b.work = l.work
    BY <1>1, <1>2, MergesWork
  <2>2. c.work # <<>> => b.work = OldRows(l) \o graftWork(NewRows(l), c.work)
    BY <1>1, <1>2, MergesWork
  <2> QED BY <1>3, <2>1, <2>2, Zenon
<1>6. /\ graftWork(NewRows(l), c.work) \in Seq(Rows)
      /\ Len(graftWork(NewRows(l), c.work)) = Len(NewRows(l))
      /\ Len(NewRows(l)) <= Len(c.work) => graftWork(NewRows(l), c.work) = c.work
      /\ \A i \in 1..Len(NewRows(l)) : SameSlot(NewRows(l)[i], graftWork(NewRows(l), c.work)[i])
  <2>1. Len(c.work) <= Len(NewRows(l))
    BY DEF Grows
  <2> QED BY <1>2, <1>3, <2>1, Graft
<1>7. v \in Seq(Rows) /\ Len(v) = Len(NewRows(l)) /\ \A i \in 1..Len(NewRows(l)) : SameSlot(NewRows(l)[i], v[i])
  <2>1. CASE c.work = <<>>
    BY <1>3, <2>1 DEF SameSlot
  <2>2. CASE c.work # <<>>
    BY <1>6, <2>2
  <2> QED BY <2>1, <2>2
<1>8. c.work = all => v = all
  <2>1. SUFFICES ASSUME c.work = all PROVE v = all
    OBVIOUS
  <2>2. CASE c.work = <<>>
    <3>1. Len(NewRows(l)) = 0
      BY <2>1, <2>2
    <3> QED BY <1>3, <2>1, <2>2, <3>1
  <2>3. CASE c.work # <<>>
    BY <1>2, <1>3, <1>6, <2>1, <2>3
  <2> QED BY <2>2, <2>3
<1> HIDE DEF v
<1>9. Off(b) = Off(l)
  <2>1. Off(l) \in 0..Len(l.work)
    BY <1>2, RowsParts
  <2> QED BY <1>4, <2>1 DEF Off
<1>10. NewRows(b) = v
  BY <1>3, <1>5, <1>7, <1>9, Suffix DEF NewRows
<1>11. Digest(WithLast(ms, b)) = Longer(d, v)
  <2>1. b.work = OldRows(Last(ms)) \o v /\ Digest(ms) = Longer(d, NewRows(Last(ms)))
    BY <1>5
  <2> HIDE DEF l
  <2> QED BY <1>1, <1>7, <2>1, Rewritten
<1>12. Grows(v, all)
  <2>1. /\ Len(v) = Len(all)
        /\ \A i \in 1..Len(v) : SameSlot(NewRows(l)[i], v[i]) /\ SameSlot(NewRows(l)[i], all[i])
    BY <1>7 DEF Grows
  <2> QED BY <1>7, <2>1 DEF Grows, SameSlot
<1> QED BY <1>1, <1>7, <1>8, <1>10, <1>11, <1>12

\* An event of a tool whose result is not known: it becomes known at its end.
LEMMA ToolHeard ==
  ASSUME NEW ms \in Seq(Chats), LastIs(ms, "assistant"), NEW type \in ToolTypes, NEW tool \in Slots,
         NEW error \in BOOLEAN, Continued(ToolRow(tool), Last(ms).work),
         Digest(ms).tools[tool] = "unknown",
         NEW new, new = applyAgentEvent(ms, ToolEvent(type, tool, error))
  PROVE  /\ new \in Seq(Chats) /\ Kin(ms, new) /\ LastIs(new, "assistant")
         /\ Last(new).work = Last(ms).work /\ NewRows(Last(new)) = NewRows(Last(ms))
         /\ type = "tool_execution_end" => Digest(new) = Learn(Digest(ms), tool, ToolOutcome(error))
         /\ type # "tool_execution_end" => Digest(new) = Digest(ms)
<1> DEFINE e == ToolEvent(type, tool, error)
           status == IF type = "tool_execution_end" THEN ToolOutcome(error) ELSE "running"
<1>1. e.type = type /\ e.tool = tool /\ e.error = error
  BY DEF ToolEvent
<1>2. e.type # "agent_settled" /\ e.type # "agent_end"
  BY <1>1 DEF ToolTypes
<1> HIDE DEF e
<1>3. new = upsertLastAssistantTool(ms, tool, status)
  <2>1. applyAgentEvent(ms, e) = ApplyToolEvent(ms, e)
    BY <1>1, <1>2 DEF applyAgentEvent, MessageTypes, ToolTypes
  <2>2. ApplyToolEvent(ms, e) = upsertLastAssistantTool(ms, tool, status)
    BY <1>1 DEF ApplyToolEvent
  <2> QED BY <2>1, <2>2 DEF e
<1>4. status \in {"running", "complete", "error"} /\ ToolOutcome(error) \in Outcomes
      /\ ToolOutcome(error) # "running" /\ ToolOutcome(error) # "unknown"
  BY DEF ToolOutcome, Outcomes
<1>5. status = "running" <=> type # "tool_execution_end"
  BY <1>4
<1>6. type = "tool_execution_end" => status = ToolOutcome(error)
  OBVIOUS
<1> HIDE DEF status
<1>7. Digest(new) = Learn(Digest(ms), tool, IF status = "running" THEN "unknown" ELSE status)
  BY <1>3, <1>4, Upserted
<1>8. \E b \in Chats : /\ new = WithLast(ms, b) /\ b.role = "assistant" /\ b.id = Last(ms).id
                       /\ b.work = Last(ms).work /\ b.workOffset = Last(ms).workOffset
  BY <1>3, <1>4, Upserted
<1>9. PICK b \in Chats : /\ new = WithLast(ms, b) /\ b.role = "assistant" /\ b.id = Last(ms).id
                         /\ b.work = Last(ms).work /\ b.workOffset = Last(ms).workOffset
  BY <1>8
<1>10. new \in Seq(Chats) /\ LastIs(new, "assistant") /\ Last(new) = b /\ Kin(ms, new)
  BY <1>9, LastReplaced
<1>11. NewRows(b) = NewRows(Last(ms))
  BY <1>9 DEF NewRows, Off
<1>12. type = "tool_execution_end" => Digest(new) = Learn(Digest(ms), tool, ToolOutcome(error))
  BY <1>5, <1>6, <1>7
<1>13. type # "tool_execution_end" => Digest(new) = Digest(ms)
  <2>1. Digest(ms) \in Digests /\ "unknown" \in Outcomes
    BY DigestSteps DEF Outcomes
  <2>2. Learn(Digest(ms), tool, "unknown") = Digest(ms)
    <3>1. PICK state \in Outcomes : state = "unknown"
      BY <2>1
    <3> QED BY <2>1, <3>1, LearnParts
  <2> QED BY <1>5, <1>7, <2>2
<1> QED BY <1>9, <1>10, <1>11, <1>12, <1>13

LEMMA AlikeAll ==
  ASSUME NEW a \in Seq(Chats), NEW b \in Seq(Chats), NEW c \in Seq(Chats), AllAlike(a, b), AllAlike(b, c)
  PROVE  AllAlike(a, c)
BY AlikeOn DEF AllAlike

LEMMA AlikeRefl ==
  ASSUME NEW a \in Seq(Chats)
  PROVE  AllAlike(a, a)
BY AlikeSelf DEF AllAlike

\* The end of a run leaves what is read, whether it is tried again or not.
LEMMA RetryHeard ==
  ASSUME NEW ms, NEW r
  PROVE  applyAgentEvent(ms, AgentEnd(TRUE, r)) = ms
<1> DEFINE e == AgentEnd(TRUE, r)
<1>1. e.type = "agent_end" /\ e.willRetry = TRUE
  BY DEF AgentEnd
<1> HIDE DEF e
<1>2. applyAgentEvent(ms, e) = ApplyAgentEnd(ms, e)
  BY <1>1 DEF applyAgentEvent, MessageTypes, ToolTypes
<1>3. ApplyAgentEnd(ms, e) = ms
  BY <1>1, Zenon DEF ApplyAgentEnd
<1> QED BY <1>2, <1>3 DEF e

LEMMA EndHeard ==
  ASSUME NEW ms \in Seq(Chats), NEW r \in Records, r.role = "assistant" => LastIs(ms, "assistant"),
         NEW new, new = applyAgentEvent(ms, AgentEnd(FALSE, r))
  PROVE  new \in Seq(Chats) /\ AllAlike(ms, new) /\ (OnlyRuns(ms, {}) => OnlyRuns(new, {}))
<1> DEFINE e == AgentEnd(FALSE, r)
           l == Last(ms)
           b == [l EXCEPT !.streaming = FALSE, !.error = TRUE]
<1>1. e.type = "agent_end" /\ e.record = r /\ e.willRetry = FALSE
  BY DEF AgentEnd
<1>2. e \in EndEvents /\ e \in Events
  BY DEF AgentEnd, EndEvents, Events
<1> HIDE DEF e
<1>3. new \in Seq(Chats) /\ (OnlyRuns(ms, {}) => OnlyRuns(new, {}))
  BY <1>2, EventKinds DEF e
<1>4. new = ApplyAgentEnd(ms, e)
  <2>1. applyAgentEvent(ms, e) = ApplyAgentEnd(ms, e)
    BY <1>1 DEF applyAgentEvent, MessageTypes, ToolTypes
  <2> QED BY <2>1 DEF e
<1>5. new = ms \/ (LastIs(ms, "assistant") /\ new = WithLast(ms, b))
  BY <1>1, <1>4, Zenon DEF ApplyAgentEnd, MarkFailed
<1>6. ASSUME LastIs(ms, "assistant"), new = WithLast(ms, b)
      PROVE  AllAlike(ms, new)
  <2>1. ms # <<>> /\ l \in Chats
    BY <1>6 DEF LastIs, Last
  <2>2. l \in ChatRecords /\ Sound(l)
    BY <2>1 DEF Chats
  <2>3. /\ b \in ChatRecords /\ b.id = l.id /\ b.role = l.role /\ b.tools = l.tools /\ b.work = l.work
        /\ b.workOffset = l.workOffset /\ b.text = l.text /\ b.streaming = FALSE
    BY <2>2 DEF ChatRecords
  <2> HIDE DEF b, l
  <2>4. b \in Chats
    BY <2>2, <2>3 DEF Chats, Sound
  <2>5. Alike(l, b)
    BY <2>3 DEF Alike, SameFace
  <2>6. /\ Len(WithLast(ms, b)) = Len(ms) /\ Len(ms) \in Nat \ {0} /\ WithLast(ms, b)[Len(ms)] = b
        /\ \A i \in 1..(Len(ms) - 1) : WithLast(ms, b)[i] = ms[i]
    BY <2>1, <2>4, WithLastFacts DEF WithLast
  <2>7. l = ms[Len(ms)]
    BY DEF Last, l
  <2>8. \A i \in 1..Len(ms) : Alike(ms[i], WithLast(ms, b)[i])
    <3> TAKE i \in 1..Len(ms)
    <3>1. CASE i = Len(ms)
      BY <2>5, <2>6, <2>7, <3>1
    <3>2. CASE i # Len(ms)
      <4>1. i \in 1..(Len(ms) - 1)
        BY <2>6, <3>2
      <4> QED BY <2>6, <4>1, AlikeSelf
    <3> QED BY <3>1, <3>2
  <2> QED BY <1>6, <2>6, <2>8 DEF AllAlike
<1> QED BY <1>3, <1>5, <1>6, AlikeRefl

LEMMA SettleHeard ==
  ASSUME NEW ms \in Seq(Chats), NEW r \in Records, r.role = "assistant" => LastIs(ms, "assistant"),
         OnlyRuns(ms, {}), NEW new,
         new = applyAgentEvent(applyAgentEvent(ms, AgentEnd(FALSE, r)), Settled)
  PROVE  new \in Seq(Chats) /\ AllAlike(ms, new)
<1> DEFINE ended == applyAgentEvent(ms, AgentEnd(FALSE, r))
<1>1. ended \in Seq(Chats) /\ AllAlike(ms, ended) /\ OnlyRuns(ended, {})
  BY EndHeard
<1> HIDE DEF ended
<1>2. Unheard(ended)
  BY <1>1 DEF OnlyRuns, Unheard
<1>3. new = finalizeInterruptedTurn(ended, FALSE)
  <2>1. Settled.type = "agent_settled"
    BY DEF Settled
  <2>2. applyAgentEvent(ended, Settled) = finalizeInterruptedTurn(ended, FALSE)
    BY <2>1 DEF applyAgentEvent, MessageTypes, ToolTypes
  <2> QED BY <2>2 DEF ended
<1>4. AllAlike(ended, new)
  <2>1. PICK interrupted \in BOOLEAN : interrupted = FALSE
    OBVIOUS
  <2> QED BY <1>1, <1>2, <1>3, <2>1, FinalizeFaces
<1>5. new \in Seq(Chats)
  <2>1. PICK interrupted \in BOOLEAN : interrupted = FALSE
    OBVIOUS
  <2> QED BY <1>1, <1>3, <2>1, FinalizeType
<1> QED BY <1>1, <1>4, <1>5, AlikeAll

---------------------------------------------------------------------------
(* The steps, one by one: what is shown goes on reading as the session.    *)

LEMMA NoneSentNext ==
  ASSUME IInv', view' = "app"
  PROVE  0 \in SentIds'
BY DEF IInv, AppKnows, SentIds, Ids, Typed, Counters

LEMMA LiveNow ==
  ASSUME LInv, view = "app"
  PROVE  /\ IInv /\ Typed /\ Going /\ Waiting /\ AppKnows
         /\ Questions /\ Calling /\ HeldBack /\ Shows
         /\ app.live <=> phase # "dead"
         /\ 0 \in SentIds /\ flush \in Seq(Chats) /\ messages \in Seq(Chats)
<1>1. IInv /\ Live
  BY DEF LInv
<1>2. Typed /\ Going /\ Waiting /\ AppKnows
  BY <1>1 DEF IInv
<1>3. 0 \in SentIds
  BY <1>2, NoneSent
<1> QED BY <1>1, <1>2, <1>3, FlushType DEF Live, AppKnows, Typed

\* Nothing that was said or sent is forgotten.
LEMMA SetsGrow ==
  ASSUME Typed, Typed',
         \/ counts'.prompts = counts.prompts /\ (app'.sending = "no" \/ app.sending # "no")
         \/ counts'.prompts = counts.prompts + 1,
         counts.troubles <= counts'.troubles,
         \A k \in 1..Len(steers') : \/ steers'[k] > MaxPrompts + counts.troubles
                                    \/ \E i \in 1..Len(steers) : steers'[k] = steers[i]
  PROVE  Uttered \subseteq Uttered' /\ SentIds \subseteq SentIds'
<1>1. /\ counts.prompts \in Nat /\ counts'.prompts \in Nat
      /\ counts.troubles \in Nat /\ counts'.troubles \in Nat
      /\ steers \in Seq(Nat) /\ steers' \in Seq(Nat)
  BY DEF Typed, Counters
<1>2. Ids(counts.prompts, app.sending) \subseteq Ids(counts'.prompts, app'.sending)
  BY <1>1, IdsGrow
<1>3. Heard(counts.prompts, app.sending, counts.troubles, steers)
        \subseteq Heard(counts'.prompts, app'.sending, counts'.troubles, steers')
  <2> DEFINE p == counts.prompts
             q == counts'.prompts
             s == app.sending
             t == app'.sending
             m == counts.troubles
             n == counts'.troubles
             a == steers
             b == steers'
  <2>1. /\ p \in Nat /\ q \in Nat /\ m \in Nat /\ n \in Nat /\ m <= n /\ a \in Seq(Nat) /\ b \in Seq(Nat)
        /\ Ids(p, s) \subseteq Ids(q, t)
        /\ \A k \in 1..Len(b) : b[k] > MaxPrompts + m \/ \E i \in 1..Len(a) : b[k] = a[i]
    BY <1>1, <1>2
  <2> HIDE DEF p, q, s, t, m, n, a, b
  <2>2. Heard(p, s, m, a) \subseteq Heard(q, t, n, b)
    BY <2>1, HeardGrows
  <2> QED BY <2>2 DEF p, q, s, t, m, n, a, b
<1> QED BY <1>2, <1>3 DEF Uttered, SentIds

\* A step of the agent with the counters of the App and its prompt as they were.
LEMMA SetsSame ==
  ASSUME Typed, Typed', counts'.prompts = counts.prompts, counts.troubles <= counts'.troubles,
         app'.sending = app.sending, steers' = steers \/ steers' = <<>>
  PROVE  Uttered \subseteq Uttered' /\ SentIds \subseteq SentIds'
<1>1. \A k \in 1..Len(steers') : \E i \in 1..Len(steers) : steers'[k] = steers[i]
  OBVIOUS
<1> QED BY <1>1, SetsGrow

LEMMA BusyShows ==
  ASSUME LInv, view = "app", Busy, app.misled # "asked"
  PROVE  /\ app.live
         /\ Goes(flush, phase, getWork(M, parts), toolsLeft, Answered)
         /\ Right(flush, Reading, Uttered, SentIds)
         /\ \A i \in 1..Len(messages) : messages[i].id \in SentIds
<1>1. Shows /\ (app.live <=> phase # "dead")
  BY LiveNow
<1>2. app.live
  BY <1>1 DEF Busy
<1> QED BY <1>1, <1>2 DEF Shows

LEMMA KinRight ==
  ASSUME NEW ms \in Seq(Chats), NEW new \in Seq(Chats), Kin(ms, new), NEW U, NEW V, NEW I, NEW J,
         U \subseteq V, I \subseteq J, 0 \in J, NEW d, Right(ms, d, U, I)
  PROVE  Right(new, Digest(new), V, J)
<1>1. \A i \in 1..Len(ms) : Old(ms[i], U, I)
  BY DEF Right
<1>2. \A i \in 1..Len(new) : Old(new[i], V, J)
  BY <1>1, KinOld, Zenon
<1> QED BY <1>2 DEF Right

LEMMA ShowsHeard ==
  ASSUME LInv, IInv', view = "app", view' = "app", Busy,
         Uttered \subseteq Uttered', SentIds \subseteq SentIds',
         messages' = messages \/ messages' = flush',
         app'.misled # "asked" => app.misled # "asked",
         app.misled # "asked" =>
           /\ flush' \in Seq(Chats) /\ Kin(flush, flush') /\ Digest(flush') = Reading'
           /\ Goes(flush', phase', getWork(M', parts'), toolsLeft', Answered')
  PROVE  Shows'
<1> SUFFICES ASSUME app.misled # "asked"
             PROVE  /\ Goes(flush', phase', getWork(M', parts'), toolsLeft', Answered')
                    /\ Right(flush', Reading', Uttered', SentIds')
                    /\ \A i \in 1..Len(messages') : messages'[i].id \in SentIds'
  BY DEF Shows
<1>1. Right(flush, Reading, Uttered, SentIds) /\ \A i \in 1..Len(messages) : messages[i].id \in SentIds
  BY BusyShows
<1>2. flush \in Seq(Chats)
  BY LiveNow
<1>3. 0 \in SentIds'
  BY NoneSentNext
<1>4. Right(flush', Digest(flush'), Uttered', SentIds')
  <2> DEFINE a == flush
             b == flush'
             U == Uttered
             V == Uttered'
             I == SentIds
             J == SentIds'
             d == Reading
  <2>1. /\ a \in Seq(Chats) /\ b \in Seq(Chats) /\ Kin(a, b) /\ U \subseteq V /\ I \subseteq J /\ 0 \in J
        /\ Right(a, d, U, I)
    BY <1>1, <1>2, <1>3
  <2> HIDE DEF a, b, U, V, I, J, d
  <2>2. Right(b, Digest(b), V, J)
    BY <2>1, KinRight
  <2> QED BY <2>2 DEF b, V, J
<1>5. Right(flush', Reading', Uttered', SentIds')
  BY <1>4
<1>6. \A i \in 1..Len(messages') : messages'[i].id \in SentIds'
  <2>1. CASE messages' = messages
    BY <1>1, <2>1
  <2>2. CASE messages' = flush'
    BY <1>4, <2>2 DEF Right, Old
  <2> QED BY <2>1, <2>2
<1> QED BY <1>5, <1>6

LEMMA NoWork ==
  /\ \A m \in Nat : getWork(m, <<>>) = <<>>
  /\ \A d \in Digests : Longer(d, <<>>) = d
<1>1. ASSUME NEW m \in Nat PROVE getWork(m, <<>>) = <<>>
  <2>1. <<>> \in Seq(PartRecords) /\ [kind |-> "text", n |-> 1] \in PartRecords
    BY DEF PartRecords, Kinds
  <2> QED BY <2>1, WorkAppend
<1>2. ASSUME NEW d \in Digests PROVE Longer(d, <<>>) = d
  <2>1. <<>> \in Seq(Rows)
    OBVIOUS
  <2> QED BY <2>1, LongerParts
<1> QED BY <1>1, <1>2

LEMMA SpokenNext ==
  ASSUME Typed'
  PROVE  /\ Spoken' \in Seq(StillChats) /\ Spoken' \in Seq(Chats) /\ Digest(Spoken') \in Digests
         /\ M' \in Nat /\ getWork(M', parts') \in Seq(Rows)
<1>1. records' \in Seq(Records) /\ M' \in Nat /\ parts' \in Seq(PartRecords)
  BY DEF Typed, Counters, M
<1>2. normalizeMessages(records') \in Seq(StillChats)
  BY <1>1, Normalized
<1>3. Spoken' \in Seq(StillChats)
  BY <1>2 DEF Spoken
<1>4. Spoken' \in Seq(Chats)
  BY <1>3, StillKnown
<1>5. Digest(Spoken') \in Digests
  BY <1>4, DigestSteps
<1>6. getWork(M', parts') \in Seq(Rows)
  BY <1>1, WorkRows
<1> QED BY <1>1, <1>3, <1>4, <1>5, <1>6

LEMMA SpokenKin ==
  ASSUME LInv, IInv', view = "app", view' = "app", Kin(Spoken, Spoken'),
         Uttered \subseteq Uttered', SentIds \subseteq SentIds'
  PROVE  \A i \in 1..Len(Spoken') : Old(Spoken'[i], Uttered', SentIds')
<1>1. Questions /\ Typed
  BY LiveNow
<1>2. Typed'
  BY DEF IInv
<1> DEFINE a == Spoken
           b == Spoken'
           U == Uttered
           V == Uttered'
           I == SentIds
           J == SentIds'
<1>3. /\ a \in Seq(Chats) /\ b \in Seq(Chats) /\ Kin(a, b) /\ U \subseteq V /\ I \subseteq J /\ 0 \in J
      /\ \A i \in 1..Len(a) : Old(a[i], U, I)
  BY <1>1, <1>2, SpokenType, SpokenNext, NoneSentNext DEF Questions
<1> HIDE DEF a, b, U, V, I, J
<1>4. \A i \in 1..Len(b) : Old(b[i], V, J)
  BY <1>3, KinOld, Zenon
<1> QED BY <1>4 DEF b, V, J

LEMMA QuestionsKept ==
  ASSUME LInv, IInv', view = "app", view' = "app", Kin(Spoken, Spoken'),
         counts'.prompts = counts.prompts, counts.troubles <= counts'.troubles,
         app'.sending = app.sending, steers' = steers \/ steers' = <<>>
  PROVE  Questions' /\ Uttered \subseteq Uttered' /\ SentIds \subseteq SentIds'
<1>1. Questions /\ Typed
  BY LiveNow
<1>2. Typed'
  BY DEF IInv
<1>3. Uttered \subseteq Uttered' /\ SentIds \subseteq SentIds'
  BY <1>1, <1>2, SetsSame
<1>4. \A i \in 1..Len(Spoken') : Old(Spoken'[i], Uttered', SentIds')
  BY <1>3, SpokenKin
<1>5. counts'.prompts <= MaxPrompts
  BY <1>1 DEF Questions
<1>6. \A i, k \in 1..Len(steers') : steers'[i] = steers'[k] => i = k
  BY <1>1 DEF Questions
<1>7. \A i \in 1..Len(steers') : MaxPrompts < steers'[i] /\ steers'[i] <= MaxPrompts + counts'.troubles
  <2>1. SUFFICES ASSUME NEW i \in 1..Len(steers')
                 PROVE  MaxPrompts < steers'[i] /\ steers'[i] <= MaxPrompts + counts'.troubles
    OBVIOUS
  <2>2. steers' = steers
    OBVIOUS
  <2>3. steers \in Seq(Nat) /\ counts.troubles \in Nat /\ counts'.troubles \in Nat /\ MaxPrompts \in Nat
    BY <1>1, <1>2, BoundsAssumption DEF Typed, Counters
  <2>4. i \in 1..Len(steers) /\ steers[i] \in Nat
    BY <2>2, <2>3
  <2>5. MaxPrompts < steers[i] /\ steers[i] <= MaxPrompts + counts.troubles
    BY <1>1, <2>4 DEF Questions
  <2> QED BY <2>2, <2>3, <2>4, <2>5
<1> QED BY <1>3, <1>4, <1>5, <1>6, <1>7 DEF Questions

LEMMA Steady ==
  ASSUME Typed, records' = records
  PROVE  Spoken' = Spoken /\ Kin(Spoken, Spoken')
<1>1. Spoken' = Spoken
  BY DEF Spoken
<1>2. Kin(Spoken, Spoken)
  BY DEF Kin
<1> QED BY <1>1, <1>2

LEMMA StartMessageLive ==
  ASSUME LInv, IInv', view = "app", NEW k \in Shapes, StartMessage(k)
  PROVE  Live'
<1>1. /\ phase = "turn" /\ Count("messages") /\ phase' = "message" /\ parts' = <<>>
      /\ Receive(<<MessageEvent("message_start", AgentRecord(counts'.messages, <<>>, ""))>>)
      /\ UNCHANGED <<records, toolsLeft, toolRuns, aborting, steers, view, app>>
  BY DEF StartMessage
<1>2. /\ IInv /\ Typed /\ Questions /\ Calling /\ (app.live <=> phase # "dead")
      /\ flush \in Seq(Chats)
  BY LiveNow
<1>3. Typed'
  BY DEF IInv
<1>4. /\ counts'.messages = counts.messages + 1 /\ counts'.prompts = counts.prompts
      /\ counts'.troubles = counts.troubles /\ counts.messages \in Nat /\ counts.troubles \in Nat
  BY <1>1, <1>2 DEF Count, Typed, Counters
<1>5. M' = M + 1 /\ M \in Nat /\ M' \in Nat
  BY <1>4 DEF M
<1>6. Spoken' = Spoken /\ Kin(Spoken, Spoken') /\ Digest(Spoken) \in Digests
  BY <1>1, <1>2, Steady, SpokenType
<1>7. Questions' /\ Uttered \subseteq Uttered' /\ SentIds \subseteq SentIds'
  <2>1. view' = "app" /\ app'.sending = app.sending /\ steers' = steers
    BY <1>1
  <2>2. counts.troubles <= counts'.troubles
    BY <1>4
  <2> QED BY <1>4, <1>6, <2>1, <2>2, QuestionsKept
<1>8. Calling'
  <2>1. \A t \in Slots : t[1] \in Nat
    BY DEF Slots
  <2>2. \A t \in Slots : t[1] > M' \/ t[1] = M' => t[1] > M
    BY <1>5, <2>1
  <2>3. \A t \in Slots : t[1] > M => Digest(Spoken).tools[t] = "unknown"
    BY <1>2 DEF Calling
  <2>4. \A t \in Slots : t[1] > M' \/ (phase' = "message" /\ t[1] = M') => Digest(Spoken').tools[t] = "unknown"
    BY <1>6, <2>2, <2>3
  <2> QED BY <1>1, <2>4 DEF Calling
<1> DEFINE r == AgentRecord(counts'.messages, <<>>, "")
           c == messageFromRecord(r)
           e == MessageEvent("message_start", r)
<1>9. r \in AgentRecords /\ c \in Chats /\ NoAnswer(c) /\ c.workOffset = -1
  <2>1. PICK stop \in Stops : stop = ""
    BY DEF Stops
  <2>2. r = AgentRecord(counts'.messages, <<>>, stop)
    BY <2>1, Zenon
  <2>3. counts'.messages \in Nat
    BY <1>4
  <2> HIDE DEF r
  <2> QED BY <2>2, <2>3, BlankChat
<1> HIDE DEF r, c
<1>10. e \in Events /\ ~IsUpdate(e)
  BY <1>9 DEF Events, MessageEvents, MessageTypes, MessageEvent, IsUpdate
<1>11. /\ flush' = applyAgentEvent(flush, e) /\ (messages' = messages \/ messages' = flush') /\ held' = <<>>
  <2>1. Receive(<<e>>) /\ app.live
    BY <1>1, <1>2 DEF r
  <2> HIDE DEF e
  <2> QED BY <1>2, <1>10, <2>1, Flushed
<1>12. /\ flush' \in Seq(Chats) /\ Digest(flush') = Digest(flush) /\ Kin(flush, flush')
       /\ LastIs(flush', "assistant") /\ NewRows(Last(flush')) = <<>>
  <2>1. c = messageFromRecord(r)
    BY DEF c
  <2> QED BY <1>2, <1>9, <1>11, <2>1, StartHeard
<1>13. HeldBack'
  BY <1>11 DEF HeldBack
<1>14. getWork(M', parts') = <<>>
  BY <1>1, <1>5, NoWork
<1>15. Reading' = Reading
  <2>1. Reading' = Longer(Digest(Spoken), <<>>)
    BY <1>1, <1>6, <1>14 DEF Reading
  <2>2. Longer(Digest(Spoken), <<>>) = Digest(Spoken)
    BY <1>6, NoWork
  <2> QED BY <1>1, <2>1, <2>2 DEF Reading
<1>16. app.misled # "asked" => Digest(flush) = Reading
  BY <1>1, BusyShows DEF Busy, Right
<1>17. Goes(flush', phase', getWork(M', parts'), toolsLeft', Answered')
  BY <1>1, <1>12, <1>14 DEF Goes
<1>18. Shows'
  BY <1>1, <1>7, <1>11, <1>12, <1>15, <1>16, <1>17, ShowsHeard DEF Busy
<1> QED BY <1>7, <1>8, <1>13, <1>18 DEF Live

\* The updates that wait while a message is written are states of it.
LEMMA HeldRecord ==
  ASSUME Typed, Waiting, phase = "message", NEW i \in 1..Len(held)
  PROVE  /\ held[i] \in Events /\ held[i] = MessageEvent("message_update", held[i].record)
         /\ held[i].record \in AgentRecords
         /\ getWork(held[i].record.m, held[i].record.parts) \in Seq(Rows)
<1>1. held[i] \in Events /\ Fits(held[i])
  BY DEF Typed, Waiting
<1>2. held[i].type = "message_update" /\ held[i].record.role = "assistant"
  BY <1>1 DEF Fits
<1>3. held[i] \in MessageEvents
  BY <1>1, <1>2 DEF Events, ToolEvents, ToolTypes, EndEvents, Settled
<1>4. held[i].record \in AgentRecords
  BY <1>2, <1>3 DEF MessageEvents, UserRecords
<1>5. held[i] = MessageEvent("message_update", held[i].record)
  BY <1>2, <1>3 DEF MessageEvents, MessageEvent
<1>6. held[i].record.m \in Nat /\ held[i].record.parts \in Seq(PartRecords)
  BY <1>4 DEF AgentRecords
<1> QED BY <1>1, <1>4, <1>5, <1>6, WorkRows

\* The message under way as it is shown, whatever its end.
LEMMA UnderWay ==
  ASSUME Typed, NEW ps \in Seq(PartRecords), NEW stop \in Stops, NEW r, r = AgentRecord(M, ps, stop),
         NEW c, c = messageFromRecord(r)
  PROVE  /\ r \in AgentRecords /\ c \in Chats /\ c.role = "assistant" /\ c.id = 0
         /\ c.work = getWork(M, ps) /\ OwnSlots(c.work) /\ c.work \in Seq(Rows)
         /\ \A t \in DOMAIN c.tools : t \in Slots /\ t[1] = M /\ Known(c.tools[t]) = "unknown"
<1>1. M \in Nat
  BY DEF Typed, Counters, M
<1>2. r \in AgentRecords
  BY <1>1, AgentRecordType
<1>3. /\ c \in Chats /\ c.role = "assistant" /\ c.id = 0 /\ c.work = getWork(M, ps)
      /\ \A t \in DOMAIN c.tools : t[1] = M /\ Known(c.tools[t]) = "unknown"
  BY <1>1, AgentChat
<1>4. getWork(M, ps) \in Seq(Rows) /\ OwnSlots(getWork(M, ps))
  BY <1>1, WorkRows
<1>5. DOMAIN c.tools \subseteq Slots
  BY <1>3, ChatParts, ToolSetFacts
<1> QED BY <1>2, <1>3, <1>4, <1>5

LEMMA WriteLive ==
  ASSUME LInv, IInv', view = "app", Write
  PROVE  Live'
<1>1. /\ phase = "message" /\ ~Complete /\ parts' = Written
      /\ Receive(<<MessageEvent("message_update", AgentRecord(M, parts', ""))>>)
      /\ UNCHANGED <<records, phase, shape, toolsLeft, toolRuns, aborting, steers, counts, view, app>>
  BY DEF Write
<1>2. /\ IInv /\ Typed /\ Going /\ Waiting /\ Questions /\ Calling /\ HeldBack
      /\ (app.live <=> phase # "dead") /\ flush \in Seq(Chats)
  BY LiveNow
<1>3. Typed' /\ M' = M /\ counts.troubles <= counts'.troubles
  <2>1. Typed'
    BY DEF IInv
  <2>2. M' = M /\ counts' = counts
    BY <1>1 DEF M
  <2>3. counts.troubles \in Nat
    BY <1>2 DEF Typed, Counters
  <2> QED BY <2>1, <2>2, <2>3
<1>4. Spoken' = Spoken /\ Kin(Spoken, Spoken') /\ Digest(Spoken) \in Digests /\ M \in Nat
  BY <1>1, <1>2, Steady, SpokenType
<1>5. Questions' /\ Uttered \subseteq Uttered' /\ SentIds \subseteq SentIds'
  <2>1. view' = "app" /\ app'.sending = app.sending /\ steers' = steers /\ counts'.prompts = counts.prompts
    BY <1>1
  <2> QED BY <1>3, <1>4, <2>1, QuestionsKept
<1>6. Calling'
  BY <1>1, <1>2, <1>3, <1>4 DEF Calling
<1> DEFINE v == getWork(M, parts')
           w == getWork(M, parts)
<1>7. parts \in Seq(PartRecords) /\ parts' \in Seq(PartRecords) /\ shape \in Shapes /\ Len(parts) <= Len(shape)
  BY <1>1, <1>2, <1>3 DEF Typed, Going
<1>8. w \in Seq(Rows) /\ v \in Seq(Rows) /\ Grows(w, v)
  <2>1. Grows(getWork(M, parts), getWork(M, Written))
    BY <1>1, <1>4, <1>7, WrittenRows
  <2> QED BY <1>1, <1>4, <1>7, <2>1, WorkRows
<1> DEFINE r == AgentRecord(M, parts', "")
           c == messageFromRecord(r)
           e == MessageEvent("message_update", r)
<1>9. r \in AgentRecords /\ c \in Chats /\ c.work = v /\ OwnSlots(c.work)
  <2>1. PICK stop \in Stops : stop = ""
    BY DEF Stops
  <2>2. r = AgentRecord(M, parts', stop)
    BY <2>1, Zenon
  <2>3. c = messageFromRecord(r)
    OBVIOUS
  <2> HIDE DEF r, c
  <2> QED BY <1>2, <1>7, <2>2, <2>3, UnderWay
<1> HIDE DEF r, c, v, w
<1>10. e \in Events /\ e.record = r
  BY <1>9 DEF Events, MessageEvents, MessageTypes, MessageEvent
<1>11. /\ flush' = applyAgentEvent(flush, e) /\ (messages' = messages \/ messages' = flush')
       /\ held' = <<>> \/ held' = Append(held, e)
  <2>1. Receive(<<e>>) /\ app.live
    BY <1>1, <1>2 DEF r
  <2> HIDE DEF e
  <2> QED BY <1>2, <1>10, <2>1, Flushed
<1>12. HeldBack'
  <2>1. SUFFICES ASSUME held' = Append(held, e)
                 PROVE  /\ held'[Len(held')].record = Partial'
                        /\ \A i \in 1..Len(held') : Earlier(held'[i].record, v)
    BY <1>3, <1>11 DEF HeldBack, v
  <2>2. held \in Seq(Events)
    BY <1>2 DEF Typed
  <2>3. /\ Len(held') = Len(held) + 1 /\ held'[Len(held) + 1] = e /\ Len(held) \in Nat
        /\ \A i \in 1..Len(held) : held'[i] = held[i]
    BY <1>10, <2>1, <2>2
  <2>4. r = Partial'
    BY <1>3 DEF r, Partial
  <2>5. Earlier(r, v)
    <3>1. r.m = M /\ r.parts = parts'
      BY DEF r, AgentRecord
    <3>2. Grows(v, v)
      BY <1>8, GrowsOn
    <3> QED BY <3>1, <3>2 DEF Earlier, v
  <2>6. ASSUME NEW i \in 1..Len(held) PROVE Earlier(held[i].record, v)
    <3> DEFINE u == getWork(held[i].record.m, held[i].record.parts)
    <3>1. u \in Seq(Rows)
      BY <1>1, <1>2, HeldRecord
    <3>2. Grows(u, w)
      <4>1. held # <<>>
        BY <2>2, <2>6
      <4>2. Earlier(held[i].record, getWork(M, parts))
        BY <1>1, <1>2, <2>6, <4>1 DEF HeldBack
      <4> QED BY <4>2 DEF Earlier, w
    <3> HIDE DEF u
    <3>3. Grows(u, v)
      BY <1>8, <3>1, <3>2, GrowsOn
    <3> QED BY <3>3 DEF Earlier, u
  <2> QED BY <1>10, <2>3, <2>4, <2>5, <2>6
<1>13. Reading' = Longer(Digest(Spoken), v)
  BY <1>1, <1>3, <1>4 DEF Reading, v
<1>14. ASSUME app.misled # "asked"
       PROVE  /\ flush' \in Seq(Chats) /\ Kin(flush, flush') /\ Digest(flush') = Reading'
              /\ Goes(flush', phase', getWork(M', parts'), toolsLeft', Answered')
  <2>1. Goes(flush, phase, w, toolsLeft, Answered) /\ Digest(flush) = Reading
    BY <1>1, <1>14, BusyShows DEF Busy, Right, w
  <2>2. LastIs(flush, "assistant") /\ NewRows(Last(flush)) = w
    BY <1>1, <2>1 DEF Goes
  <2>3. Digest(flush) = Longer(Digest(Spoken), NewRows(Last(flush)))
    BY <1>1, <2>1, <2>2 DEF Reading, w
  <2>4. c = messageFromRecord(r)
    BY DEF c
  <2>5. Grows(NewRows(Last(flush)), c.work)
    BY <1>8, <1>9, <2>2
  <2>6. /\ flush' \in Seq(Chats) /\ Digest(flush') = Longer(Digest(Spoken), c.work) /\ Kin(flush, flush')
        /\ LastIs(flush', "assistant") /\ NewRows(Last(flush')) = c.work
    <3>1. PICK type \in {"message_update", "message_end"} : type = "message_update"
      OBVIOUS
    <3>2. flush' = applyAgentEvent(flush, MessageEvent(type, r))
      BY <1>11, <3>1
    <3> HIDE DEF e
    <3> QED BY <1>2, <1>4, <1>9, <2>2, <2>3, <2>4, <2>5, <3>2, WriteHeard
  <2>7. Goes(flush', phase', v, toolsLeft', Answered')
    BY <1>1, <1>9, <2>6 DEF Goes
  <2> QED BY <1>3, <1>9, <1>13, <2>6, <2>7 DEF v
<1>15. Shows'
  BY <1>1, <1>5, <1>11, <1>14, ShowsHeard DEF Busy
<1> QED BY <1>5, <1>6, <1>12, <1>15 DEF Live

\* The calls of a message, each once.
LEMMA CallsMade ==
  ASSUME parts \in Seq(PartRecords), M \in Nat,
         NEW left, left = Picked([j \in DOMAIN parts |-> <<M, j>>], Calls)
  PROVE  /\ left \in Seq(Slots)
         /\ \A i \in 1..Len(left) :
              left[i][1] = M /\ \E j \in DOMAIN parts : parts[j].kind = "toolCall" /\ left[i] = <<M, j>>
         /\ \A i, k \in 1..Len(left) : left[i] = left[k] => i = k
<1> DEFINE seq == [j \in DOMAIN parts |-> <<M, j>>]
<1>1. seq \in Seq(Slots) /\ DOMAIN parts = 1..Len(parts) /\ Len(parts) \in Nat
  BY DEF Slots
<1>2. \A j \in DOMAIN parts : seq[j] = <<M, j>>
  OBVIOUS
<1>3. left = Picked(seq, Calls) /\ Len(seq) = Len(parts)
  BY <1>1
<1> HIDE DEF seq
<1>4. left \in Seq(Slots) /\ \E e : Taken(seq, Calls, Len(seq), left, e)
  BY <1>1, <1>3, PickedTaken
<1>5. PICK e : Taken(seq, Calls, Len(seq), left, e)
  BY <1>4
<1>6. /\ e \in [1..Len(left) -> Calls \cap (1..Len(parts))]
      /\ \A k, l \in 1..Len(left) : k < l => e[k] < e[l]
      /\ \A k \in 1..Len(left) : left[k] = seq[e[k]]
  BY <1>3, <1>5 DEF Taken
<1>7. \A k \in 1..Len(left) : e[k] \in DOMAIN parts /\ e[k] \in Calls /\ left[k] = <<M, e[k]>>
  BY <1>1, <1>2, <1>6
<1>8. \A k \in 1..Len(left) : parts[e[k]].kind = "toolCall"
  BY <1>7 DEF Calls
<1>9. ASSUME NEW i \in 1..Len(left), NEW k \in 1..Len(left), left[i] = left[k]
      PROVE  i = k
  <2>1. e[i] = e[k] /\ e[i] \in Nat /\ e[k] \in Nat
    BY <1>1, <1>7, <1>9
  <2>2. ~(e[i] < e[k]) /\ ~(e[k] < e[i])
    BY <2>1
  <2>3. ~(i < k) /\ ~(k < i)
    BY <1>6, <2>2
  <2> QED BY <2>3
<1>10. \A i \in 1..Len(left) : left[i][1] = M
  BY <1>7
<1>11. \A i \in 1..Len(left) : \E j \in DOMAIN parts : parts[j].kind = "toolCall" /\ left[i] = <<M, j>>
  <2> TAKE i \in 1..Len(left)
  <2>1. e[i] \in DOMAIN parts /\ parts[e[i]].kind = "toolCall" /\ left[i] = <<M, e[i]>>
    BY <1>7, <1>8
  <2> QED BY <2>1
<1>12. \A i, k \in 1..Len(left) : left[i] = left[k] => i = k
  BY <1>9
<1> QED BY <1>4, <1>10, <1>11, <1>12

\* Rows that the message has are shown when it arrives.
LEMMA RowHeard ==
  ASSUME NEW ms \in Seq(Chats), LastIs(ms, "assistant"), NEW type \in {"message_update", "message_end"},
         NEW r \in AgentRecords, NEW c \in Chats, c = messageFromRecord(r),
         NEW d \in Digests, Digest(ms) = Longer(d, NewRows(Last(ms))),
         Grows(NewRows(Last(ms)), c.work), OwnSlots(c.work),
         NEW new, new = applyAgentEvent(ms, MessageEvent(type, r)),
         NEW row, Continued(row, c.work)
  PROVE  Continued(row, Last(new).work)
<1>1. \A x : Continued(x, c.work) => Continued(x, Last(new).work)
  BY WriteHeard
<1> QED BY <1>1

LEMMA EndMessageLive ==
  ASSUME LInv, IInv', view = "app", NEW stop \in {"stop", "toolUse", "aborted", "error"}, EndMessage(stop)
  PROVE  Live'
<1> DEFINE r == AgentRecord(M, parts, stop)
           c == messageFromRecord(r)
           e == MessageEvent("message_end", r)
           w == getWork(M, parts)
           left == Picked([j \in DOMAIN parts |-> <<M, j>>], Calls)
<1>1. /\ phase = "message" /\ records' = Append(records, r) /\ Receive(<<e>>)
      /\ phase' = IF stop = "toolUse" THEN "tools" ELSE "ended"
      /\ toolsLeft' = IF stop = "toolUse" THEN left ELSE <<>>
      /\ IF stop = "error" THEN Count("troubles") ELSE UNCHANGED counts
      /\ UNCHANGED <<shape, parts, toolRuns, aborting, steers, view, app>>
  BY DEF EndMessage
<1>2. /\ IInv /\ Typed /\ Going /\ Waiting /\ Questions /\ Calling /\ HeldBack
      /\ (app.live <=> phase # "dead") /\ flush \in Seq(Chats)
  BY LiveNow
<1>3. Typed'
  BY DEF IInv
<1>4. /\ counts'.messages = counts.messages /\ counts'.prompts = counts.prompts
      /\ counts.troubles <= counts'.troubles
  <2>1. counts \in Counters
    BY <1>2 DEF Typed
  <2>2. CASE stop = "error"
    BY <1>1, <2>1, <2>2 DEF Count, Counters
  <2>3. CASE stop # "error"
    BY <1>1, <2>1, <2>3 DEF Counters
  <2> QED BY <2>2, <2>3
<1>5. M' = M /\ M \in Nat /\ parts \in Seq(PartRecords) /\ parts' = parts /\ records \in Seq(Records)
  BY <1>1, <1>2, <1>4 DEF M, Typed, Counters
<1>6. /\ r \in AgentRecords /\ c \in Chats /\ c.role = "assistant" /\ c.id = 0
      /\ c.work = w /\ OwnSlots(c.work) /\ w \in Seq(Rows)
      /\ \A t \in DOMAIN c.tools : t \in Slots /\ t[1] = M /\ Known(c.tools[t]) = "unknown"
  <2>1. stop \in Stops /\ r = AgentRecord(M, parts, stop) /\ c = messageFromRecord(r)
    BY DEF Stops
  <2> HIDE DEF r, c
  <2> QED BY <1>2, <1>5, <2>1, UnderWay
<1>7. DOMAIN c.tools = {<<M, j>> : j \in {i \in DOMAIN parts : parts[i].kind = "toolCall"}}
  <2>1. stop \in Stops
    BY DEF Stops
  <2> QED BY <1>5, <2>1, AgentCalls
<1>8. r.role = "assistant" /\ r \in Records
  BY <1>6 DEF AgentRecord, Records
<1>9. c = messageFromRecord(r)
  OBVIOUS
<1> HIDE DEF r, c, w, left
<1>10. Digest(Spoken) \in Digests /\ Spoken \in Seq(Chats)
  BY <1>2, SpokenType
<1>11. Spoken' = Append(Spoken, c)
  <2>1. normalizeMessages(Append(records, r)) = AddRecord(normalizeMessages(records), r)
    BY <1>5, <1>8, Normalized
  <2> QED BY <1>1, <1>8, <1>9, <2>1 DEF AddRecord, Spoken
<1>12. Digest(Spoken') = Longer(Digest(Spoken), c.work)
  <2>1. \A t \in DOMAIN c.tools : Digest(Spoken).tools[t] = "unknown"
    BY <1>1, <1>2, <1>6 DEF Calling
  <2>2. AddChat(Digest(Spoken), c) = Longer(Digest(Spoken), c.work)
    BY <1>6, <1>10, <2>1, AddedRows
  <2> QED BY <1>6, <1>10, <1>11, <2>2, DigestSteps
<1>13. Digest(Spoken').tools = Digest(Spoken).tools
  BY <1>6, <1>10, <1>12, LongerParts
<1>14. LastIs(Spoken', "assistant") /\ Last(Spoken') = c
  BY <1>6, <1>10, <1>11, FrontOfAppend DEF LastIs
<1>15. Kin(Spoken, Spoken')
  BY <1>6, <1>10, <1>11, KinLast
<1>16. Questions' /\ Uttered \subseteq Uttered' /\ SentIds \subseteq SentIds'
  <2>1. view' = "app" /\ app'.sending = app.sending /\ steers' = steers
    BY <1>1
  <2> QED BY <1>4, <1>15, <2>1, QuestionsKept
<1>17. left \in Seq(Slots)
       /\ (\A i \in 1..Len(left) :
              left[i][1] = M /\ \E j \in DOMAIN parts : parts[j].kind = "toolCall" /\ left[i] = <<M, j>>)
       /\ \A i, k \in 1..Len(left) : left[i] = left[k] => i = k
  BY <1>5, CallsMade DEF left
<1>18. \A i \in 1..Len(left) : left[i] \in DOMAIN c.tools /\ left[i] \in Slots
  <2> TAKE i \in 1..Len(left)
  <2>1. PICK j \in DOMAIN parts : parts[j].kind = "toolCall" /\ left[i] = <<M, j>>
    BY <1>17
  <2>2. <<M, j>> \in DOMAIN c.tools
    BY <1>7, <2>1
  <2>3. left[i] \in Slots
    BY <1>17
  <2> QED BY <2>1, <2>2, <2>3
<1>19. phase' = "tools" => toolsLeft' = left
  BY <1>1
<1>20. Calling'
  <2>1. phase' # "message"
    BY <1>1
  <2>2. \A t \in Slots : t[1] > M => Digest(Spoken).tools[t] = "unknown"
    BY <1>2 DEF Calling
  <2>3. \A t \in Slots : t[1] > M' \/ (phase' = "message" /\ t[1] = M') => Digest(Spoken').tools[t] = "unknown"
    BY <1>5, <1>13, <2>1, <2>2
  <2>4. ASSUME phase' = "tools"
        PROVE  /\ \A i \in 1..Len(toolsLeft') :
                    /\ toolsLeft'[i][1] = M' /\ toolsLeft'[i] \in DOMAIN Last(Spoken').tools
                    /\ Digest(Spoken').tools[toolsLeft'[i]] = "unknown"
               /\ \A i, k \in 1..Len(toolsLeft') : toolsLeft'[i] = toolsLeft'[k] => i = k
    <3>1. toolsLeft' = left
      BY <1>19, <2>4
    <3>2. \A i \in 1..Len(left) : Digest(Spoken).tools[left[i]] = "unknown"
      BY <1>1, <1>2, <1>17, <1>18 DEF Calling
    <3> QED BY <1>5, <1>13, <1>14, <1>17, <1>18, <3>1, <3>2
  <2> QED BY <2>3, <2>4 DEF Calling
<1>21. e \in Events /\ ~IsUpdate(e)
  BY <1>6 DEF Events, MessageEvents, MessageTypes, MessageEvent, IsUpdate
<1>22. flush' = applyAgentEvent(flush, e) /\ (messages' = messages \/ messages' = flush') /\ held' = <<>>
  <2>1. Receive(<<e>>) /\ app.live
    BY <1>1, <1>2
  <2> HIDE DEF e
  <2> QED BY <1>2, <1>21, <2>1, Flushed
<1>23. HeldBack'
  BY <1>22 DEF HeldBack
<1>24. ASSUME app.misled # "asked"
       PROVE  /\ flush' \in Seq(Chats) /\ Kin(flush, flush') /\ Digest(flush') = Reading'
              /\ Goes(flush', phase', getWork(M', parts'), toolsLeft', Answered')
  <2>1. Goes(flush, phase, w, toolsLeft, Answered) /\ Digest(flush) = Reading
    BY <1>1, <1>24, BusyShows DEF Busy, Right, w
  <2>2. LastIs(flush, "assistant") /\ NewRows(Last(flush)) = w
    BY <1>1, <2>1 DEF Goes
  <2>3. Digest(flush) = Longer(Digest(Spoken), NewRows(Last(flush)))
    BY <1>1, <2>1, <2>2 DEF Reading, w
  <2>4. Grows(NewRows(Last(flush)), c.work)
    BY <1>6, <2>2, GrowsOn
  <2>5. /\ flush' \in Seq(Chats) /\ Digest(flush') = Longer(Digest(Spoken), c.work) /\ Kin(flush, flush')
        /\ LastIs(flush', "assistant")
        /\ \A row : Continued(row, c.work) => Continued(row, Last(flush').work)
    <3>1. PICK type \in {"message_update", "message_end"} : type = "message_end"
      OBVIOUS
    <3>2. flush' = applyAgentEvent(flush, MessageEvent(type, r))
      BY <1>22, <3>1
    <3> HIDE DEF e
    <3>3. /\ flush' \in Seq(Chats) /\ Digest(flush') = Longer(Digest(Spoken), c.work) /\ Kin(flush, flush')
          /\ LastIs(flush', "assistant")
      BY <1>2, <1>6, <1>9, <1>10, <2>2, <2>3, <2>4, <3>2, WriteHeard
    <3>4. ASSUME NEW row, Continued(row, c.work)
          PROVE  Continued(row, Last(flush').work)
      BY <1>2, <1>6, <1>9, <1>10, <2>2, <2>3, <2>4, <3>2, <3>4, RowHeard
    <3> QED BY <3>3, <3>4
  <2>6. \A i \in 1..Len(left) : Continued(ToolRow(left[i]), Last(flush').work)
    <3> TAKE i \in 1..Len(left)
    <3>1. PICK j \in DOMAIN parts : parts[j].kind = "toolCall" /\ left[i] = <<M, j>>
      BY <1>17
    <3>2. Continued(ToolRow(<<M, j>>), getWork(M, parts))
      BY <1>5, <3>1, GetWorkType
    <3>3. Continued(ToolRow(left[i]), c.work)
      BY <1>6, <3>1, <3>2 DEF w
    <3> QED BY <2>5, <3>3
  <2>7. phase' # "message" /\ (phase' = "tools" => toolsLeft' = left)
    BY <1>1
  <2>8. Goes(flush', phase', getWork(M', parts'), toolsLeft', Answered')
    BY <2>5, <2>6, <2>7 DEF Goes
  <2>9. Reading' = Digest(Spoken')
    BY <2>7 DEF Reading
  <2> QED BY <1>12, <2>5, <2>8, <2>9
<1>25. Shows'
  <2>1. view' = "app" /\ Busy /\ app' = app
    BY <1>1 DEF Busy
  <2> QED BY <1>16, <1>22, <1>24, <2>1, ShowsHeard
<1> QED BY <1>16, <1>20, <1>23, <1>25 DEF Live

\* The call that is made, with the message that made it as the last one that is shown.
LEMMA FirstCall ==
  ASSUME LInv, view = "app", phase = "tools", NEW tool, tool = Head(toolsLeft)
  PROVE  /\ tool \in Slots /\ toolsLeft # <<>> /\ toolsLeft \in Seq(Slots) /\ toolsLeft[1] = tool
         /\ tool \in DOMAIN Last(Spoken).tools /\ LastIs(Spoken, "assistant")
         /\ Digest(Spoken).tools[tool] = "unknown"
         /\ app.misled # "asked" =>
              /\ LastIs(flush, "assistant") /\ Continued(ToolRow(tool), Last(flush).work)
              /\ Digest(flush) = Digest(Spoken)
<1>1. /\ Typed /\ Going /\ Calling
  BY LiveNow
<1>2. toolsLeft \in Seq(Slots) /\ toolsLeft # <<>> /\ LastIs(Spoken, "assistant")
  BY <1>1 DEF Typed, Going, Spoken
<1>3. tool = toolsLeft[1] /\ 1 \in 1..Len(toolsLeft) /\ tool \in Slots
  BY <1>2
<1>4. tool \in DOMAIN Last(Spoken).tools /\ Digest(Spoken).tools[tool] = "unknown"
  BY <1>1, <1>3 DEF Calling
<1>5. ASSUME app.misled # "asked"
      PROVE  /\ LastIs(flush, "assistant") /\ Continued(ToolRow(tool), Last(flush).work)
             /\ Digest(flush) = Digest(Spoken)
  <2>1. Goes(flush, phase, getWork(M, parts), toolsLeft, Answered) /\ Digest(flush) = Reading
    BY <1>5, BusyShows DEF Busy, Right
  <2>2. LastIs(flush, "assistant") /\ Continued(ToolRow(toolsLeft[1]), Last(flush).work)
    BY <1>3, <2>1 DEF Goes
  <2> QED BY <1>3, <2>1, <2>2 DEF Reading
<1> QED BY <1>2, <1>3, <1>4, <1>5

\* A step that adds no record and leaves the agent at its calls.
LEMMA SameCalls ==
  ASSUME LInv, view = "app", records' = records, phase' = phase, toolsLeft' = toolsLeft, parts' = parts,
         counts'.messages = counts.messages
  PROVE  /\ Calling' /\ Reading' = Reading /\ (Answered' <=> Answered)
         /\ getWork(M', parts') = getWork(M, parts) /\ M' = M /\ Spoken' = Spoken /\ Kin(Spoken, Spoken')
<1>1. Calling /\ Typed
  BY LiveNow
<1>2. Spoken' = Spoken /\ Kin(Spoken, Spoken')
  BY <1>1, Steady
<1>3. M' = M
  BY DEF M
<1>4. Calling'
  BY <1>1, <1>2, <1>3 DEF Calling
<1>5. Reading' = Reading /\ (Answered' <=> Answered)
  BY <1>2, <1>3 DEF Reading, Answered, Busy
<1> QED BY <1>2, <1>3, <1>4, <1>5

\* An event of the call under way that does not end it.
LEMMA CallHeard ==
  ASSUME LInv, IInv', view = "app", phase = "tools", NEW type \in ToolTypes, type # "tool_execution_end",
         NEW error \in BOOLEAN, Receive(<<ToolEvent(type, Head(toolsLeft), error)>>),
         UNCHANGED <<records, phase, parts, toolsLeft, steers, counts, view, app>>
  PROVE  Live'
<1> DEFINE tool == Head(toolsLeft)
           e == ToolEvent(type, tool, error)
<1>1. Typed /\ IInv /\ app.live /\ flush \in Seq(Chats) /\ Typed' /\ counts \in Counters
  BY LiveNow DEF IInv, Typed
<1>2. /\ tool \in Slots /\ toolsLeft \in Seq(Slots)
      /\ Digest(Spoken).tools[tool] = "unknown"
      /\ app.misled # "asked" =>
           /\ LastIs(flush, "assistant") /\ Continued(ToolRow(tool), Last(flush).work)
           /\ Digest(flush) = Digest(Spoken)
  BY FirstCall
<1>3. /\ Calling' /\ Reading' = Reading /\ (Answered' <=> Answered) /\ Kin(Spoken, Spoken')
      /\ getWork(M', parts') = getWork(M, parts) /\ Spoken' = Spoken
  BY SameCalls
<1>4. Questions' /\ Uttered \subseteq Uttered' /\ SentIds \subseteq SentIds'
  <2>1. /\ counts'.prompts = counts.prompts /\ counts.troubles <= counts'.troubles
        /\ app'.sending = app.sending /\ steers' = steers /\ view' = "app"
    BY <1>1 DEF Counters
  <2> QED BY <1>3, <2>1, QuestionsKept
<1>5. HeldBack'
  BY DEF HeldBack
<1>6. e \in Events
  BY <1>2, ToolEventType DEF Events
<1>7. flush' = applyAgentEvent(flush, e) /\ (messages' = messages \/ messages' = flush')
  <2>1. Receive(<<e>>)
    OBVIOUS
  <2> HIDE DEF e
  <2> QED BY <1>1, <1>6, <2>1, Flushed
<1> HIDE DEF tool
<1>8. ASSUME app.misled # "asked"
      PROVE  /\ flush' \in Seq(Chats) /\ Kin(flush, flush') /\ Digest(flush') = Reading'
             /\ Goes(flush', phase', getWork(M', parts'), toolsLeft', Answered')
  <2>1. LastIs(flush, "assistant") /\ Continued(ToolRow(tool), Last(flush).work) /\ Digest(flush) = Digest(Spoken)
    BY <1>2, <1>8
  <2>2. Digest(flush).tools[tool] = "unknown"
    BY <1>2, <2>1
  <2>3. /\ flush' \in Seq(Chats) /\ Kin(flush, flush') /\ LastIs(flush', "assistant")
        /\ Last(flush').work = Last(flush).work /\ Digest(flush') = Digest(flush)
    BY <1>1, <1>2, <1>7, <2>1, <2>2, ToolHeard
  <2>4. Goes(flush, phase, getWork(M, parts), toolsLeft, Answered)
    BY <1>8, BusyShows DEF Busy
  <2>5. Goes(flush', phase', getWork(M', parts'), toolsLeft', Answered')
    BY <2>3, <2>4 DEF Goes
  <2>6. Reading' = Digest(Spoken)
    BY <1>3 DEF Reading
  <2> QED BY <2>1, <2>3, <2>5, <2>6
<1>9. Shows'
  <2>1. view' = "app" /\ Busy /\ app' = app
    BY DEF Busy
  <2> QED BY <1>4, <1>7, <1>8, <2>1, ShowsHeard
<1> QED BY <1>3, <1>4, <1>5, <1>9 DEF Live

LEMMA StartToolLive ==
  ASSUME LInv, IInv', view = "app", StartTool
  PROVE  Live'
<1>1. PICK type \in ToolTypes : type = "tool_execution_start"
  BY DEF ToolTypes
<1>2. PICK error \in BOOLEAN : error = FALSE
  OBVIOUS
<1>3. /\ phase = "tools" /\ Receive(<<ToolEvent("tool_execution_start", Head(toolsLeft), FALSE)>>)
      /\ UNCHANGED <<records, phase, parts, toolsLeft, steers, counts, view, app>>
  BY DEF StartTool
<1>4. Receive(<<ToolEvent(type, Head(toolsLeft), error)>>) /\ type # "tool_execution_end"
  BY <1>1, <1>2, <1>3, Zenon
<1> QED BY <1>3, <1>4, CallHeard

LEMMA UpdateToolLive ==
  ASSUME LInv, IInv', view = "app", UpdateTool
  PROVE  Live'
<1>1. PICK type \in ToolTypes : type = "tool_execution_update"
  BY DEF ToolTypes
<1>2. PICK error \in BOOLEAN : error = FALSE
  OBVIOUS
<1>3. /\ phase = "tools" /\ Receive(<<ToolEvent("tool_execution_update", Head(toolsLeft), FALSE)>>)
      /\ UNCHANGED <<records, phase, parts, toolsLeft, steers, counts, view, app>>
  BY DEF UpdateTool, agentVars
<1>4. Receive(<<ToolEvent(type, Head(toolsLeft), error)>>) /\ type # "tool_execution_end"
  BY <1>1, <1>2, <1>3, Zenon
<1> QED BY <1>3, <1>4, CallHeard

LEMMA EndToolLive ==
  ASSUME LInv, IInv', view = "app", NEW error \in BOOLEAN, EndTool(error)
  PROVE  Live'
<1> DEFINE tool == Head(toolsLeft)
           r == ResultRecord(tool, error)
           e == ToolEvent("tool_execution_end", tool, error)
           s == ToolOutcome(error)
<1>1. /\ phase = "tools" /\ records' = Append(records, r) /\ Receive(<<e>>)
      /\ toolsLeft' = Tail(toolsLeft) /\ phase' # "message" /\ phase' \in {"tools", "ended", "turn"}
      /\ UNCHANGED <<shape, parts, aborting, steers, counts, view, app>>
  BY DEF EndTool
<1>2. /\ IInv /\ Typed /\ Calling /\ app.live /\ flush \in Seq(Chats) /\ Typed'
      /\ records \in Seq(Records) /\ counts \in Counters
  BY <1>1, LiveNow DEF IInv, Typed
<1>3. /\ tool \in Slots /\ toolsLeft \in Seq(Slots) /\ toolsLeft # <<>> /\ toolsLeft[1] = tool
      /\ tool \in DOMAIN Last(Spoken).tools /\ LastIs(Spoken, "assistant")
      /\ Digest(Spoken).tools[tool] = "unknown"
      /\ app.misled # "asked" =>
           /\ LastIs(flush, "assistant") /\ Continued(ToolRow(tool), Last(flush).work)
           /\ Digest(flush) = Digest(Spoken)
  BY <1>1, FirstCall
<1>4. r \in ResultRecords /\ r \in Records /\ r.tool = tool /\ r.role = "toolResult" /\ r.error = error
  BY <1>3 DEF ResultRecord, ResultRecords, Records
<1>5. e \in Events /\ ~IsUpdate(e)
  BY <1>3 DEF Events, ToolEvents, ToolTypes, ToolEvent, IsUpdate
<1>6. s \in Outcomes /\ M' = M
  BY <1>1 DEF ToolOutcome, Outcomes, M
<1>7. flush' = applyAgentEvent(flush, e) /\ (messages' = messages \/ messages' = flush') /\ held' = <<>>
  <2>1. Receive(<<e>>)
    BY <1>1
  <2> HIDE DEF e
  <2> QED BY <1>2, <1>5, <2>1, Flushed
<1>8. ToolOutcome(r.error) = s
  BY <1>4
<1> HIDE DEF r, s, tool
<1>9. Spoken \in Seq(StillChats) /\ Digest(Spoken) \in Digests
  BY <1>2, SpokenType
<1>10. Spoken' = attachStoredToolResult(Spoken, r)
  <2>1. normalizeMessages(Append(records, r)) = AddRecord(normalizeMessages(records), r)
    BY <1>2, <1>4, Normalized
  <2> QED BY <1>1, <1>4, <2>1 DEF AddRecord, Spoken
<1>11. /\ Digest(Spoken') = Learn(Digest(Spoken), tool, s)
       /\ Spoken' \in Seq(StillChats) /\ Len(Spoken') = Len(Spoken)
       /\ LastIs(Spoken', "assistant") /\ DOMAIN Last(Spoken').tools = DOMAIN Last(Spoken).tools
       /\ \A i \in 1..Len(Spoken) : /\ Spoken'[i].role = Spoken[i].role /\ Spoken'[i].text = Spoken[i].text
                                    /\ Spoken'[i].id = Spoken[i].id
  BY <1>3, <1>4, <1>8, <1>9, <1>10, Attached
<1>12. Kin(Spoken, Spoken')
  BY <1>11 DEF Kin
<1>13. Questions' /\ Uttered \subseteq Uttered' /\ SentIds \subseteq SentIds'
  <2>1. /\ counts'.prompts = counts.prompts /\ counts.troubles <= counts'.troubles
        /\ app'.sending = app.sending /\ steers' = steers /\ view' = "app"
    BY <1>1, <1>2 DEF Counters
  <2> QED BY <1>12, <2>1, QuestionsKept
<1>14. \A u \in Slots : u # tool => Digest(Spoken').tools[u] = Digest(Spoken).tools[u]
  BY <1>3, <1>6, <1>9, <1>11, LearnParts
<1>15. /\ \A i \in 1..Len(toolsLeft) : /\ toolsLeft[i][1] = M /\ toolsLeft[i] \in DOMAIN Last(Spoken).tools
                                       /\ Digest(Spoken).tools[toolsLeft[i]] = "unknown"
       /\ \A i, k \in 1..Len(toolsLeft) : toolsLeft[i] = toolsLeft[k] => i = k
  BY <1>1, <1>2 DEF Calling
<1>16. \A i \in 1..Len(toolsLeft') :
         /\ i + 1 \in 1..Len(toolsLeft) /\ toolsLeft'[i] = toolsLeft[i + 1] /\ toolsLeft[i + 1] \in Slots
         /\ toolsLeft[i + 1] # tool
  <2>1. Len(toolsLeft') = Len(toolsLeft) - 1 /\ \A i \in 1..Len(toolsLeft') : toolsLeft'[i] = toolsLeft[i + 1]
    BY <1>1, <1>3
  <2>2. \A i \in 1..Len(toolsLeft') : i + 1 \in 1..Len(toolsLeft) /\ toolsLeft[i + 1] \in Slots
    BY <1>3, <2>1
  <2>3. \A i \in 1..Len(toolsLeft') : toolsLeft[i + 1] # tool
    <3> TAKE i \in 1..Len(toolsLeft')
    <3>1. i + 1 \in 1..Len(toolsLeft) /\ 1 \in 1..Len(toolsLeft) /\ i + 1 # 1
      BY <1>3, <2>2
    <3> QED BY <1>3, <1>15, <3>1
  <2> QED BY <2>1, <2>2, <2>3
<1>17. Calling'
  <2>1. \A t \in Slots : t[1] > M' \/ (phase' = "message" /\ t[1] = M') => Digest(Spoken').tools[t] = "unknown"
    <3> SUFFICES ASSUME NEW t \in Slots, t[1] > M
                 PROVE  Digest(Spoken').tools[t] = "unknown"
      BY <1>1, <1>6
    <3>1. M \in Nat /\ tool[1] = M
      BY <1>2, <1>3, <1>15 DEF M, Counters
    <3>2. t # tool
      BY <3>1
    <3>3. Digest(Spoken).tools[t] = "unknown"
      BY <1>2 DEF Calling
    <3> QED BY <1>14, <3>2, <3>3
  <2>2. \A i \in 1..Len(toolsLeft') :
          /\ toolsLeft'[i][1] = M' /\ toolsLeft'[i] \in DOMAIN Last(Spoken').tools
          /\ Digest(Spoken').tools[toolsLeft'[i]] = "unknown"
    BY <1>6, <1>11, <1>14, <1>15, <1>16
  <2>3. ASSUME NEW i \in 1..Len(toolsLeft'), NEW k \in 1..Len(toolsLeft'), toolsLeft'[i] = toolsLeft'[k]
        PROVE  i = k
    <3>1. i + 1 \in 1..Len(toolsLeft) /\ k + 1 \in 1..Len(toolsLeft) /\ toolsLeft[i + 1] = toolsLeft[k + 1]
      BY <1>16, <2>3
    <3>2. i + 1 = k + 1
      BY <1>15, <3>1
    <3> QED BY <3>2
  <2> QED BY <2>1, <2>2, <2>3 DEF Calling
<1>18. HeldBack'
  BY <1>7 DEF HeldBack
<1>19. ASSUME app.misled # "asked"
       PROVE  /\ flush' \in Seq(Chats) /\ Kin(flush, flush') /\ Digest(flush') = Reading'
              /\ Goes(flush', phase', getWork(M', parts'), toolsLeft', Answered')
  <2>1. /\ LastIs(flush, "assistant") /\ Continued(ToolRow(tool), Last(flush).work)
        /\ Digest(flush) = Digest(Spoken) /\ Digest(flush).tools[tool] = "unknown"
    BY <1>3, <1>19
  <2>2. /\ flush' \in Seq(Chats) /\ Kin(flush, flush') /\ LastIs(flush', "assistant")
        /\ Last(flush').work = Last(flush).work /\ Digest(flush') = Learn(Digest(flush), tool, s)
    <3>1. PICK type \in ToolTypes : type = "tool_execution_end"
      BY DEF ToolTypes
    <3>2. flush' = applyAgentEvent(flush, ToolEvent(type, tool, error))
      BY <1>7, <3>1
    <3>3. s = ToolOutcome(error)
      BY DEF s
    <3> HIDE DEF e
    <3> QED BY <1>2, <1>3, <2>1, <3>1, <3>2, <3>3, ToolHeard
  <2>3. Goes(flush, phase, getWork(M, parts), toolsLeft, Answered)
    BY <1>1, <1>19, BusyShows DEF Busy
  <2>4. \A i \in 1..Len(toolsLeft) : Continued(ToolRow(toolsLeft[i]), Last(flush).work)
    BY <1>1, <2>3 DEF Goes
  <2>5. \A i \in 1..Len(toolsLeft') : Continued(ToolRow(toolsLeft'[i]), Last(flush').work)
    BY <1>16, <2>2, <2>4
  <2>6. Goes(flush', phase', getWork(M', parts'), toolsLeft', Answered')
    BY <1>1, <2>2, <2>5 DEF Goes
  <2>7. Reading' = Digest(Spoken')
    BY <1>1 DEF Reading
  <2> QED BY <1>11, <2>1, <2>2, <2>6, <2>7
<1>20. Shows'
  <2>1. view' = "app" /\ Busy /\ app' = app
    BY <1>1 DEF Busy
  <2> QED BY <1>7, <1>13, <1>19, <2>1, ShowsHeard
<1> QED BY <1>13, <1>17, <1>18, <1>20 DEF Live

LEMMA RetryLive ==
  ASSUME LInv, IInv', view = "app", Retry
  PROVE  Live'
<1> DEFINE r == Last(records)
           e == AgentEnd(TRUE, r)
<1>1. /\ phase = "ended" /\ Receive(<<e>>) /\ phase' = "turn"
      /\ UNCHANGED <<records, shape, parts, toolsLeft, toolRuns, aborting, steers, counts, view, app>>
  BY DEF Retry
<1>2. /\ IInv /\ Typed /\ Going /\ Calling /\ app.live /\ flush \in Seq(Chats) /\ Typed' /\ counts \in Counters
  BY <1>1, LiveNow DEF IInv, Typed
<1>3. e \in Events /\ ~IsUpdate(e)
  <2>1. r \in Records
    BY <1>1, <1>2, LastRecord DEF Going, Busy
  <2> QED BY <2>1 DEF Events, EndEvents, AgentEnd, IsUpdate
<1>4. flush' = applyAgentEvent(flush, e) /\ (messages' = messages \/ messages' = flush') /\ held' = <<>>
  <2>1. Receive(<<e>>)
    BY <1>1
  <2> HIDE DEF e
  <2> QED BY <1>2, <1>3, <2>1, Flushed
<1>5. flush' = flush
  BY <1>4, RetryHeard
<1>6. Spoken' = Spoken /\ Kin(Spoken, Spoken') /\ M' = M
  BY <1>1, <1>2, Steady DEF M
<1>7. Questions' /\ Uttered \subseteq Uttered' /\ SentIds \subseteq SentIds'
  <2>1. /\ counts'.prompts = counts.prompts /\ counts.troubles <= counts'.troubles
        /\ app'.sending = app.sending /\ steers' = steers /\ view' = "app"
    BY <1>1, <1>2 DEF Counters
  <2> QED BY <1>6, <2>1, QuestionsKept
<1>8. Calling' /\ HeldBack'
  BY <1>1, <1>2, <1>6 DEF Calling, HeldBack
<1>9. ASSUME app.misled # "asked"
      PROVE  /\ flush' \in Seq(Chats) /\ Kin(flush, flush') /\ Digest(flush') = Reading'
             /\ Goes(flush', phase', getWork(M', parts'), toolsLeft', Answered')
  <2>1. Goes(flush, phase, getWork(M, parts), toolsLeft, Answered) /\ Digest(flush) = Reading
    BY <1>1, <1>9, BusyShows DEF Busy, Right
  <2>2. Kin(flush, flush)
    BY DEF Kin
  <2>3. Answered' <=> Answered
    BY <1>1, <1>6 DEF Answered, Busy
  <2>4. Reading' = Reading
    BY <1>1, <1>6 DEF Reading
  <2>5. Goes(flush, phase', getWork(M', parts'), toolsLeft', Answered')
    BY <1>1, <2>1, <2>3 DEF Goes
  <2> QED BY <1>2, <1>5, <2>1, <2>2, <2>4, <2>5
<1>10. Shows'
  <2>1. view' = "app" /\ Busy /\ app' = app
    BY <1>1 DEF Busy
  <2> QED BY <1>4, <1>7, <1>9, <2>1, ShowsHeard
<1> QED BY <1>7, <1>8, <1>10 DEF Live

LEMMA ReadOnLive ==
  ASSUME LInv, IInv', view = "app", ReadOn
  PROVE  Live'
<1>1. /\ phase = "ended" /\ phase' = "turn"
      /\ UNCHANGED <<records, shape, parts, toolsLeft, toolRuns, aborting, steers, counts, view, messages,
                     held, app, panel>>
  BY DEF ReadOn
<1>2. /\ IInv /\ Typed /\ Calling /\ flush \in Seq(Chats) /\ Typed' /\ counts \in Counters
  BY <1>1, LiveNow DEF IInv, Typed
<1>3. flush' = flush
  BY <1>1 DEF flush
<1>4. Spoken' = Spoken /\ Kin(Spoken, Spoken') /\ M' = M
  BY <1>1, <1>2, Steady DEF M
<1>5. Questions' /\ Uttered \subseteq Uttered' /\ SentIds \subseteq SentIds'
  <2>1. /\ counts'.prompts = counts.prompts /\ counts.troubles <= counts'.troubles
        /\ app'.sending = app.sending /\ steers' = steers /\ view' = "app"
    BY <1>1, <1>2 DEF Counters
  <2> QED BY <1>4, <2>1, QuestionsKept
<1>6. Calling' /\ HeldBack'
  BY <1>1, <1>2, <1>4 DEF Calling, HeldBack
<1>7. ASSUME app.misled # "asked"
      PROVE  /\ flush' \in Seq(Chats) /\ Kin(flush, flush') /\ Digest(flush') = Reading'
             /\ Goes(flush', phase', getWork(M', parts'), toolsLeft', Answered')
  <2>1. Goes(flush, phase, getWork(M, parts), toolsLeft, Answered) /\ Digest(flush) = Reading
    BY <1>1, <1>7, BusyShows DEF Busy, Right
  <2>2. Kin(flush, flush)
    BY DEF Kin
  <2>3. Answered' <=> Answered
    BY <1>1, <1>4 DEF Answered, Busy
  <2>4. Reading' = Reading
    BY <1>1, <1>4 DEF Reading
  <2>5. Goes(flush, phase', getWork(M', parts'), toolsLeft', Answered')
    BY <1>1, <2>1, <2>3 DEF Goes
  <2> QED BY <1>2, <1>3, <2>1, <2>2, <2>4, <2>5
<1>8. Shows'
  <2>1. view' = "app" /\ Busy /\ app' = app /\ messages' = messages
    BY <1>1 DEF Busy
  <2> QED BY <1>5, <1>7, <2>1, ShowsHeard
<1> QED BY <1>5, <1>6, <1>8 DEF Live

\* The agent reads a question whose words nobody has said.
LEMMA QuestionRead ==
  ASSUME LInv, IInv', view = "app", NEW k \in Nat, k \in Uttered', 0 \in SentIds',
         Uttered \subseteq Uttered', SentIds \subseteq SentIds',
         records' = Append(records, Asked(k)), phase \in {"idle", "turn"}, phase' = "turn"
  PROVE  /\ Digest(Spoken') = AddChat(Digest(Spoken), Question(k))
         /\ Reading = Digest(Spoken) /\ Reading' = Digest(Spoken') /\ ~Answered'
         /\ \A i \in 1..Len(Spoken') : Old(Spoken'[i], Uttered', SentIds')
         /\ Calling' /\ HeldBack'
<1> DEFINE c == Question(k)
<1>1. Typed /\ Questions /\ records \in Seq(Records)
  BY LiveNow DEF Typed
<1>2. Spoken \in Seq(Chats) /\ Digest(Spoken) \in Digests
  BY <1>1, SpokenType
<1>3. c \in Chats /\ c.role = "user" /\ c.text = Words(k) /\ c.id = 0 /\ c = messageFromRecord(Asked(k))
  BY AskedIs
<1>4. Asked(k) \in Records /\ Asked(k).role = "user"
  BY AskedType DEF Records, Asked, UserRecord
<1> HIDE DEF c
<1>5. Spoken' = Append(Spoken, c)
  <2>1. normalizeMessages(Append(records, Asked(k))) = AddRecord(normalizeMessages(records), Asked(k))
    BY <1>1, <1>4, Normalized
  <2> QED BY <1>3, <1>4, <2>1 DEF AddRecord, Spoken
<1>6. Digest(Spoken') = AddChat(Digest(Spoken), c)
  BY <1>2, <1>3, <1>5, DigestSteps
<1>7. ASSUME NEW i \in 1..Len(Spoken')
      PROVE  Old(Spoken'[i], Uttered', SentIds')
  <2>1. Spoken'[i] = c \/ (i \in 1..Len(Spoken) /\ Spoken'[i] = Spoken[i])
    BY <1>2, <1>3, <1>5
  <2>2. Old(c, Uttered', SentIds')
    BY <1>3 DEF Old
  <2>3. ASSUME i \in 1..Len(Spoken)
        PROVE  Old(Spoken[i], Uttered', SentIds')
    <3>1. Old(Spoken[i], Uttered, SentIds)
      BY <1>1, <2>3 DEF Questions
    <3> QED BY <3>1, OldGrows
  <2> QED BY <2>1, <2>2, <2>3
<1>8. Calling'
  <2>1. Digest(Spoken').tools = Unknown
    <3>1. AddChat(Digest(Spoken), c) =
            [closed |-> Append(Shut(Digest(Spoken)), TurnOf("user", c.text, c.work, Overlay(Unknown, c.tools))),
             rows |-> <<>>, tools |-> Unknown]
      BY <1>2, <1>3, AddChatFields
    <3>2. AddChat(Digest(Spoken), c).tools = Unknown
      BY <3>1
    <3> QED BY <1>6, <3>2
  <2> QED BY <2>1 DEF Calling, Unknown
<1>9. ~LastIs(Spoken', "assistant")
  BY <1>2, <1>3, <1>5, FrontOfAppend DEF LastIs
<1> QED BY <1>6, <1>7, <1>8, <1>9 DEF c, Reading, Answered, HeldBack

\* And the view hears it, whether it has painted it or not.
LEMMA QuestionShows ==
  ASSUME LInv, IInv', view = "app", NEW k \in Nat, k \notin Uttered, k \in Uttered', 0 \in SentIds',
         Uttered \subseteq Uttered', SentIds \subseteq SentIds',
         records' = Append(records, Asked(k)), phase \in {"idle", "turn"}, phase' = "turn",
         Receive(UserEvents(k)), app'.misled = app.misled,
         app.misled # "asked" =>
           \/ Right(flush, Reading, Uttered, SentIds)
           \/ k \in SentIds' /\ held = <<>> /\ Posed(messages, Reading, Uttered, SentIds, k)
  PROVE  Shows'
<1> DEFINE e == MessageEvent("message_start", Asked(k))
           f == MessageEvent("message_end", Asked(k))
           d == AddChat(Digest(Spoken), Question(k))
           U == Uttered
           I == SentIds
           V == Uttered'
           J == SentIds'
           ms == flush
           new == flush'
<1>1. /\ IInv /\ Typed /\ app.live /\ ms \in Seq(Chats)
  BY LiveNow
<1>2. /\ d = Digest(Spoken') /\ Reading = Digest(Spoken) /\ Reading' = d /\ ~Answered'
  BY QuestionRead
<1>3. Digest(Spoken) \in Digests
  BY <1>1, SpokenType
<1>4. e \in Events /\ f \in Events /\ ~IsUpdate(e) /\ ~IsUpdate(f) /\ Receive(<<e, f>>)
  BY AskedType DEF Events, MessageTypes, MessageEvent, IsUpdate, UserEvents
<1>5. e = MessageEvent("message_start", Asked(k)) /\ f = MessageEvent("message_end", Asked(k))
  OBVIOUS
<1>6. ms = messages \/ held # <<>>
  BY <1>1, Applied DEF flush, Typed
<1> HIDE DEF e, f, d
<1>7. new = applyAgentEvent(applyAgentEvent(ms, e), f) /\ messages' = new /\ held' = <<>>
  BY <1>1, <1>4, FlushedTwo
<1>8. ASSUME app.misled # "asked"
      PROVE  Right(new, d, V, J)
  <2>1. CASE Right(ms, Digest(Spoken), U, I)
    <3> HIDE DEF ms, new, U, I, V, J
    <3>1. k \notin U /\ U \subseteq V /\ I \subseteq J /\ k \in V /\ 0 \in J
      BY DEF U, I, V, J
    <3> QED BY <1>1, <1>3, <1>5, <1>7, <2>1, <3>1, QuestionHeard DEF d
  <2>2. CASE k \in J /\ held = <<>> /\ Posed(messages, Digest(Spoken), U, I, k)
    <3>1. Posed(ms, Digest(Spoken), U, I, k)
      BY <1>6, <2>2
    <3>2. U \subseteq V /\ I \subseteq J /\ k \in V /\ 0 \in J /\ k \in J
      BY <2>2
    <3> HIDE DEF ms, new, U, I, V, J
    <3> DEFINE b == Digest(Spoken)
    <3>3. b \in Digests /\ Posed(ms, b, U, I, k) /\ d = AddChat(b, Question(k))
      BY <1>3, <3>1 DEF d
    <3> HIDE DEF b
    <3>4. Right(ms, AddChat(b, Question(k)), V, J)
      BY <1>1, <3>2, <3>3, PosedReads
    <3>6. new = ms
      BY <1>1, <1>5, <1>7, <3>3, PosedStays
    <3>5. new = ms /\ Right(ms, d, V, J)
      BY <3>3, <3>4, <3>6
    <3> QED BY <3>5
  <2> QED BY <1>2, <1>8, <2>1, <2>2
<1>9. ASSUME app.misled # "asked"
      PROVE  Goes(flush', phase', getWork(M', parts'), toolsLeft', Answered')
  BY <1>2 DEF Goes
<1>10. ASSUME app.misled # "asked", NEW i \in 1..Len(messages')
       PROVE  messages'[i].id \in SentIds'
  BY <1>7, <1>8, <1>10 DEF Right, Old
<1> QED BY <1>2, <1>8, <1>9, <1>10 DEF Shows

LEMMA TakePromptLive ==
  ASSUME LInv, IInv', view = "app", TakePrompt
  PROVE  Live'
<1> DEFINE k == counts.prompts
<1>1. /\ app.sending = "asked" /\ phase = "idle" /\ records' = Append(records, Asked(k)) /\ phase' = "turn"
      /\ Receive(UserEvents(k)) /\ counts' = counts
      /\ UNCHANGED <<shape, parts, toolsLeft, toolRuns, aborting, steers, view>>
  BY DEF TakePrompt, ReadPrompt
<1>2. /\ IInv /\ Typed /\ Questions /\ app.live /\ Shows /\ Typed' /\ counts \in Counters /\ app \in Apps
      /\ steers \in Seq(Nat)
  BY <1>1, LiveNow DEF IInv, Typed
<1>3. app'.sending = "no" /\ app'.misled = app.misled
  BY <1>2 DEF TakePrompt, NewRun, Apps
<1>4. Uttered \subseteq Uttered' /\ SentIds \subseteq SentIds'
  <2>1. /\ counts'.prompts = counts.prompts /\ app'.sending = "no" /\ counts.troubles <= counts'.troubles
        /\ \A j \in 1..Len(steers') : \E i \in 1..Len(steers) : steers'[j] = steers[i]
    BY <1>1, <1>2, <1>3 DEF Counters
  <2> QED BY <1>2, <2>1, SetsGrow
<1>5. k \in Nat /\ k \in 0..k /\ k <= MaxPrompts
  BY <1>2 DEF Counters, Questions
<1>6. k \in Uttered' /\ k \in SentIds'
  BY <1>1, <1>3, <1>5 DEF Uttered, SentIds, Heard, Ids
<1>7. MaxPrompts \in Nat
  BY BoundsAssumption
<1>8. k \notin Uttered
  BY <1>1, <1>5, <1>7 DEF Uttered, Heard, Ids
<1>9. 0 \in SentIds' /\ view' = "app"
  BY <1>1, NoneSentNext
<1>10. /\ \A i \in 1..Len(Spoken') : Old(Spoken'[i], Uttered', SentIds')
       /\ Calling' /\ HeldBack'
  BY <1>1, <1>4, <1>5, <1>6, <1>9, QuestionRead
<1>11. Questions'
  BY <1>1, <1>2, <1>10 DEF Questions
<1>12. Shows'
  <2>1. app.misled # "asked" =>
           \/ Right(flush, Reading, Uttered, SentIds)
           \/ k \in SentIds' /\ held = <<>> /\ Posed(messages, Reading, Uttered, SentIds, k)
    BY <1>2, <1>6 DEF Shows
  <2> HIDE DEF k
  <2> QED BY <1>1, <1>3, <1>4, <1>5, <1>6, <1>8, <1>9, <2>1, QuestionShows
<1> QED BY <1>10, <1>11, <1>12 DEF Live

LEMMA TakeSteerLive ==
  ASSUME LInv, IInv', view = "app", TakeSteer
  PROVE  Live'
<1> DEFINE k == Head(steers)
<1>1. /\ phase = "turn" /\ steers # <<>> /\ records' = Append(records, Asked(k)) /\ phase' = "turn"
      /\ Receive(UserEvents(k)) /\ counts' = counts /\ app' = app /\ steers' = Tail(steers)
      /\ UNCHANGED <<phase, shape, parts, toolsLeft, toolRuns, aborting, view>>
  BY DEF TakeSteer
<1>2. /\ IInv /\ Typed /\ Questions /\ app.live /\ Shows /\ Typed' /\ counts \in Counters /\ app \in Apps
      /\ steers \in Seq(Nat)
  BY <1>1, LiveNow DEF IInv, Typed
<1>3. /\ k = steers[1] /\ 1 \in 1..Len(steers) /\ k \in Nat
      /\ Len(steers') = Len(steers) - 1
      /\ \A i \in 1..Len(steers') : i + 1 \in 1..Len(steers) /\ steers'[i] = steers[i + 1]
  BY <1>1, <1>2
<1>4. Uttered \subseteq Uttered' /\ SentIds \subseteq SentIds'
  <2>1. \A j \in 1..Len(steers') : \E i \in 1..Len(steers) : steers'[j] = steers[i]
    BY <1>3
  <2>2. counts'.prompts = counts.prompts /\ counts.troubles <= counts'.troubles
        /\ (app'.sending = "no" \/ app.sending # "no")
    BY <1>1, <1>2 DEF Counters, Apps
  <2> QED BY <1>2, <2>1, <2>2, SetsGrow
<1>5. MaxPrompts \in Nat /\ MaxPrompts < k /\ k <= MaxPrompts + counts.troubles /\ counts.prompts <= MaxPrompts
      /\ counts.prompts \in Nat
  BY <1>2, <1>3, BoundsAssumption DEF Questions, Counters
<1>6. \A i \in 1..Len(steers') : steers'[i] # k
  <2> TAKE i \in 1..Len(steers')
  <2>1. i + 1 \in 1..Len(steers) /\ i + 1 # 1 /\ steers'[i] = steers[i + 1]
    BY <1>3
  <2> QED BY <1>2, <1>3, <2>1 DEF Questions
<1>7. k \in Uttered'
  BY <1>1, <1>3, <1>5, <1>6 DEF Uttered, Heard
<1>8. k \notin Uttered
  BY <1>3, <1>5 DEF Uttered, Heard, Ids
<1>9. 0 \in SentIds' /\ view' = "app"
  BY <1>1, NoneSentNext
<1>10. /\ \A i \in 1..Len(Spoken') : Old(Spoken'[i], Uttered', SentIds')
       /\ Calling' /\ HeldBack'
  BY <1>1, <1>3, <1>4, <1>7, <1>9, QuestionRead
<1>11. Questions'
  <2>1. counts'.prompts <= MaxPrompts
    BY <1>1, <1>5
  <2>2. \A i \in 1..Len(steers') : MaxPrompts < steers'[i] /\ steers'[i] <= MaxPrompts + counts'.troubles
    BY <1>1, <1>2, <1>3 DEF Questions
  <2>3. ASSUME NEW i \in 1..Len(steers'), NEW j \in 1..Len(steers'), steers'[i] = steers'[j]
        PROVE  i = j
    <3>1. i + 1 \in 1..Len(steers) /\ j + 1 \in 1..Len(steers) /\ steers[i + 1] = steers[j + 1]
      BY <1>3, <2>3
    <3>2. i + 1 = j + 1
      BY <1>2, <3>1 DEF Questions
    <3> QED BY <3>2
  <2> QED BY <1>10, <2>1, <2>2, <2>3 DEF Questions
<1>12. Shows'
  <2>1. app.misled # "asked" => Right(flush, Reading, Uttered, SentIds)
    BY <1>1, BusyShows DEF Busy
  <2> HIDE DEF k
  <2> QED BY <1>1, <1>3, <1>4, <1>7, <1>8, <1>9, <2>1, QuestionShows
<1> QED BY <1>10, <1>11, <1>12 DEF Live

LEMMA SettleLive ==
  ASSUME LInv, IInv', view = "app", Settle
  PROVE  Live'
<1> DEFINE r == Last(records)
           e == AgentEnd(FALSE, r)
<1>1. /\ phase = "ended" \/ phase = "turn"
      /\ Receive(<<e, Settled>>) /\ phase' = "idle" /\ steers' = <<>>
      /\ app' = IF app.live
                  THEN [app EXCEPT !.running = FALSE, !.misled = IF @ = "asked" THEN @ ELSE "no"]
                  ELSE app
      /\ UNCHANGED <<records, shape, parts, toolsLeft, toolRuns, counts, view>>
  BY DEF Settle
<1>2. /\ IInv /\ Typed /\ Going /\ Calling /\ app.live /\ flush \in Seq(Chats) /\ Typed'
      /\ counts \in Counters /\ records \in Seq(Records) /\ records # <<>> /\ app \in Apps
  BY <1>1, LiveNow DEF IInv, Typed, Going, Busy
<1>3. r \in Records /\ Settled \in Events /\ e \in Events /\ ~IsUpdate(e) /\ ~IsUpdate(Settled)
  <2>1. r \in Records
    BY <1>2, LastRecord
  <2>2. Settled \in Events /\ ~IsUpdate(Settled)
    BY DEF Events, Settled, IsUpdate
  <2>3. e \in Events /\ ~IsUpdate(e)
    BY <2>1 DEF Events, EndEvents, AgentEnd, IsUpdate
  <2> QED BY <2>1, <2>2, <2>3
<1>4. flush' = applyAgentEvent(applyAgentEvent(flush, e), Settled) /\ messages' = flush' /\ held' = <<>>
  <2>1. Receive(<<e, Settled>>)
    BY <1>1
  <2> HIDE DEF e
  <2> QED BY <1>2, <1>3, <2>1, FlushedTwo
<1>5. Spoken' = Spoken /\ Kin(Spoken, Spoken') /\ M' = M
  BY <1>1, <1>2, Steady DEF M
<1>6. app'.sending = app.sending /\ (app'.misled # "asked" => app.misled # "asked")
  BY <1>1, <1>2 DEF Apps
<1>7. Questions' /\ Uttered \subseteq Uttered' /\ SentIds \subseteq SentIds'
  <2>1. /\ counts'.prompts = counts.prompts /\ counts.troubles <= counts'.troubles
        /\ steers' = <<>> /\ view' = "app"
    BY <1>1, <1>2 DEF Counters
  <2> QED BY <1>5, <1>6, <2>1, QuestionsKept
<1>8. Calling' /\ HeldBack'
  BY <1>1, <1>2, <1>5 DEF Calling, HeldBack
<1>9. r \in AgentRecords => LastIs(Spoken, "assistant")
  <2>1. records = Append(Front(records), r) /\ Front(records) \in Seq(Records)
    BY <1>2, FrontFacts
  <2> HIDE DEF r
  <2>2. ASSUME r \in AgentRecords
        PROVE  LastIs(normalizeMessages(Append(Front(records), r)), "assistant")
    BY <2>1, <2>2, EndsWithAgent
  <2> QED BY <2>1, <2>2 DEF Spoken
<1>10. r.role = "assistant" => r \in AgentRecords
  BY <1>3 DEF Records, UserRecords, ResultRecords
<1>11. ASSUME app.misled # "asked"
       PROVE  /\ flush' \in Seq(Chats) /\ Kin(flush, flush') /\ Digest(flush') = Reading'
              /\ Goes(flush', phase', getWork(M', parts'), toolsLeft', Answered')
  <2>1. Goes(flush, phase, getWork(M, parts), toolsLeft, Answered) /\ Digest(flush) = Reading
    BY <1>1, <1>11, BusyShows DEF Busy, Right
  <2>2. r.role = "assistant" => LastIs(flush, "assistant")
    BY <1>1, <1>9, <1>10, <2>1 DEF Goes, Answered, Busy
  <2>3. OnlyRuns(flush, {})
    <3>1. Running = {}
      BY <1>1 DEF Running
    <3> QED BY <1>2, <1>11, <3>1, FlushKnown
  <2>4. flush' \in Seq(Chats) /\ AllAlike(flush, flush')
    <3>1. flush' = applyAgentEvent(applyAgentEvent(flush, AgentEnd(FALSE, r)), Settled)
      BY <1>4
    <3> HIDE DEF e, r
    <3> QED BY <1>2, <1>3, <2>2, <2>3, <3>1, SettleHeard
  <2>5. Settles(flush, flush')
    BY <2>4 DEF Settles
  <2>6. Digest(flush') = Digest(flush) /\ Kin(flush, flush')
    BY <1>2, <2>4, <2>5, SettledRight
  <2>7. Goes(flush', phase', getWork(M', parts'), toolsLeft', Answered')
    BY <1>1 DEF Goes, Answered, Busy
  <2>8. Reading' = Reading
    BY <1>1, <1>5 DEF Reading
  <2> QED BY <2>1, <2>4, <2>6, <2>7, <2>8
<1>12. Shows'
  <2>1. view' = "app" /\ Busy
    BY <1>1 DEF Busy
  <2> QED BY <1>4, <1>6, <1>7, <1>11, <2>1, ShowsHeard
<1> QED BY <1>7, <1>8, <1>12 DEF Live

---------------------------------------------------------------------------
(* The steps of the App.                                                   *)

\* A step of the App with the session and the agent as they were.
LEMMA AppLive ==
  ASSUME LInv, IInv', view = "app", view' = "app",
         UNCHANGED <<records, phase, parts, toolsLeft>>, counts'.messages = counts.messages,
         held' = held \/ held' = <<>>
  PROVE  /\ Calling' /\ HeldBack' /\ Reading' = Reading /\ (Answered' <=> Answered) /\ Spoken' = Spoken
         /\ getWork(M', parts') = getWork(M, parts) /\ Kin(Spoken, Spoken')
         /\ Digest(Spoken) \in Digests /\ Reading \in Digests
<1>1. /\ Calling' /\ Reading' = Reading /\ (Answered' <=> Answered)
      /\ getWork(M', parts') = getWork(M, parts) /\ M' = M /\ Spoken' = Spoken /\ Kin(Spoken, Spoken')
  BY SameCalls
<1>2. HeldBack /\ Typed
  BY LiveNow
<1>3. HeldBack'
  BY <1>1, <1>2 DEF HeldBack, Partial
<1>4. Digest(Spoken) \in Digests /\ Reading \in Digests
  BY <1>2, SpokenType
<1> QED BY <1>1, <1>3, <1>4

\* Questions, if those that were read or refused before still are, and no more troubles.
LEMMA QuestionsStay ==
  ASSUME LInv, IInv', view = "app", view' = "app", records' = records,
         Uttered \subseteq Uttered', SentIds \subseteq SentIds',
         counts'.prompts <= MaxPrompts, counts.troubles <= counts'.troubles, steers' = steers
  PROVE  Questions'
<1>1. Typed /\ Questions /\ steers \in Seq(Nat) /\ counts \in Counters /\ counts' \in Counters
  BY LiveNow DEF IInv, Typed
<1>2. Kin(Spoken, Spoken')
  BY <1>1, Steady
<1>3. \A i \in 1..Len(Spoken') : Old(Spoken'[i], Uttered', SentIds')
  BY <1>2, SpokenKin
<1>4. MaxPrompts \in Nat
  BY BoundsAssumption
<1>5. \A i \in 1..Len(steers) : MaxPrompts < steers[i] /\ steers[i] <= MaxPrompts + counts.troubles
  BY <1>1 DEF Questions
<1>6. \A i \in 1..Len(steers') : MaxPrompts < steers'[i] /\ steers'[i] <= MaxPrompts + counts'.troubles
  BY <1>1, <1>4, <1>5 DEF Counters
<1>7. \A i, k \in 1..Len(steers') : steers'[i] = steers'[k] => i = k
  BY <1>1 DEF Questions
<1> QED BY <1>3, <1>6, <1>7 DEF Questions

LEMMA PosedGrows ==
  ASSUME NEW ms, NEW d, NEW U, NEW I, NEW n, Posed(ms, d, U, I, n), NEW V, NEW J, U \subseteq V, I \subseteq J
  PROVE  Posed(ms, d, V, J, n)
<1>1. PICK before \in Seq(Chats), c \in Chats :
        /\ Right(before, d, U, I) /\ Alike(optimisticUserMessage(n, <<0, 0, n>>), c)
        /\ \/ ms = Append(before, c)
           \/ \E b \in Chats : NoAnswer(b) /\ ms = Append(Append(before, c), b)
  BY DEF Posed
<1>2. Right(before, d, V, J)
  BY <1>1, RightGrows
<1> QED BY <1>1, <1>2 DEF Posed

\* The view shows what it showed, with what waited or without it.
LEMMA ShowsOn ==
  ASSUME LInv, IInv', view = "app", view' = "app", UNCHANGED <<records, phase, parts, toolsLeft>>,
         counts'.messages = counts.messages, counts'.prompts = counts.prompts,
         Uttered \subseteq Uttered', SentIds \subseteq SentIds',
         app'.live => app.live, app'.sending = app.sending,
         app'.misled # "asked" => app.misled # "asked",
         \/ messages' = messages /\ held' = held
         \/ messages' = flush /\ held' = <<>>
  PROVE  Shows'
<1>1. Shows /\ flush \in Seq(Chats) /\ messages \in Seq(Chats) /\ IInv /\ Typed
  BY LiveNow
<1>2. flush' = flush
  <2>1. CASE messages' = messages /\ held' = held
    BY <2>1 DEF flush
  <2>2. CASE messages' = flush /\ held' = <<>>
    <3>1. ApplyAll(flush, <<>>) = flush
      BY <1>1, Applied DEF Typed
    <3>2. flush' = ApplyAll(messages', <<>>)
      BY <2>2 DEF flush
    <3> QED BY <2>2, <3>1, <3>2
  <2> QED BY <2>1, <2>2
<1>3. Reading' = Reading /\ (Answered' <=> Answered) /\ getWork(M', parts') = getWork(M, parts)
  <2>1. held' = held \/ held' = <<>>
    OBVIOUS
  <2> QED BY <2>1, AppLive
<1>4. SUFFICES ASSUME app'.live, app'.misled # "asked"
               PROVE  /\ Goes(flush', phase', getWork(M', parts'), toolsLeft', Answered')
                      /\ \/ /\ Right(flush', Reading', Uttered', SentIds')
                            /\ \A i \in 1..Len(messages') : messages'[i].id \in SentIds'
                         \/ /\ app'.sending = "asked" /\ ~Busy' /\ held' = <<>>
                            /\ Posed(messages', Reading', Uttered', SentIds', counts'.prompts)
  BY DEF Shows
<1>5. Goes(flush, phase, getWork(M, parts), toolsLeft, Answered)
  BY <1>1, <1>4 DEF Shows
<1>6. Goes(flush', phase', getWork(M', parts'), toolsLeft', Answered')
  BY <1>2, <1>3, <1>5 DEF Goes
<1>7. CASE /\ Right(flush, Reading, Uttered, SentIds)
           /\ \A i \in 1..Len(messages) : messages[i].id \in SentIds
  <2>1. Right(flush', Reading', Uttered', SentIds')
    BY <1>2, <1>3, <1>7, RightGrows
  <2>2. \A i \in 1..Len(messages') : messages'[i].id \in SentIds'
    <3>1. CASE messages' = messages
      BY <1>7, <3>1
    <3>2. CASE messages' = flush
      BY <1>2, <2>1, <3>2 DEF Right, Old
    <3> QED BY <3>1, <3>2
  <2> QED BY <1>6, <2>1, <2>2
<1>8. CASE /\ app.sending = "asked" /\ ~Busy /\ held = <<>>
           /\ Posed(messages, Reading, Uttered, SentIds, counts.prompts)
  <2>1. flush = messages
    <3>1. ApplyAll(messages, <<>>) = messages
      BY <1>1, Applied DEF Typed
    <3> QED BY <1>8, <3>1 DEF flush
  <2>2. messages' = messages /\ held' = <<>>
    BY <1>8, <2>1
  <2>3. Posed(messages, Reading, Uttered', SentIds', counts.prompts)
    BY <1>8, PosedGrows
  <2>4. ~Busy'
    BY <1>8 DEF Busy
  <2> QED BY <1>3, <1>6, <1>8, <2>2, <2>3, <2>4
<1> QED BY <1>1, <1>4, <1>7, <1>8 DEF Shows

\* A step that leaves the agent, what was asked and what is shown.
LEMMA LiveOn ==
  ASSUME LInv, IInv', view = "app", view' = "app", UNCHANGED <<records, phase, parts, toolsLeft, steers>>,
         counts' = counts \/ Count("troubles"),
         app'.live => app.live, app'.sending = app.sending,
         app'.misled # "asked" => app.misled # "asked",
         \/ messages' = messages /\ held' = held
         \/ messages' = flush /\ held' = <<>>
  PROVE  Live'
<1>1. Typed /\ counts \in Counters /\ Typed'
  BY LiveNow DEF IInv, Typed
<1>2. /\ counts'.messages = counts.messages /\ counts'.prompts = counts.prompts
      /\ counts.troubles <= counts'.troubles
  <2>1. CASE counts' = counts
    BY <1>1, <2>1 DEF Counters
  <2>2. CASE Count("troubles")
    BY <1>1, <2>2 DEF Counters, Count
  <2> QED BY <2>1, <2>2
<1>3. Spoken' = Spoken /\ Kin(Spoken, Spoken')
  BY <1>1, Steady
<1>4. Questions' /\ Uttered \subseteq Uttered' /\ SentIds \subseteq SentIds'
  BY <1>2, <1>3, QuestionsKept
<1>5. Calling' /\ HeldBack'
  <2>1. held' = held \/ held' = <<>>
    OBVIOUS
  <2> QED BY <1>2, <2>1, AppLive
<1>6. Shows'
  BY <1>2, <1>4, ShowsOn
<1> QED BY <1>4, <1>5, <1>6 DEF Live

LEMMA StopLive ==
  ASSUME LInv, IInv', view = "app", Stop
  PROVE  Live'
<1>1. app \in Apps
  BY LiveNow DEF Typed
<1>2. /\ view' = "app" /\ UNCHANGED <<records, phase, parts, toolsLeft, steers>> /\ Count("troubles")
      /\ messages' = flush /\ held' = <<>>
  BY DEF Stop, agentVars, Show
<1>3. app'.live = app.live /\ app'.sending = app.sending /\ app'.misled = app.misled
  BY <1>1 DEF Stop, Apps
<1> QED BY <1>2, <1>3, LiveOn

LEMMA TakeAbortLive ==
  ASSUME LInv, IInv', view = "app", TakeAbort
  PROVE  Live'
<1>1. app \in Apps
  BY LiveNow DEF Typed
<1>2. /\ view' = "app" /\ UNCHANGED <<records, phase, parts, toolsLeft, steers>> /\ counts' = counts
      /\ messages' = messages /\ held' = held
  BY DEF TakeAbort
<1>3. app'.live = app.live /\ app'.sending = app.sending /\ app'.misled = app.misled
  BY <1>1 DEF TakeAbort, Apps
<1> QED BY <1>2, <1>3, LiveOn

LEMMA FrameLive ==
  ASSUME LInv, IInv', view = "app", Frame
  PROVE  Live'
<1>1. /\ view' = "app" /\ UNCHANGED <<records, phase, parts, toolsLeft, steers>> /\ counts' = counts
      /\ app' = app /\ held' = <<>> /\ messages' = IF app.live THEN flush ELSE messages
  BY DEF Frame, agentVars, Show
<1>2. CASE app.live
  BY <1>1, <1>2, LiveOn
<1>3. CASE ~app.live
  <2>1. Typed /\ counts \in Counters
    BY LiveNow DEF Typed
  <2>2. Spoken' = Spoken /\ Kin(Spoken, Spoken')
    BY <1>1, <2>1, Steady
  <2>3. Questions'
    BY <1>1, <2>1, <2>2, QuestionsKept DEF Counters
  <2>4. Calling' /\ HeldBack'
    BY <1>1, AppLive
  <2>5. Shows'
    BY <1>1, <1>3 DEF Shows
  <2> QED BY <2>3, <2>4, <2>5 DEF Live
<1> QED BY <1>2, <1>3

LEMMA SteerLive ==
  ASSUME LInv, IInv', view = "app", Steer
  PROVE  Live'
<1>1. /\ view' = "app" /\ UNCHANGED <<records, phase, parts, toolsLeft, app, messages, held>>
      /\ Count("troubles") /\ steers' = Append(steers, MaxPrompts + counts'.troubles)
  BY DEF Steer
<1>2. Typed /\ Typed' /\ counts \in Counters /\ Questions /\ steers \in Seq(Nat) /\ MaxPrompts \in Nat
  BY LiveNow, BoundsAssumption DEF IInv, Typed
<1>3. /\ counts'.prompts = counts.prompts /\ counts'.messages = counts.messages
      /\ counts'.troubles = counts.troubles + 1 /\ counts.troubles \in Nat
  BY <1>1, <1>2 DEF Count, Counters
<1> DEFINE n == MaxPrompts + counts'.troubles
<1>4. n \in Nat /\ n > MaxPrompts + counts.troubles /\ n > MaxPrompts /\ n <= MaxPrompts + counts'.troubles
  BY <1>2, <1>3
<1>5. steers' = Append(steers, n)
  BY <1>1
<1> HIDE DEF n
<1>6. /\ Len(steers') = Len(steers) + 1 /\ Len(steers) \in Nat
      /\ \A i \in 1..Len(steers') : \/ i = Len(steers) + 1 /\ steers'[i] = n
                                    \/ i \in 1..Len(steers) /\ steers'[i] = steers[i]
  BY <1>2, <1>4, <1>5
<1>7. Uttered \subseteq Uttered' /\ SentIds \subseteq SentIds'
  <2>1. \A k \in 1..Len(steers') : \/ steers'[k] > MaxPrompts + counts.troubles
                                    \/ \E i \in 1..Len(steers) : steers'[k] = steers[i]
    BY <1>4, <1>6
  <2>2. /\ counts'.prompts = counts.prompts /\ (app'.sending = "no" \/ app.sending # "no")
        /\ counts.troubles <= counts'.troubles
    BY <1>1, <1>3
  <2> QED BY <1>2, <2>1, <2>2, SetsGrow
<1>8. \A i \in 1..Len(steers) : MaxPrompts < steers[i] /\ steers[i] <= MaxPrompts + counts.troubles
                                /\ steers[i] \in Nat
  BY <1>2 DEF Questions
<1>9. Questions'
  <2>1. \A i \in 1..Len(steers') : MaxPrompts < steers'[i] /\ steers'[i] <= MaxPrompts + counts'.troubles
    BY <1>2, <1>3, <1>4, <1>6, <1>8
  <2>2. ASSUME NEW i \in 1..Len(steers'), NEW k \in 1..Len(steers'), steers'[i] = steers'[k]
        PROVE  i = k
    <3>1. \A j \in 1..Len(steers) : steers[j] # n
      BY <1>2, <1>3, <1>4, <1>8
    <3>2. \A j, l \in 1..Len(steers) : steers[j] = steers[l] => j = l
      BY <1>2 DEF Questions
    <3> QED BY <1>6, <2>2, <3>1, <3>2
  <2>3. Kin(Spoken, Spoken')
    BY <1>1, <1>2, Steady
  <2>4. \A i \in 1..Len(Spoken') : Old(Spoken'[i], Uttered', SentIds')
    BY <1>1, <1>7, <2>3, SpokenKin
  <2>5. counts'.prompts <= MaxPrompts
    BY <1>2, <1>3 DEF Questions
  <2> QED BY <2>1, <2>2, <2>4, <2>5 DEF Questions
<1>10. Calling' /\ HeldBack'
  BY <1>1, <1>3, AppLive
<1>11. Shows'
  BY <1>1, <1>3, <1>7, ShowsOn
<1> QED BY <1>9, <1>10, <1>11 DEF Live

LEMMA SendMessageLive ==
  ASSUME LInv, IInv', view = "app", SendMessage
  PROVE  Live'
<1> DEFINE n == counts'.prompts
           c == optimisticUserMessage(n, <<0, 0, n>>)
<1>1. /\ view' = "app" /\ UNCHANGED <<records, phase, parts, toolsLeft, steers>>
      /\ app.sending = "no" /\ ~app.running /\ Within("prompts", MaxPrompts) /\ Count("prompts")
      /\ messages' = Append(messages, c)
      /\ held' = IF app.live THEN held ELSE <<>>
  BY DEF SendMessage, agentVars
<1>2. /\ IInv /\ Typed /\ Typed' /\ Questions /\ AppKnows /\ Waiting /\ Shows /\ counts \in Counters
      /\ app \in Apps /\ messages \in Seq(Chats) /\ MaxPrompts \in Nat
      /\ (app.live <=> phase # "dead") /\ phase \in Phases
  BY LiveNow, BoundsAssumption DEF IInv, Typed
<1>3. /\ n = counts.prompts + 1 /\ n \in Nat /\ counts'.messages = counts.messages
      /\ counts'.troubles = counts.troubles /\ counts.troubles \in Nat /\ n <= MaxPrompts
  BY <1>1, <1>2 DEF Count, Counters, Within
<1>4. app'.live = app.live /\ (app'.misled # "asked" => app.misled = "no")
      /\ (app.live => app'.sending = "asked")
  BY <1>2 DEF SendMessage, NewRun, Apps
<1>5. Uttered \subseteq Uttered' /\ SentIds \subseteq SentIds'
  <2>1. counts.troubles <= counts'.troubles /\ counts'.prompts = counts.prompts + 1
    BY <1>3
  <2>2. \A k \in 1..Len(steers') : \E i \in 1..Len(steers) : steers'[k] = steers[i]
    BY <1>1
  <2> QED BY <1>2, <2>1, <2>2, SetsGrow
<1>6. Questions'
  <2>1. /\ records' = records /\ counts'.prompts <= MaxPrompts /\ counts.troubles <= counts'.troubles
        /\ steers' = steers /\ view' = "app"
    BY <1>1, <1>3
  <2> QED BY <1>5, <2>1, QuestionsStay
<1>7. /\ Calling' /\ HeldBack' /\ Reading' = Reading
  BY <1>1, <1>3, AppLive
<1>8. Shows'
  <2>1. SUFFICES ASSUME app.live, app.misled = "no"
                 PROVE  /\ Goes(flush', phase', getWork(M', parts'), toolsLeft', Answered')
                        /\ app'.sending = "asked" /\ ~Busy' /\ held' = <<>>
                        /\ Posed(messages', Reading', Uttered', SentIds', counts'.prompts)
    BY <1>4 DEF Shows
  <2>2. ~Busy
    BY <1>1, <1>2, <2>1 DEF AppKnows
  <2>3. held = <<>> /\ flush = messages
    BY <1>2, <2>2, NothingFits DEF Busy
  <2>4. phase' \notin {"message", "tools"} /\ ~Busy'
    BY <1>1, <2>2 DEF Busy
  <2>5. Goes(flush', phase', getWork(M', parts'), toolsLeft', Answered')
    BY <2>4 DEF Goes, Answered
  <2>6. Right(messages, Reading, Uttered, SentIds)
    <3>1. Right(flush, Reading, Uttered, SentIds)
      BY <1>1, <1>2, <2>1 DEF Shows
    <3> QED BY <2>3, <3>1
  <2>7. Right(messages, Reading', Uttered', SentIds')
    BY <1>5, <1>7, <2>6, RightGrows
  <2>8. c \in Chats /\ Alike(c, c)
    BY <1>3, OptimisticType, AlikeSelf DEF StillChats
  <2>9. Posed(messages', Reading', Uttered', SentIds', n)
    BY <1>1, <1>2, <2>7, <2>8 DEF Posed
  <2>10. app'.sending = "asked" /\ held' = <<>>
    BY <1>1, <1>4, <2>1, <2>3
  <2> QED BY <2>4, <2>5, <2>9, <2>10
<1> QED BY <1>6, <1>7, <1>8 DEF Live

LEMMA AgentStartedLive ==
  ASSUME LInv, IInv', view = "app", AgentStarted
  PROVE  Live'
<1> DEFINE n == counts.prompts
           c == optimisticUserMessage(n, <<0, 0, n>>)
<1>1. /\ view' = "app" /\ UNCHANGED <<records, parts, toolsLeft, steers, counts>>
      /\ app.sending = "starting" /\ phase = "dead" /\ phase' = "idle"
      /\ messages' = Append(Spoken, c) /\ held' = <<>>
  BY DEF AgentStarted, Show, Optimistic, Spoken
<1>2. /\ Typed /\ Typed' /\ Questions /\ Calling /\ counts \in Counters /\ app \in Apps
  BY LiveNow DEF IInv, Typed
<1>3. app'.live /\ app'.sending = "asked" /\ n \in Nat
  BY <1>2 DEF AgentStarted, NewRun, Apps, Counters
<1>4. Uttered \subseteq Uttered' /\ SentIds \subseteq SentIds'
  <2>1. counts.troubles <= counts'.troubles /\ counts'.prompts = counts.prompts /\ app.sending # "no"
    BY <1>1, <1>2 DEF Counters
  <2>2. \A k \in 1..Len(steers') : \E i \in 1..Len(steers) : steers'[k] = steers[i]
    BY <1>1
  <2> QED BY <1>2, <2>1, <2>2, SetsGrow
<1>5. Questions'
  <2>1. /\ records' = records /\ counts'.prompts <= MaxPrompts /\ counts.troubles <= counts'.troubles
        /\ steers' = steers /\ view' = "app"
    BY <1>1, <1>2 DEF Counters, Questions
  <2> QED BY <1>4, <2>1, QuestionsStay
<1>6. Spoken' = Spoken /\ M' = M
  BY <1>1, <1>2, Steady DEF M
<1>7. Calling' /\ HeldBack'
  BY <1>1, <1>2, <1>6 DEF Calling, HeldBack
<1>8. Shows'
  <2>1. ~Busy' /\ Reading' = Digest(Spoken')
    BY <1>1 DEF Busy, Reading
  <2>2. Goes(flush', phase', getWork(M', parts'), toolsLeft', Answered')
    BY <1>1, <2>1 DEF Goes, Answered
  <2>3. Right(Spoken', Digest(Spoken'), Uttered', SentIds')
    BY <1>5 DEF Right, Questions
  <2>4. c \in Chats /\ Alike(c, c)
    BY <1>3, OptimisticType, AlikeSelf DEF StillChats
  <2>5. Spoken' \in Seq(Chats) /\ messages' = Append(Spoken', c)
    BY <1>1, <1>2, <1>6, SpokenType
  <2>6. Posed(messages', Digest(Spoken'), Uttered', SentIds', n)
    BY <2>3, <2>4, <2>5 DEF Posed
  <2>7. counts'.prompts = n
    BY <1>1
  <2> QED BY <1>1, <1>3, <2>1, <2>2, <2>6, <2>7 DEF Shows
<1> QED BY <1>5, <1>7, <1>8 DEF Live

\* The messages but for the one that was painted for the n-th question.
Without(ms, n) == Picked(ms, {i \in DOMAIN ms : ms[i].id # n})

\* What is picked is the whole when every place is.
LEMMA PickedAll ==
  ASSUME NEW S, NEW s \in Seq(S), NEW P, \A i \in 1..Len(s) : i \in P
  PROVE  Picked(s, P) = s
<1> DEFINE p == Picked(s, P)
<1>1. PICK n \in Nat : n = 0
  OBVIOUS
<1>2. \A i \in 1..Len(s) : i \in P <=> i > n
  BY <1>1
<1>3. p \in Seq(S)
  BY <1>2, PickedSuffix
<1>4. Len(p) = IF Len(s) <= n THEN 0 ELSE Len(s) - n
  BY <1>2, PickedSuffix
<1>5. Behind(p, s, n)
  BY <1>2, PickedSuffix
<1> HIDE DEF p
<1>6. Len(p) = Len(s) /\ \A k \in 1..Len(p) : p[k] = s[k]
  BY <1>1, <1>4, <1>5 DEF Behind
<1> QED BY <1>3, <1>6 DEF p

LEMMA WithoutNone ==
  ASSUME NEW ms \in Seq(Chats), NEW n, \A i \in 1..Len(ms) : ms[i].id # n
  PROVE  Without(ms, n) = ms
<1> DEFINE P == {i \in DOMAIN ms : ms[i].id # n}
<1>1. \A i \in 1..Len(ms) : i \in P
  OBVIOUS
<1>2. Without(ms, n) = Picked(ms, P)
  BY DEF Without
<1> HIDE DEF P
<1> QED BY <1>1, <1>2, PickedAll

LEMMA WithoutLast ==
  ASSUME NEW ms \in Seq(Chats), NEW c \in Chats, NEW n
  PROVE  /\ Without(ms, n) \in Seq(Chats)
         /\ Without(Append(ms, c), n) = IF c.id # n THEN Append(Without(ms, n), c) ELSE Without(ms, n)
<1> DEFINE P == {i \in DOMAIN ms : ms[i].id # n}
           Q == {i \in DOMAIN Append(ms, c) : Append(ms, c)[i].id # n}
<1>1. \A i \in 1..Len(ms) : i \in P <=> i \in Q
  OBVIOUS
<1>2. Len(ms) + 1 \in Q <=> c.id # n
  OBVIOUS
<1>3. Without(ms, n) = Picked(ms, P) /\ Without(Append(ms, c), n) = Picked(Append(ms, c), Q)
  BY DEF Without
<1> HIDE DEF P, Q
<1>4. /\ Picked(ms, P) \in Seq(Chats)
      /\ Picked(Append(ms, c), Q) = IF Len(ms) + 1 \in Q THEN Append(Picked(ms, P), c) ELSE Picked(ms, P)
  BY <1>1, PickedAppend
<1> QED BY <1>2, <1>3, <1>4

\* A question that is taken back leaves what was said, if nothing else has its identity.
LEMMA PosedWithout ==
  ASSUME NEW ms \in Seq(Chats), NEW d \in Digests, NEW U, NEW I, NEW n \in Nat, Posed(ms, d, U, I, n),
         n \notin I, 0 \in I
  PROVE  Without(ms, n) \in Seq(Chats) /\ Right(Without(ms, n), d, U, I)
<1>1. PICK before \in Seq(Chats), c \in Chats :
        /\ Right(before, d, U, I) /\ Alike(optimisticUserMessage(n, <<0, 0, n>>), c)
        /\ \/ ms = Append(before, c)
           \/ \E b \in Chats : NoAnswer(b) /\ ms = Append(Append(before, c), b)
  BY DEF Posed
<1>2. c.id = n
  BY <1>1, PaintedIs
<1>3. Without(before, n) = before
  <2>1. \A i \in 1..Len(before) : before[i].id # n
    BY <1>1 DEF Right, Old
  <2> QED BY <2>1, WithoutNone
<1>4. Without(Append(before, c), n) = before /\ Append(before, c) \in Seq(Chats)
  BY <1>2, <1>3, WithoutLast
<1>5. ASSUME NEW b \in Chats, NoAnswer(b), ms = Append(Append(before, c), b)
      PROVE  Without(ms, n) \in Seq(Chats) /\ Right(Without(ms, n), d, U, I)
  <2>1. b.role = "assistant" /\ b.id = 0 /\ Empty(b) /\ b.id # n
    BY <1>5 DEF NoAnswer, Empty
  <2>2. Without(ms, n) = Append(before, b)
    <3> DEFINE asked == Append(before, c)
    <3>1. asked \in Seq(Chats) /\ Without(asked, n) = before /\ ms = Append(asked, b)
      BY <1>4, <1>5
    <3> HIDE DEF asked
    <3>2. Without(Append(asked, b), n) = Append(Without(asked, n), b)
      BY <2>1, <3>1, WithoutLast
    <3> QED BY <3>1, <3>2
  <2>3. AddChat(d, b) = d
    BY <2>1, EmptyAdded
  <2>4. Old(b, U, I)
    BY <2>1 DEF Old
  <2>5. U \subseteq U /\ I \subseteq I
    OBVIOUS
  <2>6. Append(before, b) \in Seq(Chats) /\ Right(Append(before, b), AddChat(d, b), U, I)
    BY <1>1, <2>4, <2>5, RightAppend
  <2> QED BY <2>2, <2>3, <2>6
<1> QED BY <1>1, <1>4, <1>5

LEMMA PromptFailsLive ==
  ASSUME LInv, IInv', view = "app", PromptFails
  PROVE  Live'
<1> DEFINE n == counts.prompts
<1>1. /\ view' = "app" /\ UNCHANGED <<records, phase, parts, toolsLeft, steers, held>>
      /\ app.sending # "no" /\ messages' = Without(messages, n)
      /\ IF phase = "idle" THEN Count("troubles") ELSE UNCHANGED counts
  BY DEF PromptFails, agentVars, WithoutOptimistic, Without
<1>2. /\ IInv /\ Typed /\ Typed' /\ Questions /\ AppKnows /\ Shows /\ counts \in Counters
      /\ app \in Apps /\ messages \in Seq(Chats) /\ messages' \in Seq(Chats) /\ 0 \in SentIds
  BY LiveNow DEF IInv, Typed
<1>3. /\ counts'.prompts = n /\ counts'.messages = counts.messages
      /\ counts.troubles <= counts'.troubles /\ n \in Nat
  <2>1. CASE phase = "idle"
    BY <1>1, <1>2, <2>1 DEF Count, Counters
  <2>2. CASE phase # "idle"
    BY <1>1, <1>2, <2>2 DEF Counters
  <2> QED BY <2>1, <2>2
<1>4. app'.live = app.live /\ app'.sending = "no" /\ (app'.misled # "asked" => app.misled # "asked")
  BY <1>2 DEF PromptFails, Apps
<1>5. Uttered \subseteq Uttered' /\ SentIds \subseteq SentIds'
  <2>1. counts.troubles <= counts'.troubles /\ counts'.prompts = counts.prompts /\ app'.sending = "no"
    BY <1>3, <1>4
  <2>2. \A k \in 1..Len(steers') : \E i \in 1..Len(steers) : steers'[k] = steers[i]
    BY <1>1
  <2> QED BY <1>2, <2>1, <2>2, SetsGrow
<1>6. Questions'
  <2>1. /\ records' = records /\ counts'.prompts <= MaxPrompts /\ counts.troubles <= counts'.troubles
        /\ steers' = steers /\ view' = "app"
    BY <1>1, <1>2, <1>3 DEF Questions
  <2> QED BY <1>5, <2>1, QuestionsStay
<1>7. /\ Calling' /\ HeldBack' /\ Reading' = Reading /\ (Answered' <=> Answered)
      /\ getWork(M', parts') = getWork(M, parts) /\ Reading \in Digests
  BY <1>1, <1>3, AppLive
<1>8. n \notin SentIds
  BY <1>1 DEF SentIds, Ids
<1>9. Shows'
  <2>1. SUFFICES ASSUME app.live, app.misled # "asked"
                 PROVE  /\ Goes(flush', phase', getWork(M', parts'), toolsLeft', Answered')
                        /\ Right(flush', Reading', Uttered', SentIds')
                        /\ \A i \in 1..Len(messages') : messages'[i].id \in SentIds'
    BY <1>4 DEF Shows
  <2>2. Goes(flush, phase, getWork(M, parts), toolsLeft, Answered)
    BY <1>2, <2>1 DEF Shows
  <2>3. CASE /\ Right(flush, Reading, Uttered, SentIds)
             /\ \A i \in 1..Len(messages) : messages[i].id \in SentIds
    <3>1. \A i \in 1..Len(messages) : messages[i].id # n
      BY <1>8, <2>3
    <3>2. messages' = messages
      BY <1>1, <1>2, <3>1, WithoutNone
    <3>3. flush' = flush
      BY <1>1, <3>2 DEF flush
    <3>4. Right(flush', Reading', Uttered', SentIds')
      BY <1>5, <1>7, <2>3, <3>3, RightGrows
    <3>5. Goes(flush', phase', getWork(M', parts'), toolsLeft', Answered')
      BY <1>1, <1>7, <2>2, <3>3 DEF Goes
    <3> QED BY <1>5, <2>3, <3>2, <3>4, <3>5
  <2>4. CASE ~Busy /\ held = <<>> /\ Posed(messages, Reading, Uttered, SentIds, n)
    <3>1. Right(messages', Reading, Uttered, SentIds)
      BY <1>1, <1>2, <1>3, <1>7, <1>8, <2>4, PosedWithout
    <3>2. Right(messages', Reading', Uttered', SentIds')
      BY <1>5, <1>7, <3>1, RightGrows
    <3>3. flush' = messages'
      <4>1. ApplyAll(messages', <<>>) = messages' /\ held' = <<>>
        BY <1>1, <1>2, <2>4, Applied DEF Typed
      <4> QED BY <4>1 DEF flush
    <3>4. Goes(flush', phase', getWork(M', parts'), toolsLeft', Answered')
      BY <1>1, <2>4 DEF Goes, Answered, Busy
    <3>5. \A i \in 1..Len(messages') : messages'[i].id \in SentIds'
      BY <3>2 DEF Right, Old
    <3> QED BY <3>2, <3>3, <3>4, <3>5
  <2> QED BY <1>2, <2>1, <2>3, <2>4 DEF Shows
<1> QED BY <1>6, <1>7, <1>9 DEF Live

---------------------------------------------------------------------------
(* The ends of turns that the App makes.                                   *)
LEMMA RightAlike ==
  ASSUME NEW a \in Seq(Chats), NEW b \in Seq(Chats), AllAlike(a, b), NEW d, NEW U, NEW I, Right(a, d, U, I),
         0 \in I
  PROVE  Right(b, d, U, I)
<1>1. Settles(a, b)
  BY DEF Settles
<1>2. Digest(b) = Digest(a) /\ Kin(a, b)
  BY <1>1, SettledRight
<1>3. U \subseteq U /\ I \subseteq I
  OBVIOUS
<1>4. Right(b, Digest(b), U, I)
  BY <1>2, <1>3, KinRight
<1> QED BY <1>2, <1>4 DEF Right

LEMMA SplitAlike ==
  ASSUME NEW a \in Seq(Chats), NEW x \in Chats, NEW new \in Seq(Chats), AllAlike(Append(a, x), new)
  PROVE  \E b \in Seq(Chats), y \in Chats : new = Append(b, y) /\ AllAlike(a, b) /\ Alike(x, y)
<1> DEFINE s == Append(a, x)
<1>1. /\ s \in Seq(Chats) /\ Len(s) = Len(a) + 1 /\ s[Len(a) + 1] = x /\ Len(a) \in Nat
      /\ \A i \in 1..Len(a) : s[i] = a[i]
  OBVIOUS
<1>2. Len(new) = Len(s) /\ \A i \in 1..Len(s) : Alike(s[i], new[i])
  BY DEF AllAlike
<1> HIDE DEF s
<1>3. new # <<>> /\ Len(new) = Len(a) + 1
  BY <1>1, <1>2
<1>4. /\ Front(new) \in Seq(Chats) /\ Len(Front(new)) = Len(new) - 1
      /\ \A i \in 1..(Len(new) - 1) : Front(new)[i] = new[i]
      /\ Last(new) = new[Len(new)] /\ Last(new) \in Chats
      /\ new = Append(Front(new), Last(new))
  BY <1>3, FrontFacts
<1>5. AllAlike(a, Front(new))
  <2>1. Len(Front(new)) = Len(a)
    BY <1>1, <1>3, <1>4
  <2>2. ASSUME NEW i \in 1..Len(a)
        PROVE  Alike(a[i], Front(new)[i])
    <3>1. i \in 1..Len(s) /\ i \in 1..(Len(new) - 1)
      BY <1>1, <1>3
    <3>2. Alike(s[i], new[i]) /\ s[i] = a[i] /\ Front(new)[i] = new[i]
      BY <1>1, <1>2, <1>4, <3>1
    <3> QED BY <3>2
  <2> QED BY <2>1, <2>2 DEF AllAlike
<1>6. Alike(x, Last(new))
  <2>1. Len(a) + 1 \in 1..Len(s)
    BY <1>1
  <2>2. Alike(s[Len(a) + 1], new[Len(a) + 1])
    BY <1>2, <2>1
  <2> QED BY <1>1, <1>3, <1>4, <2>2
<1> QED BY <1>4, <1>5, <1>6

\* A question that is on its way stays where it is.
LEMMA PosedSettles ==
  ASSUME NEW ms \in Seq(Chats), NEW new \in Seq(Chats), Settles(ms, new), NEW d, NEW U, NEW I, NEW n \in Nat,
         Posed(ms, d, U, I, n), 0 \in I
  PROVE  Posed(new, d, U, I, n)
<1>1. PICK before \in Seq(Chats), c \in Chats :
        /\ Right(before, d, U, I) /\ Alike(optimisticUserMessage(n, <<0, 0, n>>), c)
        /\ \/ ms = Append(before, c)
           \/ \E b \in Chats : NoAnswer(b) /\ ms = Append(Append(before, c), b)
  BY DEF Posed
<1> DEFINE asked == Append(before, c)
<1>2. asked \in Seq(Chats)
  OBVIOUS
<1>3. asked = Append(before, c)
  OBVIOUS
<1> HIDE DEF asked
<1>4. ASSUME NEW now \in Seq(Chats), AllAlike(asked, now)
      PROVE  \E b \in Seq(Chats), y \in Chats :
               now = Append(b, y) /\ Right(b, d, U, I) /\ Alike(optimisticUserMessage(n, <<0, 0, n>>), y)
  <2>1. PICK b \in Seq(Chats), y \in Chats : now = Append(b, y) /\ AllAlike(before, b) /\ Alike(c, y)
    BY <1>3, <1>4, SplitAlike
  <2>2. Right(b, d, U, I)
    BY <1>1, <2>1, RightAlike
  <2>3. Alike(optimisticUserMessage(n, <<0, 0, n>>), y)
    BY <1>1, <2>1, AlikeOn
  <2> QED BY <2>1, <2>2, <2>3
<1>5. ASSUME NEW b \in Chats, NoAnswer(b), ms = Append(asked, b)
      PROVE  Posed(new, d, U, I, n)
  <2>1. ~LastIs(ms, "user")
    <3>1. Last(ms) = b /\ b.role = "assistant"
      BY <1>2, <1>5, FrontOfAppend DEF NoAnswer, Empty
    <3> QED BY <3>1 DEF LastIs
  <2>2. AllAlike(Append(asked, b), new)
    BY <1>5, <2>1 DEF Settles
  <2>3. PICK now \in Seq(Chats), y \in Chats : new = Append(now, y) /\ AllAlike(asked, now) /\ Alike(b, y)
    BY <1>2, <2>2, SplitAlike
  <2>4. PICK front \in Seq(Chats), z \in Chats :
          now = Append(front, z) /\ Right(front, d, U, I) /\ Alike(optimisticUserMessage(n, <<0, 0, n>>), z)
    BY <1>4, <2>3
  <2>5. Alike(b, b) /\ NoAnswer(y)
    BY <1>5, <2>3, AlikeSelf, AlikeOn
  <2>6. new = Append(Append(front, z), y)
    BY <2>3, <2>4
  <2> QED BY <2>4, <2>5, <2>6 DEF Posed
<1>6. CASE ms = asked
  <2>1. CASE AllAlike(ms, new)
    <3>1. PICK front \in Seq(Chats), z \in Chats :
            new = Append(front, z) /\ Right(front, d, U, I) /\ Alike(optimisticUserMessage(n, <<0, 0, n>>), z)
      BY <1>4, <1>6, <2>1
    <3> QED BY <3>1 DEF Posed
  <2>2. ASSUME NEW b \in Chats, NoAnswer(b), new = Append(ms, b)
        PROVE  Posed(new, d, U, I, n)
    <3>1. new = Append(Append(before, c), b)
      BY <1>3, <1>6, <2>2
    <3> QED BY <1>1, <2>2, <3>1 DEF Posed
  <2> QED BY <2>1, <2>2 DEF Settles
<1> QED BY <1>1, <1>3, <1>5, <1>6

\* What is shown goes on where the agent is.
LEMMA GoesSettles ==
  ASSUME NEW ms \in Seq(Chats), NEW new \in Seq(Chats), Settles(ms, new), NEW ph, NEW w, NEW left, NEW agent,
         Goes(ms, ph, w, left, agent)
  PROVE  Goes(new, ph, w, left, agent)
<1>1. CASE LastIs(ms, "user") /\ \E b \in Chats : NoAnswer(b) /\ new = Append(ms, b)
  <2>1. ~LastIs(ms, "assistant")
    BY <1>1 DEF LastIs
  <2>2. ph # "message" /\ ph # "tools" /\ ~agent
    BY <2>1 DEF Goes
  <2> QED BY <2>2 DEF Goes
<1>2. CASE AllAlike(ms, new)
  <2>1. ASSUME LastIs(ms, "assistant")
        PROVE  /\ LastIs(new, "assistant") /\ Last(new).work = Last(ms).work
               /\ NewRows(Last(new)) = NewRows(Last(ms))
    <3>1. ms # <<>> /\ Len(ms) \in Nat \ {0} /\ Last(ms) = ms[Len(ms)] /\ ms[Len(ms)].role = "assistant"
      BY <2>1, LastOf
    <3>2. Len(new) = Len(ms) /\ Alike(ms[Len(ms)], new[Len(ms)]) /\ new # <<>>
      BY <1>2, <3>1 DEF AllAlike
    <3>3. Last(new) = new[Len(ms)]
      BY <3>2 DEF Last
    <3>4. /\ Last(new).role = Last(ms).role /\ Last(new).work = Last(ms).work
          /\ Last(new).workOffset = Last(ms).workOffset
      BY <3>1, <3>2, <3>3 DEF Alike, SameFace
    <3> QED BY <3>1, <3>2, <3>4 DEF LastIs, NewRows, Off
  <2> QED BY <2>1 DEF Goes
<1> QED BY <1>1, <1>2 DEF Settles

\* A call that is shown as running has no result.
LEMMA FlushUnheard ==
  ASSUME LInv, view = "app", app.live, app.misled # "asked"
  PROVE  Unheard(flush)
<1>1. IInv /\ Typed /\ Calling /\ Shows /\ flush \in Seq(Chats)
  BY LiveNow
<1>2. OnlyRuns(flush, Running)
  BY <1>1, FlushKnown
<1>3. SUFFICES ASSUME NEW i \in 1..Len(flush), NEW t \in DOMAIN flush[i].tools,
                      flush[i].tools[t].status = "running"
               PROVE  ~flush[i].tools[t].recorded
  BY DEF Unheard
<1>4. i = Len(flush) /\ t \in Running
  BY <1>2, <1>3 DEF OnlyRuns
<1>5. phase = "tools" /\ t = Head(toolsLeft)
  BY <1>4 DEF Running
<1>6. /\ t \in Slots /\ Digest(Spoken).tools[t] = "unknown"
      /\ LastIs(flush, "assistant") /\ Digest(flush) = Digest(Spoken)
  BY <1>5, FirstCall
<1>7. Last(flush) = flush[i] /\ Last(flush) \in Chats /\ Last(flush).role = "assistant"
  BY <1>1, <1>4, <1>6, LastOf
<1> DEFINE a == flush
           b == Last(flush)
<1>8. DOMAIN b.tools = DOMAIN b.tools \cup {t} /\ b = Last(a) /\ b \in Chats /\ b.role = "assistant"
  BY <1>3, <1>7
<1>9. a \in Seq(Chats) /\ LastIs(a, "assistant") /\ t \in DOMAIN Last(a).tools /\ Digest(a).tools[t] = "unknown"
  BY <1>1, <1>3, <1>6, <1>7
<1> HIDE DEF a, b
<1>10. Digest(a).tools[t] = Known(Last(a).tools[t])
  <2>1. b.work = Last(a).work /\ DOMAIN b.tools = DOMAIN Last(a).tools \cup {t}
        /\ \A u \in DOMAIN Last(a).tools : u # t => Known(b.tools[u]) = Known(Last(a).tools[u])
    BY <1>8
  <2> QED BY <1>6, <1>8, <1>9, <2>1, Learned
<1>11. Known(flush[i].tools[t]) = "unknown"
  BY <1>7, <1>9, <1>10 DEF a
<1> QED BY <1>3, <1>11 DEF Known

\* The App settles the turn that it shows.
LEMMA SettledShows ==
  ASSUME LInv, IInv', view = "app", view' = "app", UNCHANGED <<records, phase, parts, toolsLeft>>,
         counts'.messages = counts.messages, counts'.prompts = counts.prompts,
         Uttered \subseteq Uttered', SentIds \subseteq SentIds',
         app'.live => app.live, app'.sending = app.sending,
         app'.misled # "asked" => app.misled # "asked",
         app.live /\ app.misled # "asked" => Settles(flush, messages'), held' = <<>>
  PROVE  Shows'
<1>1. /\ Shows /\ flush \in Seq(Chats) /\ messages \in Seq(Chats) /\ messages' \in Seq(Chats) /\ IInv /\ Typed
      /\ 0 \in SentIds /\ counts.prompts \in Nat
  BY LiveNow DEF IInv, Typed, Counters
<1>2. flush' = messages'
  <2>1. ApplyAll(messages', <<>>) = messages'
    BY <1>1, Applied DEF Typed
  <2> QED BY <2>1 DEF flush
<1>3. Reading' = Reading /\ (Answered' <=> Answered) /\ getWork(M', parts') = getWork(M, parts)
  BY AppLive
<1>4. SUFFICES ASSUME app.live, app.misled # "asked"
               PROVE  /\ Goes(messages', phase', getWork(M', parts'), toolsLeft', Answered')
                      /\ \/ /\ Right(messages', Reading', Uttered', SentIds')
                            /\ \A i \in 1..Len(messages') : messages'[i].id \in SentIds'
                         \/ /\ app'.sending = "asked" /\ ~Busy' /\ held' = <<>>
                            /\ Posed(messages', Reading', Uttered', SentIds', counts'.prompts)
  BY <1>2 DEF Shows
<1>5. Goes(flush, phase, getWork(M, parts), toolsLeft, Answered) /\ Settles(flush, messages')
  BY <1>1, <1>4 DEF Shows
<1> DEFINE a == flush
           b == messages'
<1>6. a = flush /\ b = messages' /\ a \in Seq(Chats) /\ b \in Seq(Chats) /\ Settles(a, b)
  BY <1>1, <1>5
<1> HIDE DEF a, b
<1>7. Goes(b, phase, getWork(M, parts), toolsLeft, Answered)
  <2>1. Goes(a, phase, getWork(M, parts), toolsLeft, Answered)
    BY <1>5, <1>6
  <2> QED BY <1>6, <2>1, GoesSettles
<1>8. Goes(messages', phase', getWork(M', parts'), toolsLeft', Answered')
  BY <1>3, <1>6, <1>7 DEF Goes
<1>9. CASE Right(flush, Reading, Uttered, SentIds)
  <2>1. Digest(b) = Digest(a) /\ Kin(a, b)
    BY <1>6, SettledRight
  <2>2. Right(a, Reading, Uttered, SentIds) /\ Digest(a) = Reading /\ 0 \in SentIds'
    BY <1>1, <1>6, <1>9 DEF Right
  <2>3. Right(b, Digest(b), Uttered', SentIds')
    BY <1>6, <2>1, <2>2, KinRight
  <2>4. Right(messages', Reading', Uttered', SentIds')
    BY <1>3, <1>6, <2>1, <2>2, <2>3
  <2>5. \A i \in 1..Len(messages') : messages'[i].id \in SentIds'
    BY <2>4 DEF Right, Old
  <2> QED BY <1>8, <2>4, <2>5
<1>10. CASE /\ app.sending = "asked" /\ ~Busy /\ held = <<>>
            /\ Posed(messages, Reading, Uttered, SentIds, counts.prompts)
  <2>1. a = messages
    <3>1. ApplyAll(messages, <<>>) = messages
      BY <1>1, Applied DEF Typed
    <3> QED BY <1>6, <1>10, <3>1 DEF flush
  <2>2. Posed(a, Reading, Uttered, SentIds, counts.prompts)
    BY <1>10, <2>1
  <2>3. Posed(b, Reading, Uttered, SentIds, counts.prompts)
    BY <1>1, <1>6, <2>2, PosedSettles
  <2>4. Posed(b, Reading, Uttered', SentIds', counts.prompts)
    BY <2>3, PosedGrows
  <2>5. ~Busy'
    BY <1>10 DEF Busy
  <2> QED BY <1>3, <1>6, <1>8, <1>10, <2>4, <2>5
<1> QED BY <1>1, <1>4, <1>9, <1>10 DEF Shows

\* A step of the App that settles the turn, with the agent as it was.
LEMMA SettledLive ==
  ASSUME LInv, IInv', view = "app", view' = "app", UNCHANGED <<records, phase, parts, toolsLeft, steers>>,
         counts' = counts \/ Count("troubles"),
         app'.live => app.live, app'.sending = app.sending,
         app'.misled # "asked" => app.misled # "asked",
         app.live /\ app.misled # "asked" => Settles(flush, messages'), held' = <<>>
  PROVE  Live'
<1>1. Typed /\ counts \in Counters
  BY LiveNow DEF Typed
<1>2. /\ counts'.messages = counts.messages /\ counts'.prompts = counts.prompts
      /\ counts.troubles <= counts'.troubles
  <2>1. CASE counts' = counts
    BY <1>1, <2>1 DEF Counters
  <2>2. CASE Count("troubles")
    BY <1>1, <2>2 DEF Counters, Count
  <2> QED BY <2>1, <2>2
<1>3. Spoken' = Spoken /\ Kin(Spoken, Spoken')
  BY <1>1, Steady
<1>4. Questions' /\ Uttered \subseteq Uttered' /\ SentIds \subseteq SentIds'
  BY <1>2, <1>3, QuestionsKept
<1>5. Calling' /\ HeldBack'
  BY <1>2, AppLive
<1>6. Shows'
  BY <1>2, <1>4, SettledShows
<1> QED BY <1>4, <1>5, <1>6 DEF Live

LEMMA AbortAnsweredLive ==
  ASSUME LInv, IInv', view = "app", AbortAnswered
  PROVE  Live'
<1>1. app \in Apps
  BY LiveNow DEF Typed
<1>2. view' = "app" /\ UNCHANGED <<records, phase, parts, toolsLeft, steers>> /\ counts' = counts
  BY DEF AbortAnswered, agentVars
<1>3. app'.live = app.live /\ app'.sending = app.sending /\ app'.misled = app.misled
  BY <1>1 DEF AbortAnswered, Apps
<1>4. CASE messages' = messages /\ held' = held
  BY <1>2, <1>3, <1>4, LiveOn
<1>5. CASE messages' = settleStoppedTurn(flush) /\ held' = <<>>
  <2>1. flush \in Seq(Chats)
    BY LiveNow
  <2>2. app.live /\ app.misled # "asked" => Settles(flush, messages')
    BY <1>5, <2>1, FlushUnheard, SettleFaces
  <2> QED BY <1>2, <1>3, <1>5, <2>2, SettledLive
<1> QED BY <1>4, <1>5 DEF AbortAnswered, Show

LEMMA LineIgnoredLive ==
  ASSUME LInv, IInv', view = "app", LineIgnored
  PROVE  Live'
<1>1. app \in Apps /\ flush \in Seq(Chats)
  BY LiveNow DEF Typed
<1>2. /\ view' = "app" /\ UNCHANGED <<records, phase, parts, toolsLeft, steers>> /\ Count("troubles")
      /\ messages' = failActiveTurn(flush) /\ held' = <<>>
  BY DEF LineIgnored, agentVars, Show
<1>3. app'.live = app.live /\ app'.sending = app.sending /\ (app'.misled # "asked" => app.misled # "asked")
  BY <1>1 DEF LineIgnored, Apps
<1>4. app.live /\ app.misled # "asked" => Settles(flush, messages')
  BY <1>1, <1>2, FlushUnheard, FailFaces
<1> QED BY <1>2, <1>3, <1>4, SettledLive

\* The worker is gone: nothing is shown live.
LEMMA GoneLive ==
  ASSUME LInv, IInv', view = "app", Count("troubles"), app' = Dropped, AgentGone
  PROVE  Live'
<1>1. /\ view' = "app" /\ records' = records /\ phase' = "dead" /\ steers' = <<>>
  BY DEF AgentGone
<1>2. /\ Typed /\ Calling /\ counts \in Counters /\ app \in Apps
  BY LiveNow DEF Typed
<1>3. ~app'.live /\ app'.sending = app.sending
  BY <1>2 DEF Dropped, Apps
<1>4. /\ counts'.messages = counts.messages /\ counts'.prompts = counts.prompts
      /\ counts.troubles <= counts'.troubles
  BY <1>2 DEF Counters, Count
<1>5. Spoken' = Spoken /\ Kin(Spoken, Spoken') /\ M' = M
  BY <1>1, <1>2, <1>4, Steady DEF M
<1>6. Questions'
  BY <1>1, <1>3, <1>4, <1>5, QuestionsKept
<1>7. Calling' /\ HeldBack' /\ Shows'
  BY <1>1, <1>2, <1>3, <1>5 DEF Calling, HeldBack, Shows
<1> QED BY <1>6, <1>7 DEF Live

LEMMA RuntimeStoppedLive ==
  ASSUME LInv, IInv', view = "app", RuntimeStopped
  PROVE  Live'
<1>1. Count("troubles") /\ app' = Dropped /\ AgentGone
  BY DEF RuntimeStopped
<1> QED BY <1>1, GoneLive

LEMMA AgentFailedLive ==
  ASSUME LInv, IInv', view = "app", AgentFailed
  PROVE  Live'
<1>1. Count("troubles") /\ app' = Dropped /\ AgentGone
  BY DEF AgentFailed
<1> QED BY <1>1, GoneLive

LEMMA OpenThreadLive ==
  ASSUME LInv, IInv', view = "app", OpenThread
  PROVE  Live'
<1> DEFINE ms == normalizeMessages(Snapshot)
<1>1. /\ view' = "app" /\ UNCHANGED <<records, phase, parts, toolsLeft, steers>> /\ Count("troubles")
      /\ messages' = ms /\ held' = <<>>
  BY DEF OpenThread, agentVars, Show
<1>2. /\ Typed /\ counts \in Counters /\ app \in Apps /\ 0 \in SentIds
  BY LiveNow DEF Typed
<1>3. app'.sending = app.sending
  BY <1>2 DEF OpenThread, Apps
<1>4. /\ counts'.messages = counts.messages /\ counts'.prompts = counts.prompts
      /\ counts.troubles <= counts'.troubles
  BY <1>1, <1>2 DEF Counters, Count
<1>5. Spoken' = Spoken /\ Kin(Spoken, Spoken')
  BY <1>1, <1>2, Steady
<1>6. Questions' /\ Uttered \subseteq Uttered' /\ SentIds \subseteq SentIds'
  BY <1>1, <1>3, <1>4, <1>5, QuestionsKept
<1>7. /\ Calling' /\ HeldBack' /\ Reading' = Reading /\ (Answered' <=> Answered)
      /\ getWork(M', parts') = getWork(M, parts)
  BY <1>1, <1>4, AppLive
<1>8. /\ ms \in Seq(Chats) /\ Right(ms, Reading, Uttered, SentIds)
      /\ Goes(ms, phase, getWork(M, parts), toolsLeft, Answered)
  BY <1>2, Reloaded
<1> HIDE DEF ms
<1>9. flush' = ms
  <2>1. ApplyAll(ms, <<>>) = ms
    BY <1>2, <1>8, Applied DEF Typed
  <2> QED BY <1>1, <2>1 DEF flush
<1>10. Right(flush', Reading', Uttered', SentIds')
  BY <1>6, <1>7, <1>8, <1>9, RightGrows
<1>11. \A i \in 1..Len(messages') : messages'[i].id \in SentIds'
  BY <1>1, <1>9, <1>10 DEF Right, Old
<1>12. Goes(flush', phase', getWork(M', parts'), toolsLeft', Answered')
  BY <1>1, <1>7, <1>8, <1>9 DEF Goes
<1>13. Shows'
  BY <1>10, <1>11, <1>12 DEF Shows
<1> QED BY <1>6, <1>7, <1>13 DEF Live

---------------------------------------------------------------------------
(* What waited is applied to a transcript that is newer.                   *)
\* One event more is applied.
LEMMA AppliedOn ==
  ASSUME NEW ms \in Seq(Chats), NEW es \in Seq(Events), NEW i \in 0..(Len(es) - 1),
         NEW a, a = ApplyAll(ms, SubSeq(es, 1, i)), NEW b, b = ApplyAll(ms, SubSeq(es, 1, i + 1))
  PROVE  i + 1 \in 1..Len(es) /\ es[i + 1] \in Events /\ b = applyAgentEvent(a, es[i + 1])
<1>1. /\ SubSeq(es, 1, i) \in Seq(Events) /\ es[i + 1] \in Events /\ Len(es) \in Nat
      /\ SubSeq(es, 1, i + 1) = Append(SubSeq(es, 1, i), es[i + 1])
  BY Beginnings
<1> DEFINE s == SubSeq(es, 1, i)
           e == es[i + 1]
<1>2. s \in Seq(Events) /\ e \in Events /\ a = ApplyAll(ms, s) /\ b = ApplyAll(ms, Append(s, e))
  BY <1>1
<1>3. i + 1 \in 1..Len(es)
  BY <1>1
<1> HIDE DEF s, e
<1>4. b = applyAgentEvent(a, e)
  BY <1>2, Applied
<1> QED BY <1>2, <1>3, <1>4 DEF e

\* The last message has its rows, whose texts may be earlier ones for a while.
Late(ms, d, w, U, I) ==
  /\ ms \in Seq(Chats) /\ LastIs(ms, "assistant")
  /\ Digest(ms) = Longer(d, NewRows(Last(ms)))
  /\ Grows(NewRows(Last(ms)), w) /\ Len(NewRows(Last(ms))) = Len(w)
  /\ \A j \in 1..Len(ms) : Old(ms[j], U, I)

LEMMA LateStep ==
  ASSUME NEW ms, NEW d \in Digests, NEW w \in Seq(Rows), OwnSlots(w), NEW U, NEW I, 0 \in I,
         Late(ms, d, w, U, I), NEW r \in AgentRecords, NEW c \in Chats, c = messageFromRecord(r),
         Grows(c.work, w), NEW type \in MessageTypes, type = "message_update",
         NEW new, new = applyAgentEvent(ms, MessageEvent(type, r))
  PROVE  Late(new, d, w, U, I) /\ (c.work = w => NewRows(Last(new)) = w)
<1>1. /\ ms \in Seq(Chats) /\ LastIs(ms, "assistant")
      /\ Digest(ms) = Longer(d, NewRows(Last(ms)))
      /\ Grows(NewRows(Last(ms)), w) /\ Len(NewRows(Last(ms))) = Len(w)
      /\ \A j \in 1..Len(ms) : Old(ms[j], U, I)
  BY DEF Late
<1>2. new = applyAgentEvent(ms, MessageEvent("message_update", r))
  OBVIOUS
<1>3. /\ new \in Seq(Chats) /\ Kin(ms, new) /\ LastIs(new, "assistant")
      /\ Digest(new) = Longer(d, NewRows(Last(new)))
      /\ Grows(NewRows(Last(new)), w) /\ Len(NewRows(Last(new))) = Len(w)
      /\ c.work = w => NewRows(Last(new)) = w
  BY <1>1, <1>2, LateHeard
<1>4. U \subseteq U /\ I \subseteq I
  OBVIOUS
<1>5. \A j \in 1..Len(new) : Old(new[j], U, I)
  BY <1>1, <1>3, <1>4, KinOld
<1> QED BY <1>3, <1>5 DEF Late

\* The states of the message that waited, of which the last one is all of it.
LEMMA LateAll ==
  ASSUME NEW ms, NEW d \in Digests, NEW w \in Seq(Rows), OwnSlots(w), NEW U, NEW I, 0 \in I,
         Late(ms, d, w, U, I), NewRows(Last(ms)) = w, NEW es \in Seq(Events),
         \A i \in 1..Len(es) : /\ es[i].record \in AgentRecords
                               /\ es[i] = MessageEvent("message_update", es[i].record)
                               /\ Grows(messageFromRecord(es[i].record).work, w),
         es # <<>> => messageFromRecord(es[Len(es)].record).work = w
  PROVE  LET new == ApplyAll(ms, es)
         IN  Late(new, d, w, U, I) /\ NewRows(Last(new)) = w
<1> DEFINE At(i) == ApplyAll(ms, SubSeq(es, 1, i))
           Good(i) == /\ Late(At(i), d, w, U, I)
                      /\ i = 0 \/ i = Len(es) => NewRows(Last(At(i))) = w
           S == {i \in 0..Len(es) : Good(i)}
<1>1. ms \in Seq(Chats) /\ Len(es) \in Nat /\ SubSeq(es, 1, 0) = <<>> /\ SubSeq(es, 1, Len(es)) = es
  BY Beginnings DEF Late
<1>2. At(0) = ms /\ At(Len(es)) = ApplyAll(ms, es)
  BY <1>1, Applied
<1>3. 0 \in S
  BY <1>1, <1>2
<1>4. ASSUME NEW i \in 0..(Len(es) - 1), i \in S
      PROVE  i + 1 \in S
  <2> DEFINE a == At(i)
             b == At(i + 1)
             r == es[i + 1].record
             c == messageFromRecord(r)
  <2>1. Late(a, d, w, U, I)
    BY <1>4
  <2>2. a = ApplyAll(ms, SubSeq(es, 1, i)) /\ b = ApplyAll(ms, SubSeq(es, 1, i + 1))
    OBVIOUS
  <2> HIDE DEF a, b
  <2>3. i + 1 \in 1..Len(es) /\ b = applyAgentEvent(a, es[i + 1])
    BY <1>1, <2>2, AppliedOn
  <2>4. r \in AgentRecords /\ es[i + 1] = MessageEvent("message_update", r) /\ Grows(c.work, w)
    BY <2>3
  <2>5. c = messageFromRecord(r) /\ c \in Chats
    BY <2>4, FromRecordType DEF StillChats
  <2>6. PICK type \in MessageTypes : type = "message_update"
    BY DEF MessageTypes
  <2>7. b = applyAgentEvent(a, MessageEvent(type, r))
    BY <2>3, <2>4, <2>6
  <2>8. i + 1 = Len(es) => c.work = w
    BY <2>3
  <2> HIDE DEF r, c
  <2>9. Late(b, d, w, U, I) /\ (c.work = w => NewRows(Last(b)) = w)
    BY <2>1, <2>4, <2>5, <2>6, <2>7, LateStep
  <2>10. i + 1 \in 0..Len(es) /\ i + 1 # 0
    BY <1>1
  <2>11. Good(i + 1)
    BY <2>8, <2>9, <2>10 DEF b
  <2> QED BY <2>10, <2>11
<1> HIDE DEF S
<1>5. \A i \in 0..Len(es) : i \in S
  BY <1>1, <1>3, <1>4, UpTo
<1>6. Len(es) \in S
  BY <1>1, <1>5
<1>7. Good(Len(es))
  BY <1>6 DEF S
<1> QED BY <1>2, <1>7

\* The call goes on: nothing of it is known yet.
OnCall(ms, d, work, U, I) ==
  /\ ms \in Seq(Chats) /\ LastIs(ms, "assistant") /\ Digest(ms) = d /\ Last(ms).work = work
  /\ \A j \in 1..Len(ms) : Old(ms[j], U, I)

LEMMA OnCallStep ==
  ASSUME NEW ms, NEW d \in Digests, NEW work, NEW U, NEW I, 0 \in I, OnCall(ms, d, work, U, I),
         NEW tool \in Slots, Continued(ToolRow(tool), work), d.tools[tool] = "unknown",
         NEW type \in ToolTypes, type # "tool_execution_end", NEW error \in BOOLEAN,
         NEW new, new = applyAgentEvent(ms, ToolEvent(type, tool, error))
  PROVE  OnCall(new, d, work, U, I)
<1>1. /\ ms \in Seq(Chats) /\ LastIs(ms, "assistant") /\ Digest(ms) = d /\ Last(ms).work = work
      /\ \A j \in 1..Len(ms) : Old(ms[j], U, I)
  BY DEF OnCall
<1>2. Continued(ToolRow(tool), Last(ms).work) /\ Digest(ms).tools[tool] = "unknown"
  BY <1>1
<1>3. /\ new \in Seq(Chats) /\ Kin(ms, new) /\ LastIs(new, "assistant")
      /\ Last(new).work = Last(ms).work /\ Digest(new) = Digest(ms)
  BY <1>1, <1>2, ToolHeard
<1>4. U \subseteq U /\ I \subseteq I
  OBVIOUS
<1>5. \A j \in 1..Len(new) : Old(new[j], U, I)
  BY <1>1, <1>3, <1>4, KinOld
<1> QED BY <1>1, <1>3, <1>5 DEF OnCall

LEMMA OnCallAll ==
  ASSUME NEW ms, NEW d \in Digests, NEW work, NEW U, NEW I, 0 \in I, OnCall(ms, d, work, U, I),
         NEW tool \in Slots, Continued(ToolRow(tool), work), d.tools[tool] = "unknown",
         NEW es \in Seq(Events),
         \A i \in 1..Len(es) : \E error \in BOOLEAN : es[i] = ToolEvent("tool_execution_update", tool, error)
  PROVE  OnCall(ApplyAll(ms, es), d, work, U, I)
<1> DEFINE At(i) == ApplyAll(ms, SubSeq(es, 1, i))
           S == {i \in 0..Len(es) : OnCall(At(i), d, work, U, I)}
<1>1. ms \in Seq(Chats) /\ Len(es) \in Nat /\ SubSeq(es, 1, 0) = <<>> /\ SubSeq(es, 1, Len(es)) = es
  BY Beginnings DEF OnCall
<1>2. At(0) = ms /\ At(Len(es)) = ApplyAll(ms, es)
  BY <1>1, Applied
<1>3. 0 \in S
  BY <1>1, <1>2
<1>4. ASSUME NEW i \in 0..(Len(es) - 1), i \in S
      PROVE  i + 1 \in S
  <2> DEFINE a == At(i)
             b == At(i + 1)
  <2>1. OnCall(a, d, work, U, I)
    BY <1>4
  <2>2. a = ApplyAll(ms, SubSeq(es, 1, i)) /\ b = ApplyAll(ms, SubSeq(es, 1, i + 1))
    OBVIOUS
  <2> HIDE DEF a, b
  <2>3. i + 1 \in 1..Len(es) /\ b = applyAgentEvent(a, es[i + 1])
    BY <1>1, <2>2, AppliedOn
  <2>4. PICK error \in BOOLEAN : es[i + 1] = ToolEvent("tool_execution_update", tool, error)
    BY <2>3
  <2>5. PICK type \in ToolTypes : type = "tool_execution_update"
    BY DEF ToolTypes
  <2>6. b = applyAgentEvent(a, ToolEvent(type, tool, error)) /\ type # "tool_execution_end"
    BY <2>3, <2>4, <2>5
  <2>7. OnCall(b, d, work, U, I)
    BY <2>1, <2>5, <2>6, OnCallStep
  <2>8. i + 1 \in 0..Len(es)
    BY <1>1
  <2> QED BY <2>7, <2>8 DEF b
<1> HIDE DEF S
<1>5. \A i \in 0..Len(es) : i \in S
  BY <1>1, <1>3, <1>4, UpTo
<1>6. Len(es) \in S
  BY <1>1, <1>5
<1> QED BY <1>2, <1>6 DEF S

\* What waits, applied to the transcript as it is opened again.
LEMMA Replayed ==
  ASSUME LInv, view = "app", NEW ms, ms = normalizeMessages(Snapshot), NEW new, new = ApplyAll(ms, held)
  PROVE  /\ Right(new, Reading, Uttered, SentIds)
         /\ Goes(new, phase, getWork(M, parts), toolsLeft, Answered)
         /\ \A i \in 1..Len(ms) : ms[i].id \in SentIds
<1>1. /\ IInv /\ Typed /\ Waiting /\ Going /\ HeldBack /\ 0 \in SentIds /\ held \in Seq(Events)
  BY LiveNow DEF Typed
<1>2. /\ ms \in Seq(Chats) /\ Right(ms, Reading, Uttered, SentIds)
      /\ Goes(ms, phase, getWork(M, parts), toolsLeft, Answered)
  BY <1>1, Reloaded
<1>3. Digest(ms) = Reading /\ \A i \in 1..Len(ms) : Old(ms[i], Uttered, SentIds)
  BY <1>2 DEF Right
<1>4. \A i \in 1..Len(ms) : ms[i].id \in SentIds
  BY <1>3 DEF Old
<1>5. /\ Digest(Spoken) \in Digests /\ getWork(M, parts) \in Seq(Rows) /\ OwnSlots(getWork(M, parts))
      /\ Reading \in Digests /\ M \in Nat
  BY <1>1, SpokenType
<1> DEFINE w == getWork(M, parts)
           U == Uttered
           I == SentIds
           d == Digest(Spoken)
           es == held
<1>6. CASE phase = "message"
  <2>1. LastIs(ms, "assistant") /\ NewRows(Last(ms)) = w
    BY <1>2, <1>6 DEF Goes
  <2>2. Reading = Longer(d, w)
    BY <1>6 DEF Reading
  <2>3. Grows(w, w)
    BY <1>5, GrowsOn
  <2>4. Late(ms, d, w, U, I)
    BY <1>2, <1>3, <2>1, <2>2, <2>3 DEF Late
  <2>5. ASSUME NEW i \in 1..Len(es)
        PROVE  /\ es[i].record \in AgentRecords
               /\ es[i] = MessageEvent("message_update", es[i].record)
               /\ Grows(messageFromRecord(es[i].record).work, w)
               /\ i = Len(es) => messageFromRecord(es[i].record).work = w
    <3>1. /\ es[i] = MessageEvent("message_update", es[i].record) /\ es[i].record \in AgentRecords
      BY <1>1, <1>6, HeldRecord
    <3>2. Grows(getWork(es[i].record.m, es[i].record.parts), w)
      BY <1>1, <1>6 DEF HeldBack, Earlier
    <3>3. messageFromRecord(es[i].record).work = getWork(es[i].record.m, es[i].record.parts)
      <4> DEFINE r == es[i].record
      <4>1. r = AgentRecord(r.m, r.parts, r.stop) /\ r.m \in Nat /\ r.parts \in Seq(PartRecords) /\ r.stop \in Stops
        BY <3>1 DEF AgentRecord, AgentRecords
      <4> HIDE DEF r
      <4>2. messageFromRecord(r).work = getWork(r.m, r.parts)
        BY <4>1, AgentChat
      <4> QED BY <4>2 DEF r
    <3>4. ASSUME i = Len(es)
          PROVE  messageFromRecord(es[i].record).work = w
      <4>1. es[i].record = Partial
        BY <1>1, <1>6, <3>4 DEF HeldBack
      <4>2. Partial.m = M /\ Partial.parts = parts
        BY DEF Partial, AgentRecord
      <4> QED BY <3>3, <4>1, <4>2
    <3> QED BY <3>1, <3>2, <3>3, <3>4
  <2>6. es \in Seq(Events) /\ (es # <<>> => messageFromRecord(es[Len(es)].record).work = w)
    BY <1>1, <2>5
  <2>7. new = ApplyAll(ms, es) /\ Reading = Longer(d, w) /\ 0 \in I /\ d \in Digests /\ w \in Seq(Rows) /\ OwnSlots(w)
    BY <1>1, <1>5, <2>2
  <2> HIDE DEF w, U, I, d, es
  <2>8. Late(new, d, w, U, I) /\ NewRows(Last(new)) = w
    BY <2>1, <2>4, <2>5, <2>6, <2>7, LateAll
  <2>9. LastIs(new, "assistant") /\ Digest(new) = Longer(d, w) /\ \A j \in 1..Len(new) : Old(new[j], U, I)
    BY <2>8 DEF Late
  <2>10. Right(new, Reading, Uttered, SentIds)
    BY <2>7, <2>9 DEF Right, U, I
  <2>11. Goes(new, phase, getWork(M, parts), toolsLeft, Answered)
    BY <1>6, <2>8, <2>9 DEF Goes, w
  <2> QED BY <1>4, <2>10, <2>11
<1>7. CASE phase = "tools" /\ toolRuns
  <2> DEFINE tool == Head(toolsLeft)
             work == Last(ms).work
  <2>1. tool \in Slots /\ d.tools[tool] = "unknown" /\ toolsLeft[1] = tool /\ 1 \in 1..Len(toolsLeft)
    <3>1. toolsLeft \in Seq(Slots) /\ toolsLeft # <<>> /\ toolsLeft[1] = tool /\ tool \in Slots
          /\ Digest(Spoken).tools[tool] = "unknown"
      BY <1>7, FirstCall
    <3> QED BY <3>1
  <2>2. /\ LastIs(ms, "assistant")
        /\ \A i \in 1..Len(toolsLeft) : Continued(ToolRow(toolsLeft[i]), work)
    BY <1>2, <1>7 DEF Goes
  <2>3. Continued(ToolRow(tool), work) /\ Reading = d
    BY <1>7, <2>1, <2>2 DEF Reading
  <2>4. OnCall(ms, d, work, U, I)
    BY <1>2, <1>3, <2>2, <2>3 DEF OnCall
  <2>5. ASSUME NEW i \in 1..Len(es)
        PROVE  \E error \in BOOLEAN : es[i] = ToolEvent("tool_execution_update", tool, error)
    <3>1. es[i] \in Events /\ es[i].type = "tool_execution_update" /\ es[i].tool = tool
      BY <1>1, <1>7 DEF Waiting, Fits
    <3>2. es[i] \in ToolEvents
      BY <3>1 DEF Events, MessageEvents, MessageTypes, EndEvents, Settled
    <3>3. es[i] = [type |-> es[i].type, tool |-> es[i].tool, error |-> es[i].error] /\ es[i].error \in BOOLEAN
      BY <3>2 DEF ToolEvents
    <3>4. es[i] = ToolEvent("tool_execution_update", tool, es[i].error)
      BY <3>1, <3>3 DEF ToolEvent
    <3> QED BY <3>3, <3>4
  <2>6. new = ApplyAll(ms, es) /\ 0 \in I /\ d \in Digests /\ es \in Seq(Events)
    BY <1>1, <1>5
  <2> HIDE DEF U, I, d, es, tool, work
  <2>7. OnCall(new, d, work, U, I)
    BY <2>1, <2>3, <2>4, <2>5, <2>6, OnCallAll
  <2>8. /\ LastIs(new, "assistant") /\ Digest(new) = d /\ Last(new).work = work
        /\ \A j \in 1..Len(new) : Old(new[j], U, I)
    BY <2>7 DEF OnCall
  <2>9. Right(new, Reading, Uttered, SentIds)
    BY <2>3, <2>8 DEF Right, U, I
  <2>10. Goes(new, phase, getWork(M, parts), toolsLeft, Answered)
    BY <1>7, <2>2, <2>8 DEF Goes
  <2> QED BY <1>4, <2>9, <2>10
<1>8. CASE phase # "message" /\ ~(phase = "tools" /\ toolRuns)
  <2>1. held = <<>>
    BY <1>1, <1>8, NothingFits
  <2>2. ApplyAll(ms, <<>>) = ms
    BY <1>1, <1>2, Applied
  <2> QED BY <1>2, <1>4, <2>1, <2>2
<1> QED BY <1>6, <1>7, <1>8

LEMMA ResyncLive ==
  ASSUME LInv, IInv', view = "app", Resync
  PROVE  Live'
<1> DEFINE ms == normalizeMessages(Snapshot)
           new == ApplyAll(ms, held)
<1>1. /\ view' = "app" /\ UNCHANGED <<records, phase, parts, toolsLeft, steers>> /\ Count("troubles")
      /\ messages' = ms /\ held' = held
  BY DEF Resync, agentVars
<1>2. /\ Typed /\ counts \in Counters /\ app \in Apps
  BY LiveNow DEF Typed
<1>3. app'.sending = app.sending
  BY <1>2 DEF Resync, Apps
<1>4. /\ counts'.messages = counts.messages /\ counts'.prompts = counts.prompts
      /\ counts.troubles <= counts'.troubles
  BY <1>1, <1>2 DEF Counters, Count
<1>5. Spoken' = Spoken /\ Kin(Spoken, Spoken')
  BY <1>1, <1>2, Steady
<1>6. Questions' /\ Uttered \subseteq Uttered' /\ SentIds \subseteq SentIds'
  BY <1>1, <1>3, <1>4, <1>5, QuestionsKept
<1>7. /\ Calling' /\ HeldBack' /\ Reading' = Reading /\ (Answered' <=> Answered)
      /\ getWork(M', parts') = getWork(M, parts)
  BY <1>1, <1>4, AppLive
<1>8. flush' = new
  BY <1>1 DEF flush
<1>9. ms = normalizeMessages(Snapshot) /\ new = ApplyAll(ms, held)
  OBVIOUS
<1> HIDE DEF ms, new
<1>10. /\ Right(new, Reading, Uttered, SentIds)
       /\ Goes(new, phase, getWork(M, parts), toolsLeft, Answered)
       /\ \A i \in 1..Len(ms) : ms[i].id \in SentIds
  BY <1>9, Replayed
<1>11. Right(flush', Reading', Uttered', SentIds')
  BY <1>6, <1>7, <1>8, <1>10, RightGrows
<1>12. \A i \in 1..Len(messages') : messages'[i].id \in SentIds'
  BY <1>1, <1>6, <1>10
<1>13. Goes(flush', phase', getWork(M', parts'), toolsLeft', Answered')
  BY <1>1, <1>7, <1>8, <1>10 DEF Goes
<1>14. Shows'
  BY <1>11, <1>12, <1>13 DEF Shows
<1> QED BY <1>6, <1>7, <1>14 DEF Live

---------------------------------------------------------------------------
(* The specification: the view reads as the session in every behaviour.    *)
LEMMA InitLive ==
  ASSUME Init
  PROVE  LInv
<1>1. IInv /\ Typed
  BY InitIInv DEF IInv
<1>2. /\ records = <<>> /\ phase = "idle" /\ steers = <<>> /\ counts.prompts = 0
      /\ messages = <<>> /\ held = <<>>
  BY DEF Init
<1>3. Spoken = <<>> /\ Digest(Spoken) = Blank
  <2>1. Spoken = <<>>
    BY <1>1, <1>2, Normalized DEF Spoken, Typed
  <2>2. Spoken \in Seq(Chats)
    BY <1>1, SpokenType
  <2> QED BY <2>1, <2>2, DigestSteps
<1>4. Questions
  BY <1>2, <1>3, BoundsAssumption DEF Questions
<1>5. Calling /\ HeldBack
  BY <1>2, <1>3 DEF Calling, HeldBack, Blank, Unknown
<1>6. flush = <<>> /\ Reading = Digest(<<>>) /\ ~Busy
  <2>1. ApplyAll(messages, <<>>) = messages
    BY <1>1, Applied DEF Typed
  <2> QED BY <1>2, <1>3, <2>1 DEF flush, Reading, Busy
<1>7. Shows
  <2>1. Right(flush, Reading, Uttered, SentIds)
    BY <1>6 DEF Right
  <2>2. Goes(flush, phase, getWork(M, parts), toolsLeft, Answered)
    BY <1>2, <1>6 DEF Goes, Answered
  <2> QED BY <1>2, <2>1, <2>2 DEF Shows
<1> QED BY <1>1, <1>4, <1>5, <1>7 DEF LInv, Live

LEMMA AgentLive ==
  ASSUME LInv, IInv', view = "app", Agent
  PROVE  Live'
<1>1. CASE TakePrompt
  BY <1>1, TakePromptLive
<1>2. CASE TakeSteer
  BY <1>2, TakeSteerLive
<1>3. CASE Write
  BY <1>3, WriteLive
<1>4. CASE StartTool
  BY <1>4, StartToolLive
<1>5. CASE UpdateTool
  BY <1>5, UpdateToolLive
<1>6. CASE Retry
  BY <1>6, RetryLive
<1>7. CASE ReadOn
  BY <1>7, ReadOnLive
<1>8. CASE Settle
  BY <1>8, SettleLive
<1>9. ASSUME NEW s \in Shapes, StartMessage(s)
      PROVE  Live'
  BY <1>9, StartMessageLive
<1>10. ASSUME NEW stop \in {"stop", "toolUse", "aborted", "error"}, EndMessage(stop)
       PROVE  Live'
  BY <1>10, EndMessageLive
<1>11. ASSUME NEW error \in BOOLEAN, EndTool(error)
       PROVE  Live'
  BY <1>11, EndToolLive
<1> QED BY <1>1, <1>2, <1>3, <1>4, <1>5, <1>6, <1>7, <1>8, <1>9, <1>10, <1>11 DEF Agent

LEMMA AppStepLive ==
  ASSUME LInv, IInv', view = "app", App
  PROVE  Live'
<1>1. CASE SendMessage
  BY <1>1, SendMessageLive
<1>2. CASE AgentStarted
  BY <1>2, AgentStartedLive
<1>3. CASE PromptFails
  BY <1>3, PromptFailsLive
<1>4. CASE Steer
  BY <1>4, SteerLive
<1>5. CASE Stop
  BY <1>5, StopLive
<1>6. CASE TakeAbort
  BY <1>6, TakeAbortLive
<1>7. CASE AbortAnswered
  BY <1>7, AbortAnsweredLive
<1>8. CASE RuntimeStopped
  BY <1>8, RuntimeStoppedLive
<1>9. CASE AgentFailed
  BY <1>9, AgentFailedLive
<1>10. CASE LineIgnored
  BY <1>10, LineIgnoredLive
<1>11. CASE OpenThread
  BY <1>11, OpenThreadLive
<1>12. CASE Resync
  BY <1>12, ResyncLive
<1> QED BY <1>1, <1>2, <1>3, <1>4, <1>5, <1>6, <1>7, <1>8, <1>9, <1>10, <1>11, <1>12 DEF App

\* The App has no panel of a child.
LEMMA NoPanel ==
  ASSUME AppKnows, view = "app"
  PROVE  ~Panel
<1>1. ~panel.over /\ panel.read = "no"
  BY DEF AppKnows
<1>2. ~OpenPanel /\ ~ChildPrompted /\ ~DelegationEnds
  BY DEF OpenPanel, ChildPrompted, DelegationEnds
<1>3. ~ReadFile /\ ~Loaded /\ ~ReadFails /\ ~ChildContinued /\ ~Reconciled
  BY <1>1 DEF ReadFile, Loaded, ReadFails, ChildContinued, Reconciled
<1> QED BY <1>2, <1>3 DEF Panel

LEMMA ViewStays ==
  ASSUME [Next]_vars
  PROVE  view' = view
<1>1. CASE Agent
  <2>1. CASE TakePrompt \/ TakeSteer \/ Write \/ StartTool \/ UpdateTool \/ Retry \/ ReadOn \/ Settle
    BY <2>1 DEF TakePrompt, ReadPrompt, TakeSteer, Write, StartTool, UpdateTool, Retry, ReadOn, Settle
  <2>2. ASSUME NEW s \in Shapes, StartMessage(s)
        PROVE  view' = view
    BY <2>2 DEF StartMessage
  <2>3. ASSUME NEW stop \in {"stop", "toolUse", "aborted", "error"}, EndMessage(stop)
        PROVE  view' = view
    BY <2>3 DEF EndMessage
  <2>4. ASSUME NEW error \in BOOLEAN, EndTool(error)
        PROVE  view' = view
    BY <2>4 DEF EndTool
  <2> QED BY <1>1, <2>1, <2>2, <2>3, <2>4 DEF Agent
<1>2. CASE App
  <2>1. CASE SendMessage \/ AgentStarted \/ PromptFails \/ Steer \/ Stop \/ TakeAbort
    BY <2>1 DEF SendMessage, AgentStarted, PromptFails, Steer, Stop, TakeAbort
  <2>2. CASE AbortAnswered \/ RuntimeStopped \/ AgentFailed \/ LineIgnored \/ OpenThread \/ Resync
    BY <2>2 DEF AbortAnswered, RuntimeStopped, AgentFailed, AgentGone, LineIgnored, OpenThread, Resync
  <2> QED BY <1>2, <2>1, <2>2 DEF App
<1>3. CASE Panel
  <2>1. CASE OpenPanel \/ ReadFile \/ Loaded \/ ReadFails
    BY <2>1 DEF OpenPanel, ReadFile, Loaded, ReadFails
  <2>2. CASE ChildPrompted \/ ChildContinued \/ DelegationEnds \/ Reconciled
    BY <2>2 DEF ChildPrompted, ReadPrompt, ChildContinued, DelegationEnds, Reconciled
  <2> QED BY <1>3, <2>1, <2>2 DEF Panel
<1>4. CASE Frame
  BY <1>4 DEF Frame
<1>5. CASE UNCHANGED vars
  BY <1>5 DEF vars
<1> QED BY <1>1, <1>2, <1>3, <1>4, <1>5 DEF Next

LEMMA NextLive ==
  ASSUME LInv, [Next]_vars
  PROVE  LInv'
<1>1. IInv
  BY DEF LInv
<1>2. IInv'
  BY <1>1, NextStep
<1>3. ASSUME view' = "app"
      PROVE  Live'
  <2>1. view = "app"
    BY <1>3, ViewStays
  <2>2. AppKnows
    BY <1>1 DEF IInv
  <2>3. CASE Agent
    BY <1>2, <2>1, <2>3, AgentLive
  <2>4. CASE App
    BY <1>2, <2>1, <2>4, AppStepLive
  <2>5. CASE Panel
    BY <2>1, <2>2, <2>5, NoPanel
  <2>6. CASE Frame
    BY <1>2, <2>1, <2>6, FrameLive
  <2>7. CASE UNCHANGED vars
    <3>1. /\ UNCHANGED <<records, phase, parts, toolsLeft, steers>> /\ counts' = counts /\ app' = app
          /\ messages' = messages /\ held' = held
      BY <2>7 DEF vars, agentVars
    <3> QED BY <1>2, <1>3, <2>1, <3>1, LiveOn
  <2> QED BY <2>3, <2>4, <2>5, <2>6, <2>7 DEF Next
<1> QED BY <1>2, <1>3 DEF LInv

LEMMA LiveReads ==
  ASSUME LInv
  PROVE  LiveIsReload
<1> SUFFICES ASSUME view = "app", app.live, held = <<>>, app.misled # "asked"
             PROVE  Presentation(Sent) = Presentation(normalizeMessages(Snapshot))
  BY DEF LiveIsReload
<1> DEFINE ms == normalizeMessages(Snapshot)
           n == counts.prompts
<1>1. /\ Typed /\ Shows /\ AppKnows /\ messages \in Seq(Chats) /\ 0 \in SentIds /\ n \in Nat
  BY LiveNow DEF Typed, Counters
<1>2. ms \in Seq(Chats) /\ Digest(ms) = Reading /\ Reading \in Digests
  BY <1>1, Reloaded, SpokenType
<1>3. Presentation(ms) = Shut(Reading)
  BY <1>2, Presents
<1>4. flush = messages
  <2>1. ApplyAll(messages, <<>>) = messages
    BY <1>1, Applied DEF Typed
  <2> QED BY <2>1 DEF flush
<1>5. Sent = IF app.sending = "no" THEN messages ELSE Without(messages, n)
  BY DEF Sent, WithoutOptimistic, Without
<1>6. app.sending # "no" => n \notin SentIds
  BY DEF SentIds, Ids
<1>7. Sent \in Seq(Chats) /\ Digest(Sent) = Reading
  <2>1. CASE /\ Right(flush, Reading, Uttered, SentIds)
             /\ \A i \in 1..Len(messages) : messages[i].id \in SentIds
    <3>1. Digest(messages) = Reading
      BY <1>4, <2>1 DEF Right
    <3>2. CASE app.sending = "no"
      BY <1>1, <1>5, <3>1, <3>2
    <3>3. CASE app.sending # "no"
      <4>1. \A i \in 1..Len(messages) : messages[i].id # n
        BY <1>6, <2>1, <3>3
      <4>2. Without(messages, n) = messages
        BY <1>1, <4>1, WithoutNone
      <4> QED BY <1>1, <1>5, <3>1, <3>3, <4>2
    <3> QED BY <3>2, <3>3
  <2>2. CASE app.sending = "asked" /\ Posed(messages, Reading, Uttered, SentIds, n)
    <3>1. Without(messages, n) \in Seq(Chats) /\ Right(Without(messages, n), Reading, Uttered, SentIds)
      BY <1>1, <1>2, <1>6, <2>2, PosedWithout
    <3> QED BY <1>5, <2>2, <3>1 DEF Right
  <2> QED BY <1>1, <2>1, <2>2 DEF Shows
<1>8. Presentation(Sent) = Shut(Reading)
  BY <1>7, Presents
<1> QED BY <1>3, <1>8

\* LiveIsReload: what the App shows live is what it would show if the thread were opened
\* again, the same turns with the same rows, texts and recorded outcomes, whatever was stopped,
\* refused, steered, reopened or resynchronised before (conversation.ts applyAgentEvent
\* against normalizeMessages, App.tsx, stream-scheduler.ts).
THEOREM LiveShows == Spec => []LiveIsReload
<1>1. Init => LInv
  BY InitLive
<1>2. LInv /\ [Next]_vars => LInv'
  BY NextLive
<1>3. LInv => LiveIsReload
  BY LiveReads
<1> QED BY <1>1, <1>2, <1>3, PTL DEF Spec
=============================================================================
