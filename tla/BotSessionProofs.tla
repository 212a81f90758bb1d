------------------------- MODULE BotSessionProofs -------------------------
(***************************************************************************)
(* Theorems about BotSession for every number of questions and every even  *)
(* limit of the history and of the context.                                *)
(***************************************************************************)
EXTENDS BotSession, SequenceTheorems, TLAPS

-----------------------------------------------------------------------------
(***************************************************************************)
(* Lists.                                                                  *)
(***************************************************************************)

\* LTRIM and history[-n:] keep the n last elements, in their order.
LEMMA LastOfProperties ==
  ASSUME NEW S, NEW s \in Seq(S), NEW n \in Nat
  PROVE  /\ LastOf(s, n) \in Seq(S)
         /\ Len(LastOf(s, n)) = IF Len(s) <= n THEN Len(s) ELSE n
         /\ \A i \in 1..Len(LastOf(s, n)) :
              /\ Len(s) - Len(LastOf(s, n)) + i \in 1..Len(s)
              /\ LastOf(s, n)[i] = s[Len(s) - Len(LastOf(s, n)) + i]
<1>1. Len(s) \in Nat
  BY LenProperties
<1>2. CASE Len(s) <= n
  BY <1>1, <1>2 DEF LastOf
<1>3. CASE ~(Len(s) <= n)
  <2>1. \A i \in Len(s) - n + 1 .. Len(s) : s[i] \in S
    BY <1>1, <1>3, ElementOfSeq
  <2>2. LastOf(s, n) = SubSeq(s, Len(s) - n + 1, Len(s))
    BY <1>3 DEF LastOf
  <2>3. /\ LastOf(s, n) \in Seq(S)
        /\ Len(LastOf(s, n)) = IF Len(s) - n + 1 <= Len(s) THEN Len(s) - (Len(s) - n + 1) + 1 ELSE 0
        /\ \A i \in 1 .. Len(s) - (Len(s) - n + 1) + 1 :
             LastOf(s, n)[i] = s[Len(s) - n + 1 + i - 1]
    BY <1>1, <2>1, <2>2, SubSeqProperties
  <2>4. Len(LastOf(s, n)) = n
    BY <1>1, <1>3, <2>3
  <2>5. QED
    BY <1>1, <1>3, <2>3, <2>4
<1>4. QED
  BY <1>2, <1>3

\* Parity.
LEMMA EvenPlus ==
  ASSUME NEW a \in Nat, NEW b \in Nat, a % 2 = 0
  PROVE  (a + b) % 2 = 0 <=> b % 2 = 0
OBVIOUS

\* The difference of two even numbers is even.
LEMMA EvenMinus ==
  ASSUME NEW a \in Nat, NEW b \in Nat, a % 2 = 0, b % 2 = 0, b <= a
  PROVE  a - b \in Nat /\ (a - b) % 2 = 0
OBVIOUS

\* Even and odd numbers alternate.
LEMMA EvenNext ==
  ASSUME NEW a \in Nat, a % 2 = 0
  PROVE  (a + 1) % 2 # 0 /\ (a + 2) % 2 = 0
OBVIOUS

\* Halves of even numbers.
LEMMA EvenHalf ==
  ASSUME NEW a \in Nat, a % 2 = 0
  PROVE  /\ a \div 2 \in Nat
         /\ 2 * (a \div 2) = a
         /\ (a + 2) \div 2 = (a \div 2) + 1
OBVIOUS

\* A question and its answer are a turn.
LEMMA TurnProperties ==
  ASSUME NEW r \in Requests, NEW t \in Seq(Chunks \cup Errors)
  PROVE  /\ Turn(r, t) \in Seq(Messages)
         /\ Len(Turn(r, t)) = 2
         /\ Turn(r, t)[1] = [role |-> "user", of |-> r, text |-> <<>>]
         /\ Turn(r, t)[2] = [role |-> "assistant", of |-> r, text |-> t]
BY DEF Turn, Messages

\* What WholeTurns says of one place.
LEMMA TurnAt ==
  ASSUME NEW s, WholeTurns(s), NEW i \in 1..Len(s)
  PROVE  /\ IsAnswer(s[i]) <=> i % 2 = 0
         /\ IsAnswer(s[i]) => s[i].of = s[i - 1].of
BY DEF WholeTurns

\* Whole turns stay whole when a turn is added.
LEMMA TurnAdded ==
  ASSUME NEW s \in Seq(Messages), WholeTurns(s),
         NEW r \in Requests, NEW t \in Seq(Chunks \cup Errors)
  PROVE  /\ s \o Turn(r, t) \in Seq(Messages)
         /\ Len(s \o Turn(r, t)) = Len(s) + 2
         /\ WholeTurns(s \o Turn(r, t))
<1> DEFINE v == Turn(r, t)
           u == s \o v
<1>1. /\ v \in Seq(Messages)
      /\ Len(v) = 2
      /\ v[1] = [role |-> "user", of |-> r, text |-> <<>>]
      /\ v[2] = [role |-> "assistant", of |-> r, text |-> t]
  BY TurnProperties
<1>2. Len(s) \in Nat /\ Len(s) % 2 = 0
  BY LenProperties DEF WholeTurns
<1> HIDE DEF v
<1>3. /\ u \in Seq(Messages)
      /\ Len(u) = Len(s) + Len(v)
      /\ \A i \in 1 .. Len(s) + Len(v) : u[i] = IF i <= Len(s) THEN s[i] ELSE v[i - Len(s)]
  BY <1>1, ConcatProperties
<1>4. /\ Len(u) = Len(s) + 2
      /\ \A i \in 1..Len(s) : u[i] = s[i]
      /\ u[Len(s) + 1] = v[1]
      /\ u[Len(s) + 2] = v[2]
  BY <1>1, <1>2, <1>3
<1> HIDE DEF u
<1>5. ASSUME NEW i \in 1..Len(u)
      PROVE  /\ IsAnswer(u[i]) <=> i % 2 = 0
             /\ IsAnswer(u[i]) => u[i].of = u[i - 1].of
  <2>1. CASE i \in 1..Len(s)
    <3>1. u[i] = s[i]
      BY <1>4, <2>1
    <3>2. (IsAnswer(s[i]) <=> i % 2 = 0) /\ (IsAnswer(s[i]) => s[i].of = s[i - 1].of)
      BY <2>1, TurnAt
    <3>3. i % 2 = 0 => i - 1 \in 1..Len(s)
      BY <1>2, <2>1
    <3>4. i % 2 = 0 => u[i - 1] = s[i - 1]
      BY <1>4, <3>3
    <3>5. QED
      BY <3>1, <3>2, <3>4
  <2>2. CASE i = Len(s) + 1
    <3>1. u[i] = [role |-> "user", of |-> r, text |-> <<>>]
      BY <1>1, <1>4, <2>2
    <3>2. i % 2 # 0
      BY <1>2, <2>2, EvenNext
    <3>3. QED
      BY <3>1, <3>2 DEF IsAnswer
  <2>3. CASE i = Len(s) + 2
    <3>1. u[i] = [role |-> "assistant", of |-> r, text |-> t]
      BY <1>1, <1>4, <2>3
    <3>2. i - 1 = Len(s) + 1
      BY <1>2, <2>3
    <3>3. u[i - 1] = [role |-> "user", of |-> r, text |-> <<>>]
      BY <1>1, <1>4, <3>2
    <3>4. i % 2 = 0
      BY <1>2, <2>3, EvenNext
    <3>5. QED
      BY <3>1, <3>3, <3>4 DEF IsAnswer
  <2>4. i \in 1..Len(s) \/ i = Len(s) + 1 \/ i = Len(s) + 2
    BY <1>2, <1>4
  <2>5. QED
    BY <2>1, <2>2, <2>3, <2>4
<1>6. Len(u) % 2 = 0
  BY <1>2, <1>4, EvenNext
<1>7. WholeTurns(u)
  BY <1>5, <1>6 DEF WholeTurns
<1>8. QED
  BY <1>3, <1>4, <1>7 DEF u, v

\* Whole turns stay whole when the list is cut to an even number of messages.
LEMMA TurnsKept ==
  ASSUME NEW s \in Seq(Messages), WholeTurns(s), NEW n \in Nat, n % 2 = 0
  PROVE  WholeTurns(LastOf(s, n))
<1> DEFINE u == LastOf(s, n)
           d == Len(s) - Len(u)
<1>1. /\ u \in Seq(Messages)
      /\ Len(u) = IF Len(s) <= n THEN Len(s) ELSE n
      /\ \A i \in 1..Len(u) : d + i \in 1..Len(s) /\ u[i] = s[d + i]
  BY LastOfProperties
<1> HIDE DEF u
<1>2. Len(s) \in Nat /\ Len(u) \in Nat /\ Len(s) % 2 = 0
  BY <1>1, LenProperties DEF WholeTurns
<1>3. Len(u) % 2 = 0 /\ Len(u) <= Len(s)
  <2>1. Len(u) = Len(s) \/ (Len(u) = n /\ n <= Len(s))
    BY <1>1, <1>2
  <2>2. QED
    BY <1>2, <2>1
<1>4. d \in Nat /\ d % 2 = 0
  BY <1>2, <1>3, EvenMinus
<1>5. \A i \in 1..Len(u) : d + i \in 1..Len(s) /\ u[i] = s[d + i]
  BY <1>1
<1> HIDE DEF d
<1>6. ASSUME NEW i \in 1..Len(u)
      PROVE  /\ IsAnswer(u[i]) <=> i % 2 = 0
             /\ IsAnswer(u[i]) => u[i].of = u[i - 1].of
  <2>1. d + i \in 1..Len(s) /\ u[i] = s[d + i]
    BY <1>5
  <2>2. PICK j \in 1..Len(s) : j = d + i
    BY <2>1
  <2>3. (IsAnswer(s[j]) <=> j % 2 = 0) /\ (IsAnswer(s[j]) => s[j].of = s[j - 1].of)
    BY TurnAt
  <2>4. j % 2 = 0 <=> i % 2 = 0
    BY <1>2, <1>4, <2>2, EvenPlus
  <2>5. ASSUME i % 2 = 0 PROVE u[i - 1] = s[j - 1]
    <3>1. i - 1 \in 1..Len(u) /\ d + (i - 1) = j - 1
      BY <1>2, <1>4, <2>2, <2>5
    <3>2. u[i - 1] = s[d + (i - 1)]
      BY <1>5, <3>1
    <3>3. QED
      BY <3>1, <3>2
  <2>6. QED
    BY <2>1, <2>2, <2>3, <2>4, <2>5
<1>7. WholeTurns(u)
  BY <1>3, <1>6 DEF WholeTurns
<1>8. QED
  BY <1>7 DEF u

-----------------------------------------------------------------------------
(***************************************************************************)
(* What the pieces of the actions do to the types.                         *)
(***************************************************************************)

\* The list that is trimmed after each turn.
LEMMA HistoryType ==
  ASSUME TypeOK, NEW r \in Requests, AddToHistory(r)
  PROVE  history' \in Seq(Messages)
<1>1. full[r] \in Seq(Chunks \cup Errors)
  BY DEF TypeOK
<1>2. Turn(r, full[r]) \in Seq(Messages)
  BY <1>1, TurnProperties
<1>3. history \o Turn(r, full[r]) \in Seq(Messages)
  BY <1>2, ConcatProperties DEF TypeOK
<1>4. HistoryLimit \in Nat
  BY SessionAssumption
<1>5. QED
  BY <1>3, <1>4, LastOfProperties DEF AddToHistory

\* An event is put behind those that wait.
LEMMA EmitType ==
  ASSUME TypeOK, NEW r \in Requests, NEW type \in {"delta", "word", "error", "done"},
         Emit(r, type)
  PROVE  events' \in [Requests -> Seq(Events)]
<1>1. Event(type, r) \in Events
  BY DEF Event, Events, Chunks
<1>2. events[r] \in Seq(Events)
  BY DEF TypeOK
<1>3. Append(events[r], Event(type, r)) \in Seq(Events)
  BY <1>1, <1>2, AppendProperties
<1>4. QED
  BY <1>3 DEF Emit, TypeOK

\* A chunk is remembered and sent.
LEMMA SayType ==
  ASSUME TypeOK, NEW r \in Requests, NEW type \in {"delta", "word"}, Say(r, type)
  PROVE  /\ full' \in [Requests -> Seq(Chunks)]
         /\ events' \in [Requests -> Seq(Events)]
<1>1. Event(type, r) \in Chunks
  BY DEF Event, Chunks
<1>2. full[r] \in Seq(Chunks)
  BY DEF TypeOK
<1>3. Append(full[r], Event(type, r)) \in Seq(Chunks)
  BY <1>1, <1>2, AppendProperties
<1>4. full' \in [Requests -> Seq(Chunks)]
  BY <1>3 DEF Say, TypeOK
<1>5. events' \in [Requests -> Seq(Events)]
  BY EmitType DEF Say
<1>6. QED
  BY <1>4, <1>5

\* A request that is over.
LEMMA CloseType ==
  ASSUME TypeOK, NEW r \in Requests, Close(r)
  PROVE  /\ at' \in [Requests -> Stages]
         /\ past' \in [Requests -> Seq(Messages)]
         /\ full' \in [Requests -> Seq(Chunks)]
         /\ due' \in [Requests -> SUBSET Requests]
<1>1. <<>> \in Seq(Messages) /\ <<>> \in Seq(Chunks)
  BY EmptySeq
<1>2. QED
  BY <1>1 DEF Close, Stage, Stages, TypeOK

\* The text of the last bubble is replaced, or there is none.
LEMMA SetLastProperties ==
  ASSUME messages \in Seq(Messages), NEW text \in Seq(Chunks \cup Errors), SetLast(text)
  PROVE  /\ messages' \in Seq(Messages)
         /\ Len(messages') = Len(messages)
         /\ \A i \in 1..Len(messages) :
              messages'[i] = IF i = Len(messages) THEN [messages[i] EXCEPT !.text = text]
                                                  ELSE messages[i]
<1>1. CASE messages = <<>>
  BY <1>1 DEF SetLast
<1>2. CASE messages # <<>>
  <2>1. Len(messages) \in 1..Len(messages)
    BY <1>2, LenProperties, EmptySeq
  <2>2. messages[Len(messages)] \in Messages
    BY <2>1, ElementOfSeq
  <2>3. [messages[Len(messages)] EXCEPT !.text = text] \in Messages
    BY <2>2 DEF Messages
  <2>4. messages' = [messages EXCEPT ![Len(messages)] =
                       [messages[Len(messages)] EXCEPT !.text = text]]
    BY <1>2 DEF SetLast
  <2>5. messages' \in Seq(Messages) /\ Len(messages') = Len(messages)
    BY <2>1, <2>3, <2>4, ExceptSeq
  <2>6. QED
    BY <2>1, <2>4, <2>5, LenProperties
<1>3. QED
  BY <1>1, <1>2

\* An event that is read.
LEMMA ReceiveProperties ==
  ASSUME TypeOK, NEW r \in Requests, NEW types, Receive(r, types)
  PROVE  /\ Head(events[r]) \in Events
         /\ Head(events[r]) = events[r][1]
         /\ 1 \in 1..Len(events[r])
         /\ events' = [events EXCEPT ![r] = Tail(events[r])]
         /\ events' \in [Requests -> Seq(Events)]
<1>1. events[r] \in Seq(Events) /\ events[r] # <<>>
  BY DEF TypeOK, Receive
<1>2. /\ Head(events[r]) \in Events
      /\ Head(events[r]) = events[r][1]
      /\ Tail(events[r]) \in Seq(Events)
      /\ Len(events[r]) \in Nat /\ Len(events[r]) # 0
  BY <1>1, HeadTailProperties, LenProperties, EmptySeq
<1>3. QED
  BY <1>1, <1>2 DEF Receive, TypeOK

-----------------------------------------------------------------------------
(***************************************************************************)
(* The type invariant.                                                     *)
(***************************************************************************)
LEMMA ServeKeepsTypes ==
  ASSUME TypeOK, NEW r \in Requests, Serve(r)
  PROVE  TypeOK'
<1>1. ASSUME Reject(r) PROVE TypeOK'
  <2>1. events' \in [Requests -> Seq(Events)]
    BY <1>1, EmitType DEF Reject
  <2>2. /\ at' \in [Requests -> Stages] /\ past' \in [Requests -> Seq(Messages)]
        /\ full' \in [Requests -> Seq(Chunks)] /\ due' \in [Requests -> SUBSET Requests]
    BY <1>1, CloseType DEF Reject
  <2>3. QED
    BY <1>1, <2>1, <2>2 DEF Reject, Fault, panel, TypeOK
<1>2. ASSUME Accept(r) PROVE TypeOK'
  <2>1. CASE kind[r] # "odd"
    <3>1. LastOf(history, HistoryLimit) \in Seq(Messages)
      BY SessionAssumption, LastOfProperties DEF TypeOK
    <3>2. QED
      BY <1>2, <2>1, <3>1 DEF Accept, Stage, Stages, panel, TypeOK
  <2>2. CASE kind[r] = "odd"
    <3>1. events' \in [Requests -> Seq(Events)]
      BY <1>2, <2>2, EmitType DEF Accept
    <3>2. /\ at' \in [Requests -> Stages] /\ past' \in [Requests -> Seq(Messages)]
          /\ full' \in [Requests -> Seq(Chunks)] /\ due' \in [Requests -> SUBSET Requests]
      BY <1>2, <2>2, CloseType DEF Accept
    <3>3. QED
      BY <1>2, <3>1, <3>2 DEF Accept, panel, TypeOK
  <2>3. QED
    BY <2>1, <2>2
<1>3. ASSUME Delta(r) PROVE TypeOK'
  <2>1. full' \in [Requests -> Seq(Chunks)] /\ events' \in [Requests -> Seq(Events)]
    BY <1>3, SayType DEF Delta
  <2>2. QED
    BY <1>3, <2>1 DEF Delta, panel, ghosts, TypeOK
<1>4. ASSUME LLMEnds(r) PROVE TypeOK'
  BY <1>4 DEF LLMEnds, Stage, Stages, panel, ghosts, TypeOK
<1>5. ASSUME LLMFails(r) PROVE TypeOK'
  BY <1>5 DEF LLMFails, Stage, Stages, panel, ghosts, TypeOK
<1>6. ASSUME Word(r) PROVE TypeOK'
  <2>1. full' \in [Requests -> Seq(Chunks)] /\ events' \in [Requests -> Seq(Events)]
    BY <1>6, SayType DEF Word
  <2>2. at' \in [Requests -> Stages]
    BY <1>6 DEF Word, Stage, Stages, TypeOK
  <2>3. QED
    BY <1>6, <2>1, <2>2 DEF Word, panel, ghosts, TypeOK
<1>7. ASSUME Finally(r) PROVE TypeOK'
  <2>1. events' \in [Requests -> Seq(Events)]
    BY <1>7, EmitType DEF Finally
  <2>2. history \in Seq(Messages)
    BY DEF TypeOK
  <2>3. history' \in Seq(Messages)
    BY <1>7, <2>2, HistoryType DEF Finally
  <2>4. /\ at' \in [Requests -> Stages] /\ past' \in [Requests -> Seq(Messages)]
        /\ full' \in [Requests -> Seq(Chunks)] /\ due' \in [Requests -> SUBSET Requests]
    BY <1>7, CloseType DEF Finally
  <2>5. QED
    BY <1>7, <2>1, <2>3, <2>4 DEF Finally, panel, TypeOK
<1>8. ASSUME SaveFails(r) PROVE TypeOK'
  <2>1. events' \in [Requests -> Seq(Events)]
    BY <1>8, EmitType DEF SaveFails
  <2>2. /\ at' \in [Requests -> Stages] /\ past' \in [Requests -> Seq(Messages)]
        /\ full' \in [Requests -> Seq(Chunks)] /\ due' \in [Requests -> SUBSET Requests]
    BY <1>8, CloseType DEF SaveFails
  <2>3. QED
    BY <1>8, <2>1, <2>2 DEF SaveFails, Fault, panel, TypeOK
<1>9. ASSUME Cancel(r) PROVE TypeOK'
  <2>1. history \in Seq(Messages)
    BY DEF TypeOK
  <2>2. history' \in Seq(Messages)
    BY <1>9, <2>1, HistoryType DEF Cancel
  <2>3. /\ at' \in [Requests -> Stages] /\ past' \in [Requests -> Seq(Messages)]
        /\ full' \in [Requests -> Seq(Chunks)] /\ due' \in [Requests -> SUBSET Requests]
    BY <1>9, CloseType DEF Cancel
  <2>4. QED
    BY <1>9, <2>2, <2>3 DEF Cancel, panel, TypeOK
<1>10. QED
  BY <1>1, <1>2, <1>3, <1>4, <1>5, <1>6, <1>7, <1>8, <1>9 DEF Serve

\* The type invariant in the steps of the panel.
LEMMA PanelKeepsTypes ==
  ASSUME TypeOK, NEW r \in Requests, Read(r) \/ Send(r) \/ Disconnect(r)
  PROVE  TypeOK'
<1> DEFINE error == <<Event("error", r)>>
<1>1. error \in Seq(Chunks \cup Errors)
  BY DEF Event, Errors
<1> HIDE DEF error
<1>2. ASSUME Fails(r)
      PROVE  messages' \in Seq(Messages) /\ streaming' \in BOOLEAN /\ reading' \subseteq Requests
  BY <1>1, <1>2, SetLastProperties DEF Fails, TypeOK, error
<1>3. ASSUME OnChunk(r) PROVE TypeOK'
  <2>1. events' \in [Requests -> Seq(Events)]
    BY <1>3, ReceiveProperties DEF OnChunk
  <2>2. CASE messages = <<>>
    BY <1>3, <2>1, <2>2 DEF OnChunk, ghosts, TypeOK
  <2>3. CASE messages # <<>>
    <3>1. Head(events[r]) \in Chunks \cup Errors
      BY <1>3, ReceiveProperties DEF OnChunk, Receive, Events, Chunks
    <3>2. Len(messages) \in 1..Len(messages)
      BY <2>3, EmptySeq DEF TypeOK
    <3>3. messages[Len(messages)].text \in Seq(Chunks \cup Errors)
      <4>1. messages[Len(messages)] \in Messages
        BY <3>2, ElementOfSeq DEF TypeOK
      <4>2. QED
        BY <4>1 DEF Messages
    <3>4. Append(messages[Len(messages)].text, Head(events[r])) \in Seq(Chunks \cup Errors)
      BY <3>1, <3>3, AppendProperties
    <3>5. messages' \in Seq(Messages)
      BY <1>3, <2>3, <3>4, SetLastProperties DEF OnChunk, TypeOK
    <3>6. QED
      BY <1>3, <2>1, <2>3, <3>5 DEF OnChunk, ghosts, TypeOK
  <2>4. QED
    BY <2>2, <2>3
<1>4. ASSUME OnDone(r) PROVE TypeOK'
  <2>1. events' \in [Requests -> Seq(Events)]
    BY <1>4, ReceiveProperties DEF OnDone
  <2>2. QED
    BY <1>4, <2>1 DEF OnDone, TypeOK
<1>5. ASSUME OnError(r) PROVE TypeOK'
  <2>1. events' \in [Requests -> Seq(Events)]
    BY <1>5, ReceiveProperties DEF OnError
  <2>2. messages' \in Seq(Messages) /\ streaming' \in BOOLEAN /\ reading' \subseteq Requests
    BY <1>2, <1>5 DEF OnError
  <2>3. QED
    BY <1>5, <2>1, <2>2 DEF OnError, Fails, ghosts, TypeOK
<1>6. ASSUME Send(r) PROVE TypeOK'
  <2>1. PICK k \in Kinds[r] : kind' = [kind EXCEPT ![r] = k]
    BY <1>6 DEF Send
  <2>2. k \in QuestionKinds
    BY SessionAssumption DEF Requests
  <2>3. <<>> \in Seq(Chunks \cup Errors)
    BY EmptySeq
  <2>4. Turn(r, <<>>) \in Seq(Messages)
    BY <2>3, TurnProperties
  <2>5. messages' \in Seq(Messages)
    BY <1>6, <2>4, ConcatProperties DEF Send, TypeOK
  <2>6. QED
    BY <1>6, <2>1, <2>2, <2>5 DEF Send, Stage, Stages, TypeOK
<1>7. ASSUME Disconnect(r) PROVE TypeOK'
  <2>1. messages' \in Seq(Messages) /\ streaming' \in BOOLEAN /\ reading' \subseteq Requests
    BY <1>2, <1>7 DEF Disconnect
  <2>2. events' \in [Requests -> Seq(Events)]
    BY <1>7, EmptySeq DEF Disconnect, TypeOK
  <2>3. QED
    BY <1>7, <2>1, <2>2 DEF Disconnect, Fails, Fault, ghosts, TypeOK
<1>8. QED
  BY <1>3, <1>4, <1>5, <1>6, <1>7 DEF Read

\* The type invariant when the conversation is cleared or expires.
LEMMA ClearKeepsTypes ==
  ASSUME TypeOK, Clear \/ ServerClear \/ Expire
  PROVE  TypeOK'
<1>1. <<>> \in Seq(Messages)
  BY EmptySeq
<1>2. ASSUME Forget
      PROVE  /\ history' \in Seq(Messages) /\ seen' \subseteq Requests
             /\ due' \in [Requests -> SUBSET Requests] /\ gone' \subseteq Requests
  BY <1>1, <1>2 DEF Forget, TypeOK
<1>3. CASE Clear
  BY <1>1, <1>3 DEF Clear, service, ghosts, TypeOK
<1>4. CASE ServerClear
  <2>1. CASE Forget
    BY <1>2, <1>4, <2>1 DEF ServerClear, Fault, service, panel, TypeOK
  <2>2. CASE ~Forget
    BY <1>4, <2>2 DEF ServerClear, Fault, service, panel, ghosts, TypeOK
  <2>3. QED
    BY <2>1, <2>2
<1>5. CASE Expire
  BY <1>2, <1>5 DEF Expire, service, panel, TypeOK
<1>6. QED
  BY <1>3, <1>4, <1>5

\* Type correctness, for any number of questions, clears and faults.
THEOREM TypeCorrect == Spec => []TypeOK
<1>1. Init => TypeOK
  <2>1. <<>> \in Seq(Messages) /\ <<>> \in Seq(Chunks) /\ <<>> \in Seq(Events)
    BY EmptySeq
  <2>2. SUFFICES ASSUME Init PROVE TypeOK
    OBVIOUS
  <2>3. /\ at \in [Requests -> Stages] /\ kind \in [Requests -> QuestionKinds]
        /\ due \in [Requests -> SUBSET Requests]
    BY <2>2 DEF Init, Stages, QuestionKinds
  <2>4. /\ past \in [Requests -> Seq(Messages)] /\ full \in [Requests -> Seq(Chunks)]
        /\ events \in [Requests -> Seq(Events)]
    BY <2>1, <2>2 DEF Init
  <2>5. QED
    BY <2>1, <2>2, <2>3, <2>4 DEF Init, TypeOK
<1>2. TypeOK /\ [Next]_vars => TypeOK'
  <2>1. SUFFICES ASSUME TypeOK, [Next]_vars PROVE TypeOK'
    OBVIOUS
  <2>2. CASE UNCHANGED vars
    BY <2>1, <2>2 DEF vars, service, panel, ghosts, TypeOK
  <2>3. CASE \E r \in Requests : Serve(r) \/ Read(r) \/ Send(r) \/ Disconnect(r)
    BY <2>1, <2>3, ServeKeepsTypes, PanelKeepsTypes
  <2>4. CASE Clear \/ ServerClear \/ Expire
    BY <2>1, <2>4, ClearKeepsTypes
  <2>5. QED
    BY <2>1, <2>2, <2>3, <2>4 DEF Next
<1>3. QED
  BY <1>1, <1>2, PTL DEF Spec

-----------------------------------------------------------------------------
(***************************************************************************)
(* The memory of a session.  That the list is whole turns is not           *)
(* inductive: the invariant adds what the requests in progress have read.  *)
(***************************************************************************)
TurnsInv ==
  /\ TypeOK
  /\ HistoryIsTurns
  /\ \A r \in Requests : WholeTurns(past[r])

\* An empty list holds whole turns.
LEMMA EmptyIsTurns == WholeTurns(<<>>) /\ Len(<<>>) = 0
BY EmptySeq DEF WholeTurns

\* A request ends by saving its answer.
Saves(r) ==
  /\ at[r] # "closed" /\ full[r] # <<>>
  /\ AddToHistory(r)
  /\ Close(r)

\* The only ways in which the list, and what a request has read of it, change.
LEMMA WhatChanges ==
  ASSUME [Next]_vars
  PROVE  /\ history' = history \/ history' = <<>> \/ \E r \in Requests : Saves(r)
         /\ \/ past' = past
            \/ \E r \in Requests :
                 \/ past' = [past EXCEPT ![r] = <<>>]
                 \/ past' = [past EXCEPT ![r] = LastOf(history, HistoryLimit)]
<1>1. CASE UNCHANGED vars
  BY <1>1 DEF vars, service
<1>2. ASSUME NEW r \in Requests, Serve(r)
      PROVE  /\ history' = history \/ Saves(r)
             /\ \/ past' = past
                \/ past' = [past EXCEPT ![r] = <<>>]
                \/ past' = [past EXCEPT ![r] = LastOf(history, HistoryLimit)]
  <2>1. CASE Reject(r)
    BY <2>1 DEF Reject, Close
  <2>2. CASE Accept(r)
    BY <2>2 DEF Accept, Close
  <2>3. CASE Delta(r) \/ LLMEnds(r) \/ LLMFails(r) \/ Word(r)
    BY <2>3 DEF Delta, LLMEnds, LLMFails, Word
  <2>4. CASE Finally(r)
    BY <2>4 DEF Finally, Saves, Close
  <2>5. CASE SaveFails(r)
    BY <2>5 DEF SaveFails, Close
  <2>6. CASE Cancel(r)
    BY <2>6 DEF Cancel, Saves, Close
  <2>7. QED
    BY <1>2, <2>1, <2>2, <2>3, <2>4, <2>5, <2>6 DEF Serve
<1>3. ASSUME NEW r \in Requests, Read(r) \/ Send(r) \/ Disconnect(r)
      PROVE  history' = history /\ past' = past
  BY <1>3 DEF Read, OnChunk, OnDone, OnError, Send, Disconnect
<1>4. ASSUME Clear \/ ServerClear \/ Expire
      PROVE  (history' = history \/ history' = <<>>) /\ past' = past
  BY <1>4 DEF Clear, ServerClear, Expire, Forget, service
<1>5. QED
  BY <1>1, <1>2, <1>3, <1>4 DEF Next

\* The list and what was read of it stay whole turns in every step.
LEMMA TurnsStep == TurnsInv /\ [Next]_vars /\ TypeOK' => TurnsInv'
<1> SUFFICES ASSUME TurnsInv, [Next]_vars, TypeOK' PROVE TurnsInv'
  OBVIOUS
<1>1. /\ history \in Seq(Messages) /\ WholeTurns(history) /\ Len(history) <= HistoryLimit
      /\ \A r \in Requests : WholeTurns(past[r])
      /\ HistoryLimit \in Nat /\ HistoryLimit % 2 = 0
  BY SessionAssumption DEF TurnsInv, TypeOK, HistoryIsTurns
<1>2. HistoryIsTurns'
  <2>1. CASE history' = history
    BY <1>1, <2>1 DEF HistoryIsTurns
  <2>2. CASE history' = <<>>
    BY <1>1, <2>2, EmptyIsTurns DEF HistoryIsTurns
  <2>3. ASSUME NEW r \in Requests, Saves(r) PROVE HistoryIsTurns'
    <3> DEFINE u == history \o Turn(r, full[r])
    <3>1. full[r] \in Seq(Chunks \cup Errors)
      BY DEF TurnsInv, TypeOK
    <3>2. u \in Seq(Messages) /\ WholeTurns(u)
      BY <1>1, <3>1, TurnAdded
    <3>3. history' = LastOf(u, HistoryLimit)
      BY <2>3 DEF Saves, AddToHistory
    <3> HIDE DEF u
    <3>4. WholeTurns(LastOf(u, HistoryLimit))
      BY <1>1, <3>2, TurnsKept
    <3>5. Len(LastOf(u, HistoryLimit)) <= HistoryLimit
      <4>1. Len(u) \in Nat
        BY <3>2, LenProperties
      <4>2. Len(LastOf(u, HistoryLimit)) = IF Len(u) <= HistoryLimit THEN Len(u) ELSE HistoryLimit
        BY <1>1, <3>2, LastOfProperties
      <4>3. QED
        BY <1>1, <4>1, <4>2
    <3>6. QED
      BY <3>3, <3>4, <3>5 DEF HistoryIsTurns
  <2>4. QED
    BY <2>1, <2>2, <2>3, WhatChanges
<1>3. \A r \in Requests : WholeTurns(past'[r])
  <2>1. WholeTurns(LastOf(history, HistoryLimit))
    BY <1>1, TurnsKept
  <2>2. DOMAIN past = Requests
    BY DEF TurnsInv, TypeOK
  <2>3. CASE past' = past
    BY <1>1, <2>3
  <2>4. ASSUME NEW q \in Requests,
               \/ past' = [past EXCEPT ![q] = <<>>]
               \/ past' = [past EXCEPT ![q] = LastOf(history, HistoryLimit)]
        PROVE  \A r \in Requests : WholeTurns(past'[r])
    BY <1>1, <2>1, <2>2, <2>4, EmptyIsTurns
  <2>5. QED
    BY <2>3, <2>4, WhatChanges
<1>4. QED
  BY <1>2, <1>3 DEF TurnsInv

\* The context of the LLM is whole turns because what was read is.
LEMMA ContextFromPast == TurnsInv => ContextIsTurns
<1>1. SUFFICES ASSUME TurnsInv, NEW r \in Requests PROVE WholeTurns(Context(r))
  BY DEF ContextIsTurns
<1>2. past[r] \in Seq(Messages) /\ WholeTurns(past[r])
  BY <1>1 DEF TurnsInv, TypeOK
<1>3. ContextLimit \in Nat /\ ContextLimit % 2 = 0
  BY SessionAssumption
<1>4. QED
  BY <1>2, <1>3, TurnsKept DEF Context

\* What the requests have read stays whole turns, as what they read was.
LEMMA TurnsAlways == Spec => []TurnsInv
<1>1. Init /\ TypeOK => TurnsInv
  <2>1. SUFFICES ASSUME Init, TypeOK PROVE HistoryIsTurns /\ \A r \in Requests : WholeTurns(past[r])
    BY DEF TurnsInv
  <2>2. HistoryLimit \in Nat
    BY SessionAssumption
  <2>3. QED
    BY <2>1, <2>2, EmptyIsTurns DEF Init, HistoryIsTurns
<1>2. QED
  BY <1>1, TypeCorrect, TurnsStep, PTL DEF Spec

\* Whatever requests overlap, fail or are cancelled, the list holds whole turns,
\* HistoryLimit messages at most.
THEOREM HistoryStaysWhole == Spec => []HistoryIsTurns
<1>1. TurnsInv => HistoryIsTurns
  BY DEF TurnsInv
<1>2. QED
  BY <1>1, TurnsAlways, PTL

\* The LLM is given whole turns, for every even ContextLimit up to HistoryLimit.
THEOREM ContextStaysWhole == Spec => []ContextIsTurns
BY ContextFromPast, TurnsAlways, PTL

-----------------------------------------------------------------------------
(***************************************************************************)
(* The panel.  A chunk lands in the right bubble because every event on    *)
(* the way belongs to its request, and the last bubble, if there is one,   *)
(* to the request being read.                                              *)
(***************************************************************************)
Own(s, r) == \A k \in 1..Len(s) : s[k].of = r

OneReader ==
  /\ \A r, q \in reading : r = q
  /\ reading # {} => streaming

BubblesInv ==
  /\ TypeOK
  /\ OneReader
  /\ \A r \in Requests : Own(events[r], r)
  /\ messages # <<>> => \A r \in reading : messages[Len(messages)].of = r
  /\ \A i \in 1..Len(messages) : Own(messages[i].text, messages[i].of)

\* Lists whose members all belong to one request, and their ends.
LEMMA OwnLists ==
  ASSUME NEW S, NEW s \in Seq(S), NEW r, Own(s, r)
  PROVE  /\ Own(<<>>, r)
         /\ \A e \in S : e.of = r => Own(Append(s, e), r)
         /\ s # <<>> => Own(Tail(s), r) /\ Head(s).of = r
<1>1. Own(<<>>, r)
  BY EmptySeq DEF Own
<1>2. ASSUME NEW e \in S, e.of = r PROVE Own(Append(s, e), r)
  <2>1. /\ Len(Append(s, e)) = Len(s) + 1 /\ Len(s) \in Nat
        /\ \A k \in 1..Len(s) : Append(s, e)[k] = s[k]
        /\ Append(s, e)[Len(s) + 1] = e
    BY AppendProperties, LenProperties
  <2>2. SUFFICES ASSUME NEW k \in 1..Len(Append(s, e)) PROVE Append(s, e)[k].of = r
    BY DEF Own
  <2>3. CASE k = Len(s) + 1
    BY <1>2, <2>1, <2>3
  <2>4. CASE k # Len(s) + 1
    <3>1. k \in 1..Len(s)
      BY <2>1, <2>2, <2>4
    <3>2. QED
      BY <2>1, <3>1 DEF Own
  <2>5. QED
    BY <2>3, <2>4
<1>3. ASSUME s # <<>> PROVE Own(Tail(s), r) /\ Head(s).of = r
  <2>1. /\ Len(Tail(s)) = Len(s) - 1 /\ Len(s) \in Nat /\ Len(s) # 0
        /\ \A k \in 1..Len(Tail(s)) : Tail(s)[k] = s[k + 1]
    BY <1>3, HeadTailProperties, LenProperties, EmptySeq
  <2>2. \A k \in 1..Len(Tail(s)) : k + 1 \in 1..Len(s)
    BY <2>1
  <2>3. Own(Tail(s), r)
    BY <2>1, <2>2 DEF Own
  <2>4. Head(s) = s[1] /\ 1 \in 1..Len(s)
    BY <1>3, <2>1
  <2>5. QED
    BY <2>3, <2>4 DEF Own
<1>4. QED
  BY <1>1, <1>2, <1>3

\* An event belongs to the request whose response carries it.
LEMMA EventsOwned ==
  ASSUME BubblesInv, [Next]_vars
  PROVE  \A r \in Requests : Own(events'[r], r)
<1>1. /\ events \in [Requests -> Seq(Events)]
      /\ \A r \in Requests : Own(events[r], r)
  BY DEF BubblesInv, TypeOK
<1>2. ASSUME NEW r \in Requests, NEW type \in {"delta", "word", "error", "done"}, Emit(r, type)
      PROVE  \A q \in Requests : Own(events'[q], q)
  <2>1. Event(type, r) \in Events /\ Event(type, r).of = r
    BY DEF Event, Events, Chunks
  <2>2. events[r] \in Seq(Events) /\ Own(events[r], r)
    BY <1>1
  <2>3. Own(Append(events[r], Event(type, r)), r)
    BY <2>1, <2>2, OwnLists
  <2>4. QED
    BY <1>1, <1>2, <2>3 DEF Emit
<1>3. ASSUME NEW r \in Requests, NEW types, Receive(r, types)
      PROVE  \A q \in Requests : Own(events'[q], q)
  <2>1. events[r] \in Seq(Events) /\ Own(events[r], r) /\ events[r] # <<>>
    BY <1>1, <1>3 DEF Receive
  <2>2. Own(Tail(events[r]), r)
    BY <2>1, OwnLists
  <2>3. QED
    BY <1>1, <1>3, <2>2 DEF Receive
<1>4. ASSUME NEW r \in Requests, Serve(r)
      PROVE  events' = events \/ \E type \in {"delta", "word", "error", "done"} : Emit(r, type)
  BY <1>4 DEF Serve, Reject, Accept, Delta, LLMEnds, LLMFails, Word, Say, Finally, SaveFails, Cancel
<1>5. ASSUME NEW r \in Requests, Read(r) \/ Send(r) \/ Disconnect(r)
      PROVE  \A q \in Requests : Own(events'[q], q)
  <2>1. CASE Read(r)
    BY <1>3, <2>1 DEF Read, OnChunk, OnDone, OnError
  <2>2. CASE Send(r)
    BY <1>1, <2>2 DEF Send
  <2>3. CASE Disconnect(r)
    <3>1. Own(<<>>, r)
      BY EmptySeq DEF Own
    <3>2. QED
      BY <1>1, <2>3, <3>1 DEF Disconnect
  <2>4. QED
    BY <1>5, <2>1, <2>2, <2>3
<1>6. ASSUME UNCHANGED vars \/ Clear \/ ServerClear \/ Expire PROVE events' = events
  BY <1>6 DEF vars, service, Clear, ServerClear, Expire
<1>7. QED
  BY <1>1, <1>2, <1>4, <1>5, <1>6 DEF Next

\* Setting the text of the last bubble to chunks of the request being read.
LEMMA SetLastOwned ==
  ASSUME BubblesInv, NEW r \in reading, NEW text \in Seq(Chunks \cup Errors),
         Own(text, r), SetLast(text)
  PROVE  /\ \A i \in 1..Len(messages') : Own(messages'[i].text, messages'[i].of)
         /\ messages' # <<>> => messages'[Len(messages')].of = r
<1>1. messages \in Seq(Messages) /\ Len(messages) \in Nat
  BY LenProperties DEF BubblesInv, TypeOK
<1>2. CASE messages = <<>>
  BY <1>2, EmptySeq DEF SetLast
<1>3. CASE messages # <<>>
  <2>1. /\ Len(messages') = Len(messages)
        /\ \A i \in 1..Len(messages) :
             messages'[i] = IF i = Len(messages) THEN [messages[i] EXCEPT !.text = text]
                                                 ELSE messages[i]
    BY <1>1, SetLastProperties
  <2>2. Len(messages) \in 1..Len(messages)
    BY <1>1, <1>3, EmptySeq
  <2>3. messages[Len(messages)].of = r /\ messages[Len(messages)] \in Messages
    BY <1>1, <1>3, <2>2, ElementOfSeq DEF BubblesInv
  <2>4. LET m == [messages[Len(messages)] EXCEPT !.text = text]
        IN  m.of = r /\ m.text = text
    BY <2>3 DEF Messages
  <2>5. messages'[Len(messages)].of = r /\ messages'[Len(messages)].text = text
    BY <2>1, <2>2, <2>4
  <2>6. ASSUME NEW i \in 1..Len(messages') PROVE Own(messages'[i].text, messages'[i].of)
    <3>1. CASE i = Len(messages)
      BY <2>5, <3>1
    <3>2. CASE i # Len(messages)
      BY <2>1, <3>2 DEF BubblesInv
    <3>3. QED
      BY <3>1, <3>2
  <2>7. QED
    BY <2>1, <2>5, <2>6
<1>4. QED
  BY <1>2, <1>3

\* One answer is read at a time: Send waits for it, and only its end or the
\* end of the page lets the next one be asked.
LEMMA ReaderStep ==
  ASSUME BubblesInv, [Next]_vars
  PROVE  OneReader'
<1>1. OneReader
  BY DEF BubblesInv
<1>2. ASSUME NEW r \in Requests, Serve(r)
      PROVE  streaming' = streaming /\ reading' = reading
  BY <1>2 DEF Serve, Reject, Accept, Delta, LLMEnds, LLMFails, Word, Finally, SaveFails,
              Cancel, panel
<1>3. ASSUME NEW r \in reading, Fails(r) \/ OnDone(r) PROVE reading' = {}
  BY <1>1, <1>3 DEF Fails, OnDone, OneReader
<1>4. ASSUME NEW r \in Requests, Read(r) PROVE OneReader'
  <2>1. CASE OnChunk(r)
    BY <1>1, <2>1 DEF OnChunk, OneReader
  <2>2. CASE OnDone(r) \/ OnError(r)
    BY <1>3, <2>2 DEF OnDone, OnError, Receive, OneReader
  <2>3. QED
    BY <1>4, <2>1, <2>2 DEF Read
<1>5. ASSUME NEW r \in Requests, Send(r) PROVE OneReader'
  BY <1>1, <1>5 DEF Send, OneReader
<1>6. ASSUME NEW r \in Requests, Disconnect(r) PROVE OneReader'
  BY <1>3, <1>6 DEF Disconnect, OneReader
<1>7. ASSUME UNCHANGED vars \/ Clear \/ ServerClear \/ Expire
      PROVE  streaming' = streaming /\ reading' = reading
  BY <1>7 DEF vars, Clear, ServerClear, Expire, panel
<1>8. QED
  BY <1>1, <1>2, <1>4, <1>5, <1>6, <1>7 DEF Next, OneReader

\* The bubbles, and the one the next chunk goes to.
LEMMA BubblesOwned ==
  ASSUME BubblesInv, [Next]_vars
  PROVE  /\ messages' # <<>> => \A r \in reading' : messages'[Len(messages')].of = r
         /\ \A i \in 1..Len(messages') : Own(messages'[i].text, messages'[i].of)
<1>1. /\ messages \in Seq(Messages) /\ Len(messages) \in Nat
      /\ reading \subseteq Requests
      /\ messages # <<>> => \A r \in reading : messages[Len(messages)].of = r
      /\ \A i \in 1..Len(messages) : Own(messages[i].text, messages[i].of)
  BY LenProperties DEF BubblesInv, TypeOK
<1>2. ASSUME NEW r \in Requests, Serve(r)
      PROVE  messages' = messages /\ reading' = reading
  BY <1>2 DEF Serve, Reject, Accept, Delta, LLMEnds, LLMFails, Word, Finally, SaveFails,
              Cancel, panel
<1>3. ASSUME NEW r \in reading, Fails(r)
      PROVE  /\ \A i \in 1..Len(messages') : Own(messages'[i].text, messages'[i].of)
             /\ messages' # <<>> => messages'[Len(messages')].of = r
             /\ reading' \subseteq reading
  <2>1. <<Event("error", r)>> \in Seq(Chunks \cup Errors) /\ Own(<<Event("error", r)>>, r)
    BY <1>1 DEF Event, Errors, Own
  <2>2. QED
    BY <1>3, <2>1, SetLastOwned DEF Fails
<1>4. ASSUME NEW r \in Requests, OnChunk(r)
      PROVE  /\ \A i \in 1..Len(messages') : Own(messages'[i].text, messages'[i].of)
             /\ messages' # <<>> => \A q \in reading' : messages'[Len(messages')].of = q
  <2>1. CASE messages = <<>>
    BY <1>1, <1>4, <2>1 DEF OnChunk
  <2>2. CASE messages # <<>>
    <3> DEFINE last == messages[Len(messages)]
               text == Append(last.text, Head(events[r]))
    <3>1. r \in reading /\ SetLast(text) /\ reading' = reading
      BY <1>4, <2>2 DEF OnChunk, Receive
    <3>2. Head(events[r]) \in Chunks /\ Head(events[r]).of = r
      <4>1. events[r] \in Seq(Events) /\ Own(events[r], r) /\ events[r] # <<>>
        BY <1>4 DEF BubblesInv, TypeOK, OnChunk, Receive
      <4>2. Head(events[r]).of = r
        BY <4>1, OwnLists
      <4>3. Head(events[r]) \in Events
        BY <4>1, HeadTailProperties
      <4>4. QED
        BY <1>4, <4>2, <4>3 DEF OnChunk, Receive, Events, Chunks
    <3>3. Len(messages) \in 1..Len(messages)
      BY <1>1, <2>2, EmptySeq
    <3>4. last \in Messages /\ last.of = r /\ Own(last.text, r)
      BY <1>1, <2>2, <3>1, <3>3, ElementOfSeq
    <3>5. last.text \in Seq(Chunks \cup Errors)
      BY <3>4 DEF Messages
    <3>6. text \in Seq(Chunks \cup Errors) /\ Own(text, r)
      BY <3>2, <3>4, <3>5, AppendProperties, OwnLists
    <3> HIDE DEF text
    <3>7. /\ \A i \in 1..Len(messages') : Own(messages'[i].text, messages'[i].of)
          /\ messages' # <<>> => messages'[Len(messages')].of = r
      BY <3>1, <3>6, SetLastOwned
    <3>8. QED
      BY <3>1, <3>7 DEF BubblesInv, OneReader
  <2>3. QED
    BY <2>1, <2>2
<1>5. ASSUME NEW r \in Requests, OnDone(r) PROVE messages' = messages /\ reading' \subseteq reading
  BY <1>5 DEF OnDone
<1>6. ASSUME NEW r \in Requests, Send(r)
      PROVE  /\ \A i \in 1..Len(messages') : Own(messages'[i].text, messages'[i].of)
             /\ \A q \in reading' : messages'[Len(messages')].of = q
  <2>1. /\ Turn(r, <<>>) \in Seq(Messages)
        /\ Len(Turn(r, <<>>)) = 2
        /\ Turn(r, <<>>)[1] = [role |-> "user", of |-> r, text |-> <<>>]
        /\ Turn(r, <<>>)[2] = [role |-> "assistant", of |-> r, text |-> <<>>]
    BY EmptySeq, TurnProperties
  <2>2. messages' = messages \o Turn(r, <<>>)
    BY <1>6 DEF Send
  <2>3. /\ Len(messages') = Len(messages) + 2
        /\ \A i \in 1..Len(messages) + 2 :
             messages'[i] = IF i <= Len(messages) THEN messages[i] ELSE Turn(r, <<>>)[i - Len(messages)]
    BY <1>1, <2>1, <2>2, ConcatProperties
  <2>4. messages'[Len(messages) + 1].text = <<>> /\ messages'[Len(messages) + 2].text = <<>>
    BY <1>1, <2>1, <2>3
  <2>5. messages'[Len(messages')].of = r
    BY <1>1, <2>1, <2>3
  <2>6. reading' = {r}
    BY <1>6 DEF Send, BubblesInv, OneReader
  <2>7. ASSUME NEW i \in 1..Len(messages') PROVE Own(messages'[i].text, messages'[i].of)
    <3>1. CASE i \in 1..Len(messages)
      BY <1>1, <2>3, <3>1
    <3>2. CASE i \notin 1..Len(messages)
      <4>1. messages'[i].text = <<>>
        BY <1>1, <2>3, <2>4, <3>2
      <4>2. QED
        BY <4>1, EmptySeq DEF Own
    <3>3. QED
      BY <3>1, <3>2
  <2>8. QED
    BY <2>5, <2>6, <2>7
<1>7. ASSUME UNCHANGED vars \/ Clear \/ ServerClear \/ Expire
      PROVE  reading' = reading /\ (messages' = messages \/ messages' = <<>>)
  BY <1>7 DEF vars, Clear, ServerClear, Expire, panel
<1>8. Len(<<>>) = 0
  BY EmptySeq
<1>9. ASSUME NEW r \in reading, Fails(r)
      PROVE  messages' # <<>> => \A q \in reading' : messages'[Len(messages')].of = q
  BY <1>3, <1>9 DEF BubblesInv, OneReader
<1>10. ASSUME NEW r \in Requests, Read(r) \/ Send(r) \/ Disconnect(r)
       PROVE  /\ messages' # <<>> => \A q \in reading' : messages'[Len(messages')].of = q
              /\ \A i \in 1..Len(messages') : Own(messages'[i].text, messages'[i].of)
  <2>1. CASE OnDone(r)
    BY <1>1, <1>5, <2>1
  <2>2. CASE OnError(r) \/ Disconnect(r)
    BY <1>3, <1>9, <2>2 DEF OnError, Disconnect, Receive
  <2>3. QED
    BY <1>4, <1>6, <1>10, <2>1, <2>2 DEF Read
<1>11. QED
  BY <1>1, <1>2, <1>7, <1>8, <1>10 DEF Next

\* BubblesInv is inductive.
LEMMA BubblesStep == BubblesInv /\ [Next]_vars /\ TypeOK' => BubblesInv'
<1>1. SUFFICES ASSUME BubblesInv, [Next]_vars, TypeOK' PROVE BubblesInv'
  OBVIOUS
<1>2. OneReader'
  BY <1>1, ReaderStep
<1>3. \A r \in Requests : Own(events'[r], r)
  BY <1>1, EventsOwned
<1>4. /\ messages' # <<>> => \A r \in reading' : messages'[Len(messages')].of = r
      /\ \A i \in 1..Len(messages') : Own(messages'[i].text, messages'[i].of)
  BY <1>1, BubblesOwned
<1>5. QED
  BY <1>1, <1>2, <1>3, <1>4 DEF BubblesInv

\* BubblesInv holds in every state.
LEMMA BubblesAlways == Spec => []BubblesInv
<1>1. Init /\ TypeOK => BubblesInv
  <2>1. SUFFICES ASSUME Init, TypeOK PROVE BubblesInv
    OBVIOUS
  <2>2. \A r \in Requests : Own(events[r], r)
    BY <2>1, EmptySeq DEF Init, Own
  <2>3. messages = <<>> /\ Len(<<>>) = 0 /\ reading = {}
    BY <2>1, EmptySeq DEF Init
  <2>4. QED
    BY <2>1, <2>2, <2>3 DEF BubblesInv, OneReader
<1>2. QED
  BY <1>1, TypeCorrect, BubblesStep, PTL DEF Spec

\* Chunks of one question never land in the bubble of another, and one answer
\* is read at a time, whatever is cleared, lost or cancelled in between.
THEOREM ChunksInTheirBubble == Spec => []RightBubble
<1>1. BubblesInv => RightBubble
  BY DEF BubblesInv, OneReader, Own, RightBubble
<1>2. QED
  BY <1>1, BubblesAlways, PTL

-----------------------------------------------------------------------------
(***************************************************************************)
(* The list implements a conversation.  A turn is new because the requests *)
(* whose turns are in the list are closed, and stay so.                    *)
(***************************************************************************)
ClosedInv ==
  /\ TurnsInv
  /\ \A i \in 1..Len(history) :
       at[history[i].of] = "closed" /\ history[i].text \in Seq(Chunks)

Half == HistoryLimit \div 2

TurnRecords == [of : Requests, text : Seq(Chunks)]

\* The turns of a list of whole turns, one by one.
LEMMA TurnsOfProperties ==
  ASSUME NEW h \in Seq(Messages), Len(h) % 2 = 0,
         \A i \in 1..Len(h) : h[i].text \in Seq(Chunks)
  PROVE  /\ TurnsOf(h) \in Seq(TurnRecords)
         /\ Len(TurnsOf(h)) = Len(h) \div 2
         /\ \A i \in 1..(Len(h) \div 2) :
              TurnsOf(h)[i] = [of |-> h[2 * i].of, text |-> h[2 * i].text]
<1> DEFINE n == Len(h) \div 2
<1>1. Len(h) \in Nat /\ n \in Nat
  BY LenProperties
<1>2. \A i \in 1..n : 2 * i \in 1..Len(h)
  BY <1>1
<1>3. \A i \in 1..n : [of |-> h[2 * i].of, text |-> h[2 * i].text] \in TurnRecords
  <2>1. \A i \in 1..n : h[2 * i] \in Messages
    BY <1>2, ElementOfSeq
  <2>2. \A i \in 1..n : h[2 * i].of \in Requests
    BY <2>1 DEF Messages
  <2>3. QED
    BY <1>2, <2>2 DEF TurnRecords
<1>4. TurnsOf(h) \in [1..n -> TurnRecords]
  BY <1>3 DEF TurnsOf
<1>5. TurnsOf(h) \in Seq(TurnRecords)
  BY <1>1, <1>4, SeqDef
<1>6. Len(TurnsOf(h)) = n
  BY <1>1, <1>4, <1>5, LenProperties
<1>7. QED
  BY <1>5, <1>6 DEF TurnsOf

\* Adding a turn to the list and trimming it adds a turn to the conversation and
\* drops the oldest if there is no room.
LEMMA AddedTurn ==
  ASSUME ClosedInv, NEW r \in Requests, AddToHistory(r)
  PROVE  LET turn == [of |-> r, text |-> full[r]]
             more == Append(TurnsOf(history), turn)
         IN  TurnsOf(history') = IF Len(more) <= Half THEN more ELSE Tail(more)
<1> DEFINE t == full[r]
           turn == [of |-> r, text |-> t]
           more == Append(TurnsOf(history), turn)
           added == Turn(r, t)
           u == history \o added
           n == Len(history)
<1>1. /\ history \in Seq(Messages) /\ WholeTurns(history)
      /\ n \in Nat /\ n % 2 = 0 /\ n <= HistoryLimit
      /\ HistoryLimit \in Nat \ {0} /\ HistoryLimit % 2 = 0
      /\ \A i \in 1..n : history[i].text \in Seq(Chunks)
      /\ t \in Seq(Chunks) /\ t \in Seq(Chunks \cup Errors)
  BY SessionAssumption, LenProperties
  DEF ClosedInv, TurnsInv, TypeOK, HistoryIsTurns, WholeTurns
<1>2. /\ added \in Seq(Messages) /\ Len(added) = 2
      /\ added[1] = [role |-> "user", of |-> r, text |-> <<>>]
      /\ added[2] = [role |-> "assistant", of |-> r, text |-> t]
  BY <1>1, TurnProperties
<1>3. history' = LastOf(u, HistoryLimit)
  BY DEF AddToHistory
<1>4. n = Len(history)
  OBVIOUS
<1> HIDE DEF t, added, n
<1>5. /\ u \in Seq(Messages) /\ Len(u) = n + 2
      /\ \A i \in 1..n : u[i] = history[i]
      /\ u[n + 1] = [role |-> "user", of |-> r, text |-> <<>>]
      /\ u[n + 2] = [role |-> "assistant", of |-> r, text |-> t]
  <2>1. /\ u \in Seq(Messages) /\ Len(u) = Len(history) + Len(added)
        /\ \A i \in 1 .. Len(history) + Len(added) :
             u[i] = IF i <= Len(history) THEN history[i] ELSE added[i - Len(history)]
    BY <1>1, <1>2, ConcatProperties
  <2>2. /\ u \in Seq(Messages) /\ Len(u) = n + 2
        /\ \A i \in 1 .. n + 2 : u[i] = IF i <= n THEN history[i] ELSE added[i - n]
    BY <1>2, <1>4, <2>1
  <2> HIDE DEF u
  <2>3. (n + 1) - n = 1 /\ (n + 2) - n = 2 /\ ~(n + 1 <= n) /\ ~(n + 2 <= n)
    BY <1>1
  <2>4. u[n + 1] = added[1] /\ u[n + 2] = added[2]
    BY <1>1, <2>2, <2>3
  <2>5. \A i \in 1..n : i \in 1 .. n + 2 /\ i <= n
    BY <1>1
  <2>6. \A i \in 1..n : u[i] = history[i]
    BY <2>2, <2>5
  <2>7. u[n + 1] = [role |-> "user", of |-> r, text |-> <<>>]
    BY <1>2, <2>4
  <2>8. u[n + 2] = [role |-> "assistant", of |-> r, text |-> t]
    BY <1>2, <2>4
  <2>9. QED
    BY <2>2, <2>6, <2>7, <2>8
<1> HIDE DEF u
<1>6. \A i \in 1..Len(u) : u[i].text \in Seq(Chunks)
  <2>1. <<>> \in Seq(Chunks)
    BY EmptySeq
  <2>2. \A i \in 1..Len(u) : i \in 1..n \/ i = n + 1 \/ i = n + 2
    BY <1>1, <1>5
  <2>3. u[n + 1].text = <<>> /\ u[n + 2].text = t
    BY <1>5
  <2>4. \A i \in 1..n : u[i].text \in Seq(Chunks)
    BY <1>1, <1>5
  <2>5. QED
    BY <1>1, <2>1, <2>2, <2>3, <2>4
<1>7. /\ TurnsOf(history) \in Seq(TurnRecords)
      /\ Len(TurnsOf(history)) = n \div 2
      /\ \A i \in 1..(n \div 2) :
           TurnsOf(history)[i] = [of |-> history[2 * i].of, text |-> history[2 * i].text]
  BY <1>1, <1>4, TurnsOfProperties
<1>8. turn \in TurnRecords
  BY <1>1 DEF TurnRecords
<1>9. /\ more \in Seq(TurnRecords) /\ more # <<>>
      /\ Len(more) = (n \div 2) + 1
      /\ \A i \in 1..(n \div 2) : more[i] = TurnsOf(history)[i]
      /\ more[(n \div 2) + 1] = turn
  BY <1>7, <1>8, AppendProperties
<1>10. /\ n \div 2 \in Nat /\ 2 * (n \div 2) = n /\ (n + 2) \div 2 = (n \div 2) + 1
      /\ Half \in Nat /\ 2 * Half = HistoryLimit
  BY <1>1, EvenHalf DEF Half
<1>11. \A i \in 1..Len(more) : 2 * i \in 1..Len(u) /\ more[i] = [of |-> u[2 * i].of, text |-> u[2 * i].text]
  <2>1. SUFFICES ASSUME NEW i \in 1..Len(more)
                 PROVE  2 * i \in 1..Len(u) /\ more[i] = [of |-> u[2 * i].of, text |-> u[2 * i].text]
    OBVIOUS
  <2>2. CASE i \in 1..(n \div 2)
    <3>1. 2 * i \in 1..n
      BY <1>10, <2>2
    <3>2. u[2 * i] = history[2 * i] /\ 2 * i \in 1..Len(u)
      BY <1>1, <1>5, <3>1
    <3>3. QED
      BY <1>7, <1>9, <2>2, <3>2
  <2>3. CASE i = (n \div 2) + 1
    <3>1. 2 * i = n + 2 /\ n + 2 \in 1..Len(u)
      BY <1>1, <1>5, <1>10, <2>3
    <3>2. QED
      BY <1>5, <1>9, <2>3, <3>1
  <2>4. QED
    BY <1>9, <1>10, <2>1, <2>2, <2>3
<1> HIDE DEF more, turn
<1>12. CASE n < HistoryLimit
  <2>1. n + 2 <= HistoryLimit
    BY <1>1, <1>10, <1>12
  <2>2. history' = u
    BY <1>3, <1>5, <2>1 DEF LastOf
  <2>3. Len(more) <= Half
    BY <1>1, <1>9, <1>10, <2>1
  <2>4. Len(u) % 2 = 0 /\ Len(u) \div 2 = Len(more)
    BY <1>1, <1>5, <1>9, <1>10, EvenNext
  <2>5. /\ TurnsOf(u) \in Seq(TurnRecords)
        /\ Len(TurnsOf(u)) = Len(more)
        /\ \A i \in 1..Len(more) :
             TurnsOf(u)[i] = [of |-> u[2 * i].of, text |-> u[2 * i].text]
    BY <1>5, <1>6, <2>4, TurnsOfProperties
  <2>6. TurnsOf(u) = more
    BY <1>9, <1>11, <2>5, SeqEqual
  <2>7. QED
    BY <2>2, <2>3, <2>6 DEF more, turn, t
<1>13. CASE n = HistoryLimit
  <2> DEFINE v == LastOf(u, HistoryLimit)
  <2>1. /\ v \in Seq(Messages) /\ Len(v) = n
        /\ \A i \in 1..n : v[i] = u[i + 2] /\ i + 2 \in 1..Len(u)
    <3>1. /\ u \in Seq(Messages) /\ Len(u) = HistoryLimit + 2
          /\ HistoryLimit \in Nat /\ Len(u) > HistoryLimit
      BY <1>1, <1>5, <1>13
    <3>2. /\ v \in Seq(Messages) /\ Len(v) = HistoryLimit
          /\ \A i \in 1..Len(v) : v[i] = u[Len(u) - HistoryLimit + i]
      BY <3>1, LastOfProperties
    <3> HIDE DEF v
    <3>3. \A i \in 1..n : Len(u) - HistoryLimit + i = i + 2 /\ i + 2 \in 1..Len(u)
      BY <1>13, <3>1
    <3>4. QED
      BY <1>13, <3>2, <3>3
  <2> HIDE DEF v
  <2>2. \A i \in 1..Len(v) : v[i].text \in Seq(Chunks)
    BY <1>6, <2>1
  <2>3. /\ TurnsOf(v) \in Seq(TurnRecords)
        /\ Len(TurnsOf(v)) = n \div 2
        /\ \A i \in 1..(n \div 2) :
             TurnsOf(v)[i] = [of |-> v[2 * i].of, text |-> v[2 * i].text]
    BY <1>1, <2>1, <2>2, TurnsOfProperties
  <2>4. /\ Tail(more) \in Seq(TurnRecords)
        /\ Len(Tail(more)) = n \div 2
        /\ \A i \in 1..(n \div 2) : Tail(more)[i] = more[i + 1]
    BY <1>1, <1>9, HeadTailProperties
  <2>5. ASSUME NEW i \in 1..(n \div 2) PROVE TurnsOf(v)[i] = Tail(more)[i]
    <3>1. i + 1 \in 1..Len(more) /\ 2 * (i + 1) = 2 * i + 2 /\ 2 * i \in 1..n
      BY <1>1, <1>9, <1>10
    <3>2. more[i + 1] = [of |-> u[2 * i + 2].of, text |-> u[2 * i + 2].text]
      BY <1>11, <3>1
    <3>3. v[2 * i] = u[2 * i + 2]
      BY <2>1, <3>1
    <3>4. QED
      BY <2>3, <2>4, <3>2, <3>3
  <2>6. TurnsOf(v) = Tail(more)
    BY <2>3, <2>4, <2>5, SeqEqual
  <2>7. ~(Len(more) <= Half)
    BY <1>9, <1>10, <1>13
  <2>8. QED
    BY <1>3, <2>6, <2>7 DEF v, more, turn, t
<1>14. QED
  BY <1>1, <1>12, <1>13

\* A request that is over stays over.
LEMMA ClosedForGood ==
  ASSUME TypeOK, [Next]_vars, NEW q \in Requests, at[q] = "closed"
  PROVE  at'[q] = "closed"
<1>1. at \in [Requests -> Stages]
  BY DEF TypeOK
<1>2. ASSUME NEW r \in Requests, Serve(r)
      PROVE  at' = at \/ \E l \in Stages : at' = [at EXCEPT ![r] = l] /\ at[r] # "closed"
  BY <1>2 DEF Serve, Reject, Accept, Delta, LLMEnds, LLMFails, Word, Finally, SaveFails,
              Cancel, Close, Stage, Stages
<1>3. ASSUME NEW r \in Requests, Send(r)
      PROVE  at' = [at EXCEPT ![r] = "sent"] /\ at[r] # "closed"
  BY <1>3 DEF Send, Stage
<1>4. ASSUME NEW r \in Requests, Read(r) \/ Disconnect(r) PROVE at' = at
  BY <1>4 DEF Read, OnChunk, OnDone, OnError, Disconnect
<1>5. ASSUME UNCHANGED vars \/ Clear \/ ServerClear \/ Expire PROVE at' = at
  BY <1>5 DEF vars, service, Clear, ServerClear, Expire
<1>6. QED
  BY <1>1, <1>2, <1>3, <1>4, <1>5 DEF Next

\* The messages of a list after a turn has been saved.
LEMMA SavedMessages ==
  ASSUME TypeOK, NEW r \in Requests, Saves(r), NEW i \in 1..Len(history')
  PROVE  \/ \E k \in 1..Len(history) : history'[i] = history[k]
         \/ /\ history'[i].of = r /\ history'[i].text \in Seq(Chunks)
            /\ IsAnswer(history'[i]) => history'[i].text = full[r]
<1> DEFINE added == Turn(r, full[r])
           u == history \o added
<1>1. full[r] \in Seq(Chunks) /\ full[r] \in Seq(Chunks \cup Errors) /\ <<>> \in Seq(Chunks)
  BY EmptySeq DEF TypeOK
<1>2. history \in Seq(Messages) /\ Len(history) \in Nat /\ HistoryLimit \in Nat
  BY LenProperties, SessionAssumption DEF TypeOK
<1>3. /\ added \in Seq(Messages) /\ Len(added) = 2
      /\ added[1] = [role |-> "user", of |-> r, text |-> <<>>]
      /\ added[2] = [role |-> "assistant", of |-> r, text |-> full[r]]
  BY <1>1, TurnProperties
<1>4. history' = LastOf(u, HistoryLimit)
  BY DEF Saves, AddToHistory
<1> HIDE DEF added
<1>5. /\ u \in Seq(Messages) /\ Len(u) = Len(history) + Len(added)
      /\ \A k \in 1 .. Len(history) + Len(added) :
           u[k] = IF k <= Len(history) THEN history[k] ELSE added[k - Len(history)]
  BY <1>2, <1>3, ConcatProperties
<1> HIDE DEF u
<1>6. PICK k \in 1..Len(u) : history'[i] = u[k]
  <2> DEFINE v == LastOf(u, HistoryLimit)
  <2>1. i \in 1..Len(v) /\ history'[i] = v[i]
    BY <1>4
  <2>2. u \in Seq(Messages) /\ HistoryLimit \in Nat
    BY <1>2, <1>5
  <2>3. \A j \in 1..Len(v) : Len(u) - Len(v) + j \in 1..Len(u) /\ v[j] = u[Len(u) - Len(v) + j]
    BY <2>2, LastOfProperties
  <2> HIDE DEF v
  <2>4. QED
    BY <2>1, <2>3
<1>7. CASE k <= Len(history)
  BY <1>2, <1>5, <1>6, <1>7
<1>8. CASE ~(k <= Len(history))
  <2>1. k - Len(history) = 1 \/ k - Len(history) = 2
    BY <1>2, <1>3, <1>5, <1>8
  <2>2. u[k] = added[1] \/ u[k] = added[2]
    BY <1>5, <1>8, <2>1
  <2>3. added[1].of = r /\ added[1].text = <<>> /\ added[2].of = r /\ added[2].text = full[r]
    BY <1>3
  <2>4. u[k].of = r /\ u[k].text \in Seq(Chunks)
    BY <1>1, <2>2, <2>3
  <2>5. IsAnswer(u[k]) => u[k].text = full[r]
    <3>1. ~IsAnswer(added[1])
      BY <1>3 DEF IsAnswer
    <3>2. QED
      BY <2>2, <2>3, <3>1
  <2>6. QED
    BY <1>6, <2>4, <2>5
<1>9. QED
  BY <1>7, <1>8

\* ClosedInv is inductive.
LEMMA ClosedStep == ClosedInv /\ [Next]_vars /\ TypeOK' => ClosedInv'
<1> SUFFICES ASSUME ClosedInv, [Next]_vars, TypeOK' PROVE ClosedInv'
  OBVIOUS
<1>1. TurnsInv' /\ TypeOK
  BY TurnsStep DEF ClosedInv, TurnsInv
<1>2. \A k \in 1..Len(history) :
        /\ history[k].of \in Requests
        /\ at[history[k].of] = "closed" /\ history[k].text \in Seq(Chunks)
  <2>1. \A k \in 1..Len(history) : history[k] \in Messages
    BY <1>1, ElementOfSeq DEF TypeOK
  <2>2. QED
    BY <2>1 DEF ClosedInv, Messages
<1>3. \A k \in 1..Len(history) : at'[history[k].of] = "closed"
  BY <1>1, <1>2, ClosedForGood
<1>4. \A i \in 1..Len(history') :
        at'[history'[i].of] = "closed" /\ history'[i].text \in Seq(Chunks)
  <2>1. CASE history' = history
    BY <1>2, <1>3, <2>1
  <2>2. CASE history' = <<>>
    BY <2>2, EmptySeq
  <2>3. ASSUME NEW r \in Requests, Saves(r), NEW i \in 1..Len(history')
        PROVE  at'[history'[i].of] = "closed" /\ history'[i].text \in Seq(Chunks)
    <3>1. at'[r] = "closed"
      BY <1>1, <2>3 DEF Saves, Close, Stage, TypeOK
    <3>2. QED
      BY <1>1, <1>2, <1>3, <2>3, <3>1, SavedMessages
  <2>4. QED
    BY <2>1, <2>2, <2>3, WhatChanges
<1>5. QED
  BY <1>1, <1>4 DEF ClosedInv

\* ClosedInv holds in every state.
LEMMA ClosedAlways == Spec => []ClosedInv
<1>1. Init /\ TypeOK => ClosedInv
  <2>1. SUFFICES ASSUME Init, TypeOK PROVE ClosedInv
    OBVIOUS
  <2>2. history = <<>> /\ Len(<<>>) = 0 /\ HistoryLimit \in Nat
    BY <2>1, EmptySeq, SessionAssumption DEF Init
  <2>3. TurnsInv
    BY <2>1, <2>2, EmptyIsTurns DEF Init, TurnsInv, HistoryIsTurns
  <2>4. QED
    BY <2>2, <2>3 DEF ClosedInv
<1>2. QED
  BY <1>1, TypeCorrect, ClosedStep, PTL DEF Spec

\* An empty list is no turns.
LEMMA NoTurns == TurnsOf(<<>>) = <<>>
<1>1. <<>> \in Seq(Messages) /\ Len(<<>>) = 0
  BY EmptySeq
<1>2. Len(<<>>) % 2 = 0 /\ Len(<<>>) \div 2 = 0 /\ \A i \in 1..Len(<<>>) : <<>>[i].text \in Seq(Chunks)
  BY <1>1
<1>3. TurnsOf(<<>>) \in Seq(TurnRecords) /\ Len(TurnsOf(<<>>)) = 0
  BY <1>1, <1>2, TurnsOfProperties
<1>4. QED
  BY <1>3, EmptySeq

\* What is saved is a new turn of the conversation.
LEMMA SavedTurn ==
  ASSUME ClosedInv, NEW r \in Requests, Saves(r)
  PROVE  Memory!Remember
<1> DEFINE before == TurnsOf(history)
           turn   == [of |-> r, text |-> full[r]]
           more   == Append(before, turn)
<1>1. TurnsOf(history') = IF Len(more) <= Half THEN more ELSE Tail(more)
  BY AddedTurn DEF Saves
<1>2. /\ history \in Seq(Messages) /\ Len(history) \in Nat /\ Len(history) % 2 = 0
      /\ \A i \in 1..Len(history) : at[history[i].of] = "closed" /\ history[i].text \in Seq(Chunks)
      /\ full[r] \in Seq(Chunks) /\ full[r] # <<>> /\ at[r] # "closed"
  BY LenProperties DEF ClosedInv, TurnsInv, TypeOK, HistoryIsTurns, WholeTurns, Saves
<1>3. /\ before \in Seq(TurnRecords)
      /\ Len(before) = Len(history) \div 2
      /\ \A i \in 1..(Len(history) \div 2) :
           before[i] = [of |-> history[2 * i].of, text |-> history[2 * i].text]
  BY <1>2, TurnsOfProperties
<1>4. turn \in TurnRecords
  BY <1>2 DEF TurnRecords
<1>5. \A i \in 1..Len(before) : before[i].of # r
  <2>1. SUFFICES ASSUME NEW i \in 1..Len(before) PROVE before[i].of # r
    OBVIOUS
  <2>2. 2 * i \in 1..Len(history)
    BY <1>2, <1>3, EvenHalf
  <2>3. before[i].of = history[2 * i].of
    BY <1>3
  <2>4. QED
    BY <1>2, <2>2, <2>3
<1> HIDE DEF before
<1>6. /\ more \in Seq(TurnRecords)
      /\ Len(more) = Len(before) + 1 /\ Len(before) \in Nat
      /\ more[Len(before) + 1] = turn
  BY <1>3, <1>4, AppendProperties, LenProperties
<1> HIDE DEF turn, more
<1>7. Half \in Nat \ {0}
  BY SessionAssumption DEF Half
<1> DEFINE after == TurnsOf(history')
<1>8. after # <<>> /\ after[Len(after)] = turn
  <2>1. CASE Len(more) <= Half
    BY <1>1, <1>6, <2>1, EmptySeq
  <2>2. CASE ~(Len(more) <= Half)
    <3>1. /\ Tail(more) \in Seq(TurnRecords) /\ Len(Tail(more)) = Len(before)
          /\ \A i \in 1..Len(before) : Tail(more)[i] = more[i + 1]
      BY <1>6, EmptySeq, HeadTailProperties
    <3>2. Len(before) \in 1..Len(before)
      BY <1>6, <1>7, <2>2
    <3>3. Tail(more)[Len(before)] = turn /\ Tail(more) # <<>>
      BY <1>6, <3>1, <3>2, EmptySeq
    <3>4. QED
      BY <1>1, <2>2, <3>1, <3>3
  <2>3. QED
    BY <2>1, <2>2
<1>9. turn.of = r /\ turn.text = full[r]
  BY DEF turn
<1>10. after = Memory!Latest(Append(TurnsOf(history), turn))
  BY <1>1 DEF Memory!Latest, Half, more, before
<1> HIDE DEF after
<1>11. \A i \in 1..Len(TurnsOf(history)) : TurnsOf(history)[i].of # turn.of
  BY <1>5, <1>9 DEF before
<1>12. QED
  BY <1>2, <1>8, <1>9, <1>10, <1>11 DEF Memory!Remember, after

\* The list in Redis implements Conversation: every step of a session adds one new
\* turn at the end, forgets all turns, or leaves them alone.
THEOREM ImplementsConversation == Spec => KeepsConversation
<1>1. Init => Memory!Init
  BY NoTurns DEF Init, Memory!Init
<1>2. ClosedInv /\ [Next]_vars /\ TypeOK' => [Memory!Next]_(TurnsOf(history))
  <2> SUFFICES ASSUME ClosedInv, [Next]_vars, TypeOK' PROVE [Memory!Next]_(TurnsOf(history))
    OBVIOUS
  <2>1. CASE history' = history
    BY <2>1
  <2>2. CASE history' = <<>>
    BY <2>2, NoTurns DEF Memory!Next, Memory!Forget
  <2>3. ASSUME NEW r \in Requests, Saves(r) PROVE Memory!Next
    BY <2>3, SavedTurn DEF Memory!Next
  <2>4. QED
    BY <2>1, <2>2, <2>3, WhatChanges
<1>3. QED
  BY <1>1, <1>2, TypeCorrect, ClosedAlways, PTL DEF Spec, KeepsConversation, Memory!Spec
=============================================================================
