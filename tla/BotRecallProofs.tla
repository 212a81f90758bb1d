-------------------------- MODULE BotRecallProofs --------------------------
(***************************************************************************)
(* What the panel shows of an answer is what the list stores of it, and    *)
(* what the user has read to its end is what the next question is answered *)
(* with: theorems about BotSession for every number of questions and every *)
(* even limit of the history and of the context.                           *)
(***************************************************************************)
EXTENDS BotSessionProofs

-----------------------------------------------------------------------------
(***************************************************************************)
(* The last bubble.  While the browser reads an answer, the text of the    *)
(* last bubble and the events on their way are what the service has        *)
(* produced; once the request is closed they are what it has stored,       *)
(* followed by [DONE].                                                     *)
(***************************************************************************)

\* The texts that the list stores of the answer to r.
Answers(r) ==
  {history[k].text : k \in {k \in 1..Len(history) : IsAnswer(history[k]) /\ history[k].of = r}}

\* What the last bubble shows and will show of the answer to r.
Sight(r) == messages[Len(messages)].text \o events[r]

\* Chunks and then, as the last event, [DONE] or an error.
Ended(s) ==
  /\ s # <<>>
  /\ \A k \in 1..Len(s) : s[k].type \in {"delta", "word"} <=> k # Len(s)

InStep(r) ==
  /\ at[r] # "closed" =>
       /\ events[r] \in Seq(Chunks)
       /\ messages # <<>> => Sight(r) = full[r]
  /\ at[r] = "closed" =>
       /\ Ended(events[r])
       /\ messages # <<>> => \A t \in Answers(r) : Sight(r) = Append(t, Event("done", r))

\* A bubble that is no longer written to.
Told(m) ==
  ~IsError(m) => at[m.of] = "closed" /\ \A t \in Answers(m.of) : m.text = t

BubbleOK(i) ==
  /\ at[messages[i].of] # "unsent"
  /\ IsAnswer(messages[i]) =>
       /\ messages[i].of \in reading => i = Len(messages)
       /\ messages[i].of \notin reading => Told(messages[i])

Shows ==
  /\ \A r \in Requests : at[r] = "unsent" => full[r] = <<>> /\ events[r] = <<>>
  /\ \A r \in reading : at[r] # "unsent" /\ InStep(r)
  /\ messages # <<>> => IsAnswer(messages[Len(messages)])
  /\ \A i \in 1..Len(messages) : BubbleOK(i)

ShownInv == BubblesInv /\ ClosedInv /\ Shows

\* How a bubble and the events on their way make up one text.
LEMMA TextsJoined ==
  ASSUME NEW S, NEW b \in Seq(S), NEW s \in Seq(S)
  PROVE  /\ b \o s \in Seq(S)
         /\ \A e \in S : b \o Append(s, e) = Append(b \o s, e)
         /\ s # <<>> => Append(b, Head(s)) \o Tail(s) = b \o s
<1>1. b \o s \in Seq(S)
  BY ConcatProperties
<1>2. ASSUME NEW e \in S PROVE b \o Append(s, e) = Append(b \o s, e)
  <2>1. <<e>> \in Seq(S)
    OBVIOUS
  <2>2. Append(s, e) = s \o <<e>> /\ Append(b \o s, e) = (b \o s) \o <<e>>
    BY <1>1, AppendIsConcat
  <2>3. QED
    BY <2>1, <2>2, ConcatAssociative
<1>3. ASSUME s # <<>> PROVE Append(b, Head(s)) \o Tail(s) = b \o s
  <2> DEFINE u == Append(b, Head(s))
             x == u \o Tail(s)
             y == b \o s
  <2>1. /\ Head(s) \in S /\ Tail(s) \in Seq(S) /\ Head(s) = s[1]
        /\ Len(Tail(s)) = Len(s) - 1
        /\ \A i \in 1..Len(Tail(s)) : Tail(s)[i] = s[i + 1]
        /\ Len(s) \in Nat \ {0} /\ Len(b) \in Nat
    BY <1>3, HeadTailProperties, LenProperties, EmptySeq
  <2>2. /\ u \in Seq(S) /\ Len(u) = Len(b) + 1
        /\ \A i \in 1..Len(b) : u[i] = b[i]
        /\ u[Len(b) + 1] = Head(s)
    BY <2>1, AppendProperties
  <2> HIDE DEF u
  <2>3. /\ x \in Seq(S) /\ Len(x) = Len(u) + Len(Tail(s))
        /\ \A i \in 1 .. Len(u) + Len(Tail(s)) :
             x[i] = IF i <= Len(u) THEN u[i] ELSE Tail(s)[i - Len(u)]
    BY <2>1, <2>2, ConcatProperties
  <2>4. /\ y \in Seq(S) /\ Len(y) = Len(b) + Len(s)
        /\ \A i \in 1 .. Len(b) + Len(s) : y[i] = IF i <= Len(b) THEN b[i] ELSE s[i - Len(b)]
    BY ConcatProperties
  <2> HIDE DEF x, y
  <2>5. Len(x) = Len(y)
    BY <2>1, <2>2, <2>3, <2>4
  <2>6. ASSUME NEW i \in 1..Len(x) PROVE x[i] = y[i]
    <3>1. i \in Nat /\ i \in 1 .. Len(u) + Len(Tail(s)) /\ i \in 1 .. Len(b) + Len(s)
      BY <2>3, <2>4, <2>5
    <3>2. CASE i <= Len(b)
      <4>1. i <= Len(u) /\ i \in 1..Len(b)
        BY <2>1, <2>2, <3>1, <3>2
      <4>2. x[i] = u[i] /\ u[i] = b[i]
        BY <2>2, <2>3, <3>1, <4>1
      <4>3. y[i] = b[i]
        BY <2>4, <3>1, <3>2
      <4>4. QED
        BY <4>2, <4>3
    <3>3. CASE i = Len(b) + 1
      <4>1. x[i] = Head(s)
        BY <2>1, <2>2, <2>3, <3>1, <3>3
      <4>2. i - Len(b) = 1 /\ ~(i <= Len(b))
        BY <2>1, <3>3
      <4>3. QED
        BY <2>1, <2>4, <3>1, <4>1, <4>2
    <3>4. CASE i > Len(b) + 1
      <4>1. i - Len(u) \in 1..Len(Tail(s)) /\ (i - Len(u)) + 1 = i - Len(b)
        BY <2>1, <2>2, <3>1, <3>4
      <4>2. x[i] = Tail(s)[i - Len(u)]
        BY <2>1, <2>2, <2>3, <3>1, <3>4
      <4>3. y[i] = s[i - Len(b)]
        BY <2>1, <2>4, <3>1, <3>4
      <4>4. QED
        BY <2>1, <4>1, <4>2, <4>3
    <3>5. QED
      BY <2>1, <3>1, <3>2, <3>3, <3>4
  <2>7. x = y
    BY <2>3, <2>4, <2>5, <2>6, SeqEqual
  <2>8. QED
    BY <2>7 DEF x, y, u
<1>4. QED
  BY <1>1, <1>2, <1>3

\* The stored texts are answers; they belong to requests that are over.
LEMMA AnswersKnown ==
  ASSUME ClosedInv, NEW r \in Requests
  PROVE  /\ \A t \in Answers(r) : t \in Seq(Chunks)
         /\ at[r] # "closed" => Answers(r) = {}
BY DEF ClosedInv, Answers

\* A step of the service stores nothing but the answer it saves.
LEMMA AnswersServed ==
  ASSUME ClosedInv, NEW r \in Requests, Serve(r), NEW q \in Requests
  PROVE  /\ ~(q = r /\ Saves(r)) => Answers(q)' \subseteq Answers(q)
         /\ Answers(r)' \subseteq Answers(r) \cup {full[r]}
<1>1. TypeOK
  BY DEF ClosedInv, TurnsInv
<1>2. history' = history \/ Saves(r)
  BY DEF Serve, Reject, Accept, Delta, LLMEnds, LLMFails, Word, Finally, SaveFails, Cancel,
         Saves, Close
<1>3. CASE history' = history
  BY <1>3 DEF Answers
<1>4. CASE Saves(r)
  <2>1. ASSUME NEW p \in Requests, NEW t \in Answers(p)'
        PROVE  t \in Answers(p) \/ (p = r /\ t = full[r])
    <3>1. PICK i \in 1..Len(history') :
            IsAnswer(history'[i]) /\ history'[i].of = p /\ t = history'[i].text
      BY <2>1 DEF Answers, IsAnswer
    <3>2. CASE \E k \in 1..Len(history) : history'[i] = history[k]
      BY <3>1, <3>2 DEF Answers
    <3>3. CASE /\ history'[i].of = r
               /\ IsAnswer(history'[i]) => history'[i].text = full[r]
      BY <3>1, <3>3
    <3>4. QED
      BY <1>1, <1>4, <3>2, <3>3, SavedMessages
  <2>2. QED
    BY <1>4, <2>1
<1>5. QED
  BY <1>2, <1>3, <1>4

\* What the last bubble has to do with sequences.
LEMMA LastBubble ==
  ASSUME ShownInv
  PROVE  /\ messages \in Seq(Messages) /\ Len(messages) \in Nat
         /\ messages # <<>> => /\ Len(messages) \in 1..Len(messages)
                              /\ messages[Len(messages)] \in Messages
                              /\ messages[Len(messages)].text \in Seq(Events)
<1>1. messages \in Seq(Messages) /\ Len(messages) \in Nat
  BY LenProperties DEF ShownInv, BubblesInv, TypeOK
<1>2. ASSUME messages # <<>>
      PROVE  /\ Len(messages) \in 1..Len(messages)
             /\ messages[Len(messages)] \in Messages
             /\ messages[Len(messages)].text \in Seq(Events)
  <2>1. Len(messages) \in 1..Len(messages)
    BY <1>1, <1>2, EmptySeq
  <2>2. messages[Len(messages)] \in Messages
    BY <1>1, <2>1, ElementOfSeq
  <2>3. messages[Len(messages)].text \in Seq(Chunks \cup Errors)
    BY <2>2 DEF Messages
  <2>4. Chunks \cup Errors \subseteq Events
    BY DEF Events, Errors
  <2>5. QED
    BY <2>1, <2>2, <2>3, <2>4, SeqMonotonic
<1>3. QED
  BY <1>1, <1>2

\* An answer that ends: the end is sent behind the chunks on their way.
LEMMA ClosingShows ==
  ASSUME ShownInv, NEW r \in reading, at[r] # "closed", NEW x \in {"done", "error"},
         events' = [events EXCEPT ![r] = Append(@, Event(x, r))], at'[r] = "closed",
         messages' = messages,
         Answers(r)' \subseteq {full[r]}, x = "error" => Answers(r)' = {}
  PROVE  InStep(r)'
<1> DEFINE e == events[r]
           end == Event(x, r)
<1>1. /\ r \in Requests /\ e \in Seq(Chunks) /\ events'[r] = Append(e, end)
      /\ messages # <<>> => Sight(r) = full[r]
  BY DEF ShownInv, BubblesInv, TypeOK, Shows, InStep
<1>2. end \in Events /\ end.type = x /\ (x = "done" => end = Event("done", r))
  BY <1>1 DEF Event, Events
<1>3. e \in Seq(Events) /\ Len(e) \in Nat /\ \A k \in 1..Len(e) : e[k].type \in {"delta", "word"}
  <2>1. Chunks \subseteq Events
    BY DEF Events
  <2>2. \A k \in 1..Len(e) : e[k] \in Chunks
    BY <1>1, ElementOfSeq
  <2>3. QED
    BY <1>1, <2>1, <2>2, LenProperties, SeqMonotonic DEF Chunks
<1> HIDE DEF e, end
<1>4. /\ Append(e, end) # <<>> /\ Len(Append(e, end)) = Len(e) + 1
      /\ \A k \in 1..Len(e) : Append(e, end)[k] = e[k]
      /\ Append(e, end)[Len(e) + 1] = end
  BY <1>2, <1>3, AppendProperties
<1>5. Ended(Append(e, end))
  <2>1. ASSUME NEW k \in 1..Len(Append(e, end))
        PROVE  Append(e, end)[k].type \in {"delta", "word"} <=> k # Len(Append(e, end))
    <3>1. CASE k \in 1..Len(e)
      BY <1>3, <1>4, <3>1
    <3>2. CASE k = Len(e) + 1
      BY <1>2, <1>4, <3>2
    <3>3. QED
      BY <1>3, <1>4, <3>1, <3>2
  <2>2. QED
    BY <1>4, <2>1 DEF Ended
<1>6. ASSUME messages # <<>>, NEW t \in Answers(r)'
      PROVE  Sight(r)' = Append(t, Event("done", r))
  <2>1. t = full[r] /\ x = "done"
    BY <1>6
  <2>2. messages[Len(messages)].text \in Seq(Events)
    BY <1>6, LastBubble
  <2>3. e \in Seq(Events) /\ end \in Events
    BY <1>2, <1>3, SeqMonotonic
  <2>4. PICK b \in Seq(Events) : b = messages[Len(messages)].text
    BY <2>2
  <2>5. b \o Append(e, end) = Append(b \o e, end)
    BY <2>3, TextsJoined
  <2>6. QED
    BY <1>1, <1>2, <1>6, <2>1, <2>4, <2>5 DEF Sight, e
<1>7. QED
  BY <1>1, <1>5, <1>6 DEF InStep

\* A chunk more: in the text of the service, and on its way to the bubble.
LEMMA SayingShows ==
  ASSUME ShownInv, NEW r \in reading, at[r] # "closed", at'[r] # "closed",
         NEW type \in {"delta", "word"}, Say(r, type), messages' = messages
  PROVE  InStep(r)'
<1> DEFINE e == events[r]
           chunk == Event(type, r)
<1>1. /\ r \in Requests /\ e \in Seq(Chunks) /\ events'[r] = Append(e, chunk)
      /\ full'[r] = Append(full[r], chunk)
      /\ messages # <<>> => Sight(r) = full[r]
  BY DEF ShownInv, BubblesInv, TypeOK, Shows, InStep, Say, Emit
<1>2. chunk \in Chunks
  BY <1>1 DEF Event, Chunks
<1> HIDE DEF e, chunk
<1>3. Append(e, chunk) \in Seq(Chunks)
  BY <1>1, <1>2, AppendProperties
<1>4. ASSUME messages # <<>> PROVE Sight(r)' = full'[r]
  <2>1. messages[Len(messages)].text \in Seq(Events)
    BY <1>4, LastBubble
  <2>2. Chunks \subseteq Events
    BY DEF Events
  <2>3. e \in Seq(Events) /\ chunk \in Events
    BY <1>1, <1>2, <2>2, SeqMonotonic
  <2>4. PICK b \in Seq(Events) : b = messages[Len(messages)].text
    BY <2>1
  <2>5. b \o Append(e, chunk) = Append(b \o e, chunk)
    BY <2>3, TextsJoined
  <2>6. QED
    BY <1>1, <1>4, <2>4, <2>5 DEF Sight, e
<1>5. QED
  BY <1>1, <1>3, <1>4 DEF InStep

\* The service: what it says, stores and ends is what the last bubble will show.
LEMMA ServeShows ==
  ASSUME ShownInv, NEW r \in Requests, Serve(r)
  PROVE  Shows'
<1>1. /\ TypeOK /\ ClosedInv /\ reading \subseteq Requests
      /\ messages' = messages /\ reading' = reading
      /\ at[r] # "unsent" /\ at[r] # "closed" /\ at'[r] # "unsent"
      /\ \A q \in Requests : q # r => /\ at'[q] = at[q] /\ events'[q] = events[q]
                                     /\ full'[q] = full[q]
  <2>1. TypeOK /\ ClosedInv
    BY DEF ShownInv, ClosedInv, TurnsInv
  <2>2. /\ messages' = messages /\ reading' = reading
        /\ at[r] # "unsent" /\ at[r] # "closed"
        /\ at' = at \/ \E l \in Stages \ {"unsent"} : at' = [at EXCEPT ![r] = l]
    BY DEF Serve, Reject, Accept, Delta, LLMEnds, LLMFails, Word, Finally, SaveFails,
           Cancel, Close, Stage, Stages, panel
  <2>3. /\ events' = events \/ \E s : events' = [events EXCEPT ![r] = s]
        /\ full' = full \/ \E s : full' = [full EXCEPT ![r] = s]
    BY DEF Serve, Reject, Accept, Delta, LLMEnds, LLMFails, Word, Finally, SaveFails,
           Cancel, Close, Say, Emit
  <2>4. QED
    BY <2>1, <2>2, <2>3 DEF TypeOK
<1>2. ASSUME NEW q \in Requests, q # r
      PROVE  Answers(q)' \subseteq Answers(q)
  BY <1>1, <1>2, AnswersServed
<1>3. Answers(r) = {} /\ Answers(r)' \subseteq {full[r]}
      /\ (~Saves(r) => Answers(r)' = {})
  BY <1>1, AnswersKnown, AnswersServed
<1>4. ASSUME r \in reading PROVE InStep(r)'
  <2>1. ASSUME Reject(r) \/ (Accept(r) /\ kind[r] = "odd") \/ SaveFails(r) PROVE InStep(r)'
    <3>1. /\ events' = [events EXCEPT ![r] = Append(@, Event("error", r))]
          /\ at'[r] = "closed" /\ history' = history
      BY <1>1, <1>4, <2>1 DEF Reject, Accept, SaveFails, Emit, Close, Stage, TypeOK
    <3>2. Answers(r)' = {}
      BY <1>3, <3>1 DEF Answers
    <3>3. QED
      BY <1>1, <1>3, <1>4, <3>1, <3>2, ClosingShows
  <2>2. ASSUME Finally(r) PROVE InStep(r)'
    <3>1. /\ events' = [events EXCEPT ![r] = Append(@, Event("done", r))]
          /\ at'[r] = "closed"
      BY <1>1, <1>4, <2>2 DEF Finally, Emit, Close, Stage, TypeOK
    <3>2. QED
      BY <1>1, <1>3, <1>4, <3>1, ClosingShows
  <2>3. ASSUME Delta(r) \/ Word(r) PROVE InStep(r)'
    <3>1. at'[r] # "closed" /\ \E type \in {"delta", "word"} : Say(r, type)
      BY <1>1, <2>3 DEF Delta, Word, Stage, TypeOK
    <3>2. QED
      BY <1>1, <1>4, <3>1, SayingShows
  <2>4. ASSUME (Accept(r) /\ kind[r] # "odd") \/ LLMEnds(r) \/ LLMFails(r) PROVE InStep(r)'
    <3>1. at'[r] # "closed" /\ events' = events /\ full' = full
      BY <1>1, <2>4 DEF Accept, LLMEnds, LLMFails, Stage, TypeOK
    <3>2. QED
      BY <1>1, <1>4, <3>1 DEF ShownInv, Shows, InStep, Sight
  <2>5. ~Cancel(r)
    BY <1>4 DEF Cancel
  <2>6. QED
    BY <2>1, <2>2, <2>3, <2>4, <2>5 DEF Serve
<1>5. ASSUME NEW q \in reading PROVE at'[q] # "unsent" /\ InStep(q)'
  <2>1. CASE q = r
    BY <1>1, <1>4, <1>5, <2>1
  <2>2. CASE q # r
    BY <1>1, <1>2, <1>5, <2>2 DEF ShownInv, Shows, InStep, Sight
  <2>3. QED
    BY <2>1, <2>2
<1>6. ASSUME NEW i \in 1..Len(messages) PROVE BubbleOK(i)'
  <2>1. messages[i] \in Messages
    BY <1>1, ElementOfSeq DEF TypeOK
  <2>2. PICK q \in Requests : q = messages[i].of
    BY <2>1 DEF Messages
  <2>3. BubbleOK(i)
    BY DEF ShownInv, Shows
  <2>4. at'[q] # "unsent"
    BY <1>1, <2>2, <2>3 DEF BubbleOK
  <2>5. ASSUME at[q] = "closed" PROVE at'[q] = "closed" /\ Answers(q)' \subseteq Answers(q)
    BY <1>1, <1>2, <2>5
  <2>6. Told(messages[i]) => Told(messages[i])'
    BY <1>1, <2>2, <2>5 DEF Told, IsError
  <2>7. QED
    BY <1>1, <2>2, <2>3, <2>4, <2>6 DEF BubbleOK, IsAnswer
<1>7. QED
  BY <1>1, <1>5, <1>6 DEF ShownInv, Shows, IsAnswer

\* The bubbles above the last one, which the panel leaves alone.
LEMMA OldBubbles ==
  ASSUME ShownInv, at' = at, history' = history, reading' \subseteq reading,
         NEW i \in 1..Len(messages), i # Len(messages), messages'[i] = messages[i]
  PROVE  BubbleOK(i)'
<1>1. BubbleOK(i) /\ (IsAnswer(messages[i]) => messages[i].of \notin reading)
  BY DEF ShownInv, Shows, BubbleOK
<1>2. Told(messages[i]) => Told(messages[i])'
  BY DEF Told, IsError, Answers
<1>3. QED
  BY <1>1, <1>2 DEF BubbleOK, IsAnswer

\* A chunk goes from the events to the bubble.
LEMMA ChunkShows ==
  ASSUME ShownInv, NEW r \in Requests, OnChunk(r)
  PROVE  Shows'
<1> DEFINE n == Len(messages)
           b == messages[n].text
           e == events[r]
<1>1. /\ TypeOK /\ r \in reading /\ reading \subseteq Requests
      /\ \A q \in reading : q = r
      /\ at[r] # "unsent" /\ InStep(r)
      /\ at' = at /\ full' = full /\ history' = history
  BY DEF ShownInv, BubblesInv, OneReader, Shows, OnChunk, Receive, TypeOK
<1>2. /\ e # <<>> /\ Head(e) = e[1] /\ Head(e) \in Events /\ Head(e).type \in {"delta", "word"}
      /\ 1 \in 1..Len(e) /\ events' = [events EXCEPT ![r] = Tail(e)] /\ e \in Seq(Events)
  <2>1. Receive(r, {"delta", "word"})
    BY DEF OnChunk
  <2>2. QED
    BY <1>1, <2>1, ReceiveProperties DEF Receive, TypeOK
<1>3. \A q \in Requests : at'[q] = "unsent" => full'[q] = <<>> /\ events'[q] = <<>>
  BY <1>1, <1>2 DEF ShownInv, Shows, TypeOK
<1>4. CASE messages = <<>>
  <2>1. messages' = <<>> /\ reading' = {} /\ Len(<<>>) = 0
    BY <1>4, EmptySeq DEF OnChunk
  <2>2. QED
    BY <1>3, <2>1 DEF Shows
<1>5. CASE messages # <<>>
  <2>1. /\ n \in 1..n /\ messages[n] \in Messages /\ b \in Seq(Events) /\ n \in Nat
        /\ messages \in Seq(Messages)
        /\ IsAnswer(messages[n]) /\ messages[n].of = r
    BY <1>1, <1>5, LastBubble DEF ShownInv, Shows, BubblesInv
  <2>2. messages' = [messages EXCEPT ![n].text = Append(b, Head(e))] /\ reading' = reading
    BY <1>5 DEF OnChunk, SetLast
  <2>3. b \in Seq(Chunks \cup Errors) /\ Head(e) \in Chunks \cup Errors
    BY <1>2, <2>1 DEF Messages, Events, Chunks
  <2>4. Append(b, Head(e)) \in Seq(Chunks \cup Errors)
    BY <2>3, AppendProperties
  <2>5. /\ Len(messages') = n /\ messages' # <<>>
        /\ \A i \in 1..n : i # n => messages'[i] = messages[i]
        /\ messages'[n] = [messages[n] EXCEPT !.text = Append(b, Head(e))]
    <3>1. SetLast(Append(b, Head(e)))
      BY <1>5, <2>2 DEF SetLast
    <3>2. /\ Len(messages') = n
          /\ \A i \in 1..n : messages'[i] = IF i = n THEN [messages[i] EXCEPT !.text = Append(b, Head(e))]
                                                    ELSE messages[i]
      BY <2>1, <2>4, <3>1, SetLastProperties
    <3>3. messages' # <<>>
      BY <2>1, <3>2, EmptySeq
    <3>4. QED
      BY <2>1, <3>2, <3>3
  <2>6. messages'[n].of = r /\ messages'[n].text = Append(b, Head(e)) /\ IsAnswer(messages'[n])
    BY <2>1, <2>5 DEF Messages, IsAnswer
  <2>7. Sight(r)' = Sight(r)
    <3>1. messages'[Len(messages')].text = Append(b, Head(e)) /\ events'[r] = Tail(e)
      BY <1>1, <1>2, <2>5, <2>6 DEF TypeOK
    <3>2. Append(b, Head(e)) \o Tail(e) = b \o e
      BY <1>2, <2>1, TextsJoined
    <3>3. QED
      BY <3>1, <3>2 DEF Sight
  <2>8. InStep(r)'
    <3>1. ASSUME at[r] # "closed" PROVE events'[r] \in Seq(Chunks)
      <4>1. e \in Seq(Chunks)
        BY <1>1, <3>1 DEF InStep
      <4>2. Tail(e) \in Seq(Chunks)
        BY <1>2, <4>1, HeadTailProperties
      <4>3. QED
        BY <1>1, <1>2, <4>2 DEF TypeOK
    <3>2. ASSUME at[r] = "closed" PROVE Ended(events'[r])
      <4>1. \A k \in 1..Len(e) : e[k].type \in {"delta", "word"} <=> k # Len(e)
        BY <1>1, <3>2 DEF InStep, Ended
      <4>2. 1 # Len(e) /\ Len(e) \in Nat
        BY <1>2, <4>1, LenProperties
      <4>3. /\ Tail(e) \in Seq(Events) /\ Len(Tail(e)) = Len(e) - 1
            /\ \A k \in 1..Len(Tail(e)) : Tail(e)[k] = e[k + 1]
        BY <1>2, HeadTailProperties
      <4>4. Tail(e) # <<>>
        <5>1. Len(Tail(e)) # 0 /\ Len(<<>>) = 0
          BY <1>2, <4>2, <4>3, EmptySeq
        <5>2. QED
          BY <5>1
      <4>5. \A k \in 1..Len(Tail(e)) : k + 1 \in 1..Len(e) /\ (k + 1 # Len(e) <=> k # Len(Tail(e)))
        BY <4>2, <4>3
      <4>6. Ended(Tail(e))
        BY <4>1, <4>3, <4>4, <4>5 DEF Ended
      <4>7. QED
        BY <1>1, <1>2, <4>6 DEF TypeOK
    <3>3. Answers(r)' = Answers(r)
      BY <1>1 DEF Answers
    <3>4. QED
      BY <1>1, <1>5, <2>7, <3>1, <3>2, <3>3 DEF InStep
  <2>9. ASSUME NEW i \in 1..n PROVE BubbleOK(i)'
    <3>1. CASE i = n
      BY <1>1, <2>2, <2>5, <2>6, <3>1 DEF BubbleOK
    <3>2. CASE i # n
      BY <1>1, <2>2, <2>5, <3>2, OldBubbles
    <3>3. QED
      BY <3>1, <3>2
  <2>10. QED
    BY <1>1, <1>3, <2>2, <2>5, <2>6, <2>8, <2>9 DEF Shows, IsAnswer
<1>6. QED
  BY <1>4, <1>5

\* [DONE] is the last event of a request that is over.
LEMMA DoneIsLast ==
  ASSUME ShownInv, NEW r \in Requests, OnDone(r)
  PROVE  at[r] = "closed" /\ Len(events[r]) = 1
<1> DEFINE e == events[r]
<1>1. TypeOK /\ r \in reading /\ InStep(r)
  BY DEF ShownInv, BubblesInv, Shows, OnDone, Receive
<1>2. Head(e) = e[1] /\ Head(e).type = "done" /\ 1 \in 1..Len(e)
  <2>1. Receive(r, {"done"})
    BY DEF OnDone
  <2>2. QED
    BY <1>1, <2>1, ReceiveProperties DEF Receive
<1>3. ASSUME at[r] # "closed" PROVE FALSE
  <2>1. e \in Seq(Chunks)
    BY <1>1, <1>3 DEF InStep
  <2>2. e[1] \in Chunks
    BY <1>2, <2>1, ElementOfSeq
  <2>3. QED
    BY <1>2, <2>2 DEF Chunks
<1>4. Ended(e)
  BY <1>1, <1>3 DEF InStep
<1>5. QED
  BY <1>2, <1>3, <1>4 DEF Ended

\* The text of the bubble that is complete is the stored one.
LEMMA DoneShows ==
  ASSUME ShownInv, NEW r \in Requests, OnDone(r)
  PROVE  Shows'
<1> DEFINE n == Len(messages)
           b == messages[n].text
           e == events[r]
<1>1. /\ TypeOK /\ r \in reading /\ \A q \in reading : q = r
      /\ at[r] # "unsent" /\ InStep(r)
      /\ at' = at /\ full' = full /\ history' = history /\ messages' = messages
      /\ reading' = {}
  BY DEF ShownInv, BubblesInv, OneReader, Shows, OnDone, Receive
<1>2. /\ Head(e) = e[1] /\ Head(e) \in Events /\ Head(e).type = "done"
      /\ 1 \in 1..Len(e) /\ events' = [events EXCEPT ![r] = Tail(e)] /\ e \in Seq(Events)
  <2>1. Receive(r, {"done"})
    BY DEF OnDone
  <2>2. QED
    BY <1>1, <2>1, ReceiveProperties DEF Receive, TypeOK
<1>3. \A q \in Requests : at'[q] = "unsent" => full'[q] = <<>> /\ events'[q] = <<>>
  BY <1>1, <1>2 DEF ShownInv, Shows, TypeOK
<1>4. at[r] = "closed" /\ Len(e) = 1
  BY DoneIsLast
<1>5. ASSUME messages # <<>>, NEW t \in Answers(r) PROVE b = t
  <2>1. b \o e = Append(t, Event("done", r))
    BY <1>1, <1>4, <1>5 DEF InStep, Sight
  <2>2. b \in Seq(Events) /\ t \in Seq(Chunks)
    BY <1>5, LastBubble, AnswersKnown DEF ShownInv
  <2>3. Chunks \subseteq Events /\ Event("done", r) \in Events
    BY DEF Events, Event
  <2>4. t \in Seq(Events)
    BY <2>2, <2>3, SeqMonotonic
  <2>5. e = <<e[1]>> /\ e[1] \in Events
    BY <1>2, <1>4
  <2>6. Append(b, e[1]) = Append(t, Event("done", r))
    BY <2>1, <2>2, <2>5, AppendIsConcat
  <2>7. QED
    BY <2>2, <2>3, <2>4, <2>5, <2>6, AppendInjective
<1>6. ASSUME NEW i \in 1..n PROVE BubbleOK(i)'
  <2>1. CASE i = n
    <3>1. messages # <<>>
      BY <1>6, EmptySeq
    <3>2. messages[n].of = r
      BY <1>1, <3>1 DEF ShownInv, BubblesInv
    <3>3. Told(messages[n])'
      BY <1>1, <1>4, <1>5, <3>1, <3>2 DEF Told, Answers
    <3>4. QED
      BY <1>1, <2>1, <3>2, <3>3 DEF BubbleOK
  <2>2. CASE i # n
    BY <1>1, <2>2, OldBubbles
  <2>3. QED
    BY <2>1, <2>2
<1>7. messages # <<>> => IsAnswer(messages[n])
  BY DEF ShownInv, Shows
<1>8. QED
  BY <1>1, <1>3, <1>6, <1>7 DEF Shows, IsAnswer

\* The bubble of an answer that fails is an error.
LEMMA FailShows ==
  ASSUME ShownInv, NEW r \in Requests, OnError(r) \/ Disconnect(r)
  PROVE  Shows'
<1> DEFINE n == Len(messages)
           error == <<Event("error", r)>>
<1>1. /\ TypeOK /\ r \in reading /\ \A q \in reading : q = r
      /\ at[r] # "unsent"
      /\ at' = at /\ full' = full /\ history' = history
      /\ reading' = {} /\ SetLast(error)
  BY DEF ShownInv, BubblesInv, OneReader, Shows, OnError, Disconnect, Receive, Fails
<1>2. \E s : events' = [events EXCEPT ![r] = s]
  BY DEF OnError, Disconnect, Receive
<1>3. \A q \in Requests : at'[q] = "unsent" => full'[q] = <<>> /\ events'[q] = <<>>
  BY <1>1, <1>2 DEF ShownInv, Shows, TypeOK
<1>4. error \in Seq(Chunks \cup Errors) /\ error[1].type = "error" /\ Len(error) = 1
  BY DEF Event, Errors
<1> HIDE DEF error
<1>5. CASE messages = <<>>
  <2>1. messages' = <<>> /\ Len(<<>>) = 0
    BY <1>1, <1>5, EmptySeq DEF SetLast
  <2>2. QED
    BY <1>1, <1>3, <2>1 DEF Shows
<1>6. CASE messages # <<>>
  <2>1. /\ n \in 1..n /\ messages[n] \in Messages /\ n \in Nat
        /\ messages \in Seq(Messages)
        /\ IsAnswer(messages[n]) /\ messages[n].of = r
    BY <1>1, <1>6, LastBubble DEF ShownInv, Shows, BubblesInv
  <2>2. /\ Len(messages') = n
        /\ \A i \in 1..n : messages'[i] = IF i = n THEN [messages[i] EXCEPT !.text = error]
                                                  ELSE messages[i]
    BY <1>1, <1>4, <2>1, SetLastProperties
  <2>3. messages'[n].of = r /\ messages'[n].text = error /\ IsAnswer(messages'[n])
    BY <2>1, <2>2 DEF Messages, IsAnswer
  <2>4. ASSUME NEW i \in 1..n PROVE BubbleOK(i)'
    <3>1. CASE i = n
      <4>1. 1 \in 1..Len(error) /\ messages'[i].text = error /\ messages'[i].of = r
        BY <1>4, <2>3, <3>1
      <4>2. IsError(messages[i])'
        BY <1>4, <4>1 DEF IsError
      <4>3. QED
        BY <1>1, <4>1, <4>2 DEF BubbleOK, Told
    <3>2. CASE i # n
      BY <1>1, <2>2, <3>2, OldBubbles
    <3>3. QED
      BY <3>1, <3>2
  <2>5. QED
    BY <1>1, <1>3, <2>2, <2>3, <2>4 DEF Shows, IsAnswer
<1>7. QED
  BY <1>5, <1>6

\* A question opens an empty bubble, with no event on its way.
LEMMA SendShows ==
  ASSUME ShownInv, NEW r \in Requests, Send(r)
  PROVE  Shows'
<1> DEFINE n == Len(messages)
           turn == Turn(r, <<>>)
<1>1. /\ TypeOK /\ reading = {} /\ reading' = {r}
      /\ at[r] = "unsent" /\ at' = [at EXCEPT ![r] = "sent"]
      /\ full' = full /\ history' = history /\ events' = events
      /\ messages' = messages \o turn
      /\ full[r] = <<>> /\ events[r] = <<>>
  BY DEF ShownInv, BubblesInv, OneReader, Shows, Send, Stage
<1>2. /\ turn \in Seq(Messages) /\ Len(turn) = 2
      /\ turn[1] = [role |-> "user", of |-> r, text |-> <<>>]
      /\ turn[2] = [role |-> "assistant", of |-> r, text |-> <<>>]
  BY EmptySeq, TurnProperties
<1> HIDE DEF turn
<1>3. n \in Nat /\ messages \in Seq(Messages)
  BY LastBubble
<1>4. /\ Len(messages') = n + 2
      /\ \A i \in 1 .. n + 2 : messages'[i] = IF i <= n THEN messages[i] ELSE turn[i - n]
  <2>1. /\ Len(messages \o turn) = n + Len(turn)
        /\ \A i \in 1 .. n + Len(turn) :
             (messages \o turn)[i] = IF i <= n THEN messages[i] ELSE turn[i - n]
    BY <1>2, <1>3, ConcatProperties
  <2>2. QED
    BY <1>1, <1>2, <2>1
<1>5. /\ \A i \in 1..n : messages'[i] = messages[i]
      /\ messages'[n + 1] = [role |-> "user", of |-> r, text |-> <<>>]
      /\ messages'[n + 2] = [role |-> "assistant", of |-> r, text |-> <<>>]
  <2>1. (n + 1) - n = 1 /\ (n + 2) - n = 2 /\ ~(n + 1 <= n) /\ ~(n + 2 <= n)
        /\ n + 1 \in 1 .. n + 2 /\ n + 2 \in 1 .. n + 2
    BY <1>3
  <2>2. \A i \in 1..n : i \in 1 .. n + 2 /\ i <= n
    BY <1>3
  <2>3. QED
    BY <1>2, <1>4, <2>1, <2>2
<1>6. InStep(r)'
  <2>1. Sight(r)' = full'[r]
    <3>1. messages'[Len(messages')].text = <<>>
      BY <1>4, <1>5
    <3>2. <<>> \o <<>> = <<>>
      <4>1. <<>> \in Seq(Chunks)
        BY EmptySeq
      <4>2. QED
        BY <4>1, ConcatEmptySeq
    <3>3. QED
      BY <1>1, <3>1, <3>2 DEF Sight
  <2>2. at'[r] = "sent" /\ events'[r] \in Seq(Chunks)
    BY <1>1, EmptySeq DEF TypeOK
  <2>3. QED
    BY <2>1, <2>2 DEF InStep
<1>7. ASSUME NEW i \in 1..n PROVE BubbleOK(i)'
  <2>1. messages[i] \in Messages
    BY <1>3, ElementOfSeq
  <2>2. PICK q \in Requests : q = messages[i].of
    BY <2>1 DEF Messages
  <2>3. at[q] # "unsent" /\ (IsAnswer(messages[i]) => Told(messages[i]))
    BY <1>1, <1>7, <2>2 DEF ShownInv, Shows, BubbleOK
  <2>4. q # r /\ at'[q] = at[q]
    BY <1>1, <2>3 DEF TypeOK
  <2>5. Told(messages[i]) /\ ~IsError(messages[i])
          => at'[q] = "closed" /\ \A t \in Answers(q)' : messages[i].text = t
    BY <1>1, <2>2, <2>4 DEF Told, Answers
  <2>6. messages'[i] = messages[i]
    BY <1>5
  <2>7. Told(messages[i]) => Told(messages[i])'
    BY <2>2, <2>5, <2>6 DEF Told, IsError
  <2>8. QED
    BY <1>1, <2>2, <2>3, <2>4, <2>6, <2>7 DEF BubbleOK, IsAnswer
<1>8. at'[r] = "sent"
  BY <1>1 DEF TypeOK
<1>9. ASSUME NEW i \in 1..Len(messages') PROVE BubbleOK(i)'
  <2>1. CASE i \in 1..n
    BY <1>7, <2>1
  <2>2. CASE i = n + 1
    <3>1. messages'[i].of = r /\ messages'[i].role = "user"
      BY <1>5, <2>2
    <3>2. QED
      BY <1>8, <3>1 DEF BubbleOK, IsAnswer
  <2>3. CASE i = n + 2
    <3>1. messages'[i].of = r /\ i = Len(messages')
      BY <1>4, <1>5, <2>3
    <3>2. QED
      BY <1>1, <1>8, <3>1 DEF BubbleOK
  <2>4. QED
    BY <1>3, <1>4, <2>1, <2>2, <2>3
<1>10. \A q \in Requests : at'[q] = "unsent" => full'[q] = <<>> /\ events'[q] = <<>>
  BY <1>1 DEF ShownInv, Shows, TypeOK
<1>11. IsAnswer(messages[Len(messages)])'
  BY <1>4, <1>5 DEF IsAnswer
<1>12. \A q \in reading' : at'[q] # "unsent" /\ InStep(q)'
  BY <1>1, <1>6 DEF TypeOK
<1>13. QED
  BY <1>9, <1>10, <1>11, <1>12 DEF Shows

\* Clearing empties the panel, the list or both.
LEMMA ClearShows ==
  ASSUME ShownInv, UNCHANGED vars \/ Clear \/ ServerClear \/ Expire
  PROVE  Shows'
<1>1. /\ at' = at /\ full' = full /\ events' = events /\ reading' = reading
      /\ history' = history \/ history' = <<>>
      /\ messages' = messages \/ messages' = <<>>
  BY DEF vars, service, panel, Clear, ServerClear, Expire, Forget
<1>2. Len(<<>>) = 0
  BY EmptySeq
<1>3. \A q \in Requests : Answers(q)' \subseteq Answers(q)
  BY <1>1, <1>2 DEF Answers
<1>4. \A q \in reading : q \in Requests
  BY DEF ShownInv, BubblesInv, TypeOK
<1>5. ASSUME NEW q \in reading PROVE at'[q] # "unsent" /\ InStep(q)'
  BY <1>1, <1>3, <1>4, <1>5 DEF ShownInv, Shows, InStep, Sight
<1>6. ASSUME NEW i \in 1..Len(messages') PROVE BubbleOK(i)'
  <2>1. messages' = messages
    BY <1>1, <1>2, <1>6
  <2>2. messages[i] \in Messages
    BY <1>6, <2>1, LastBubble, ElementOfSeq
  <2>3. messages[i].of \in Requests
    BY <2>2 DEF Messages
  <2>4. BubbleOK(i)
    BY <1>6, <2>1 DEF ShownInv, Shows
  <2>5. Told(messages[i]) => Told(messages[i])'
    BY <1>1, <1>3, <2>1, <2>3 DEF Told, IsError
  <2>6. QED
    BY <1>1, <2>1, <2>4, <2>5 DEF BubbleOK, IsAnswer
<1>7. QED
  BY <1>1, <1>5, <1>6 DEF ShownInv, Shows, IsAnswer

\* ShownInv is inductive.
LEMMA ShowsStep == ShownInv /\ [Next]_vars => Shows'
<1>1. SUFFICES ASSUME ShownInv, [Next]_vars PROVE Shows'
  OBVIOUS
<1>2. ASSUME NEW r \in Requests, Serve(r) \/ Read(r) \/ Send(r) \/ Disconnect(r) PROVE Shows'
  BY <1>1, <1>2, ServeShows, ChunkShows, DoneShows, FailShows, SendShows DEF Read
<1>3. QED
  BY <1>1, <1>2, ClearShows DEF Next

\* ShownInv holds in every state.
LEMMA ShownAlways == Spec => []ShownInv
<1>1. Init => Shows
  <2>1. SUFFICES ASSUME Init PROVE Shows
    OBVIOUS
  <2>2. messages = <<>> /\ Len(<<>>) = 0 /\ reading = {}
    BY <2>1, EmptySeq DEF Init
  <2>3. QED
    BY <2>1, <2>2 DEF Init, Shows
<1>2. BubblesInv /\ ClosedInv /\ Shows /\ [Next]_vars => Shows'
  BY ShowsStep DEF ShownInv
<1>3. Spec => []Shows
  BY <1>1, <1>2, BubblesAlways, ClosedAlways, PTL DEF Spec
<1>4. BubblesInv /\ ClosedInv /\ Shows => ShownInv
  BY DEF ShownInv
<1>5. QED
  BY <1>3, <1>4, BubblesAlways, ClosedAlways, PTL

\* What is remembered is what the user saw: a bubble that is not an error shows a
\* beginning of the stored answer, and all of it once the panel has stopped reading,
\* whatever streams break off, are cancelled, or are cleared in between (stream,
\* stream_bot_response, onChunk).
THEOREM StoredAsShown == Spec => []ShownIsStored
<1>1. ShownInv => ShownIsStored
  <2>1. SUFFICES ASSUME ShownInv, NEW i \in 1..Len(messages), NEW k \in 1..Len(history),
                        IsAnswer(messages[i]), IsAnswer(history[k]),
                        messages[i].of = history[k].of, ~IsError(messages[i])
                 PROVE  /\ IsPrefixOf(messages[i].text, history[k].text)
                        /\ messages[i].of \notin reading => messages[i].text = history[k].text
    BY DEF ShownIsStored
  <2> DEFINE b == messages[i].text
             t == history[k].text
  <2>2. PICK r \in Requests : r = messages[i].of
    <3>1. messages[i] \in Messages
      BY <2>1, LastBubble, ElementOfSeq
    <3>2. QED
      BY <3>1 DEF Messages
  <2>3. t \in Answers(r)
    BY <2>1, <2>2 DEF Answers
  <2>4. t \in Seq(Chunks) /\ at[r] = "closed"
    BY <2>1, <2>3, AnswersKnown DEF ShownInv
  <2>5. BubbleOK(i)
    BY <2>1 DEF ShownInv, Shows
  <2> HIDE DEF t
  <2>6. CASE r \notin reading
    <3>1. b = t
      BY <2>1, <2>2, <2>3, <2>5, <2>6 DEF BubbleOK, Told
    <3>2. QED
      BY <2>2, <2>6, <3>1 DEF IsPrefixOf, t
  <2>7. CASE r \in reading
    <3>1. i = Len(messages) /\ messages # <<>>
      BY <2>1, <2>2, <2>5, <2>7, EmptySeq DEF BubbleOK
    <3>2. b \in Seq(Events) /\ events[r] \in Seq(Events)
      BY <2>1, <3>1, LastBubble DEF ShownInv, BubblesInv, TypeOK
    <3>3. b \o events[r] = Append(t, Event("done", r)) /\ events[r] # <<>>
      BY <2>1, <2>3, <2>4, <2>7, <3>1 DEF ShownInv, Shows, InStep, Ended, Sight
    <3>4. t \in Seq(Events) /\ Event("done", r) \in Events
      <4>1. Chunks \subseteq Events /\ Event("done", r) \in Events
        BY DEF Events, Event
      <4>2. QED
        BY <2>4, <4>1, SeqMonotonic
    <3> DEFINE u == b \o events[r]
    <3>5. /\ Len(u) = Len(b) + Len(events[r])
          /\ \A j \in 1..Len(b) : u[j] = b[j]
          /\ Len(b) \in Nat /\ Len(events[r]) \in Nat \ {0}
      <4>1. Len(b) \in Nat /\ Len(events[r]) \in Nat \ {0}
        BY <3>2, <3>3, LenProperties, EmptySeq
      <4>2. /\ Len(u) = Len(b) + Len(events[r])
            /\ \A j \in 1 .. Len(b) + Len(events[r]) :
                 u[j] = IF j <= Len(b) THEN b[j] ELSE events[r][j - Len(b)]
        BY <3>2, ConcatProperties
      <4> HIDE DEF u, b
      <4>3. \A j \in 1..Len(b) : j \in 1 .. Len(b) + Len(events[r]) /\ j <= Len(b)
        BY <4>1
      <4>4. QED
        BY <4>1, <4>2, <4>3
    <3>6. /\ Len(u) = Len(t) + 1 /\ Len(t) \in Nat
          /\ \A j \in 1..Len(t) : u[j] = t[j]
      BY <3>3, <3>4, AppendProperties, LenProperties
    <3> HIDE DEF u, b
    <3>7. Len(b) <= Len(t)
      BY <3>5, <3>6
    <3>8. \A j \in 1..Len(b) : b[j] = t[j]
      BY <3>5, <3>6, <3>7
    <3>9. QED
      BY <2>2, <2>7, <3>7, <3>8 DEF IsPrefixOf, b, t
  <2>8. QED
    BY <2>6, <2>7
<1>2. QED
  BY <1>1, ShownAlways, PTL

-----------------------------------------------------------------------------
(***************************************************************************)
(* What the bot remembers.  S stands for questions whose answers the user  *)
(* has read to the end: the latest of them is in h and no other comes      *)
(* after it, or later answers, which nobody read, have filled h.           *)
(***************************************************************************)
Recalls(S, h, n) ==
  \/ S = {}
  \/ \E q \in S :
       /\ \A p \in S : p <= q
       /\ \/ \E i \in 1..Len(h) :
               h[i].of = q /\ \A j \in i..Len(h) : h[j].of \in S => h[j].of = q
          \/ Len(h) >= n /\ \A i \in 1..Len(h) : h[i].of \notin S

\* Cutting a list to its last k messages: the latest exchange stays, or k later
\* messages have taken its place.
LEMMA RecallCut ==
  ASSUME NEW S, NEW h \in Seq(Messages), NEW n \in Nat, NEW k \in Nat, k <= n,
         Recalls(S, h, n)
  PROVE  Recalls(S, LastOf(h, k), k)
<1> DEFINE u == LastOf(h, k)
           d == Len(h) - Len(u)
<1>1. /\ Len(h) \in Nat /\ Len(u) \in Nat
      /\ Len(u) = IF Len(h) <= k THEN Len(h) ELSE k
      /\ \A i \in 1..Len(u) : d + i \in 1..Len(h) /\ u[i] = h[d + i]
  BY LastOfProperties, LenProperties
<1> HIDE DEF u
<1>2. d \in Nat /\ d + Len(u) = Len(h) /\ (d > 0 => Len(u) = k)
  BY <1>1
<1> HIDE DEF d
<1>3. CASE S = {}
  BY <1>3 DEF Recalls
<1>4. CASE S # {}
  <2>1. PICK q \in S :
          /\ \A p \in S : p <= q
          /\ \/ \E i \in 1..Len(h) :
                  h[i].of = q /\ \A j \in i..Len(h) : h[j].of \in S => h[j].of = q
             \/ Len(h) >= n /\ \A i \in 1..Len(h) : h[i].of \notin S
    BY <1>4 DEF Recalls
  <2>2. ASSUME NEW i \in 1..Len(h), h[i].of = q,
               \A j \in i..Len(h) : h[j].of \in S => h[j].of = q
        PROVE  Recalls(S, u, k)
    <3>1. ASSUME NEW m \in 1..Len(u), u[m].of = q, i <= d + m
          PROVE  Recalls(S, u, k)
      <4>1. ASSUME NEW j \in m..Len(u), u[j].of \in S PROVE u[j].of = q
        <5>1. j \in 1..Len(u) /\ d + j \in i..Len(h)
          BY <1>1, <1>2, <2>2, <3>1, <4>1
        <5>2. u[j] = h[d + j]
          BY <1>1, <5>1
        <5>3. QED
          BY <2>2, <4>1, <5>1, <5>2
      <4>2. QED
        BY <2>1, <3>1, <4>1 DEF Recalls
    <3>2. CASE i > d
      <4>1. i - d \in 1..Len(u) /\ d + (i - d) = i
        BY <1>2, <2>2, <3>2
      <4>2. u[i - d].of = q
        BY <1>1, <2>2, <4>1
      <4>3. QED
        BY <2>2, <3>1, <4>1, <4>2
    <3>3. CASE ~(i > d)
      <4>1. Len(u) >= k
        BY <1>1, <1>2, <2>2, <3>3
      <4>2. ASSUME NEW m \in 1..Len(u), u[m].of \in S PROVE Recalls(S, u, k)
        <5>1. u[m] = h[d + m] /\ d + m \in i..Len(h)
          BY <1>1, <1>2, <2>2, <3>3, <4>2
        <5>2. h[d + m].of \in S /\ u[m].of = h[d + m].of /\ i <= d + m
          BY <1>1, <1>2, <2>2, <4>2, <5>1
        <5>3. QED
          BY <2>2, <3>1, <5>1, <5>2
      <4>3. CASE \A m \in 1..Len(u) : u[m].of \notin S
        BY <2>1, <4>1, <4>3 DEF Recalls
      <4>4. QED
        BY <4>2, <4>3
    <3>4. QED
      BY <3>2, <3>3
  <2>3. ASSUME Len(h) >= n, \A i \in 1..Len(h) : h[i].of \notin S
        PROVE  Recalls(S, u, k)
    <3>1. Len(u) >= k
      BY <1>1, <2>3
    <3>2. \A m \in 1..Len(u) : u[m].of \notin S
      BY <1>1, <2>3
    <3>3. QED
      BY <2>1, <3>1, <3>2 DEF Recalls
  <2>4. QED
    BY <2>1, <2>2, <2>3 DEF u
<1>5. QED
  BY <1>3, <1>4 DEF u

\* Adding the turn of a question that is not among those of S, or is the latest.
LEMMA RecallAdded ==
  ASSUME NEW S, NEW h \in Seq(Messages), NEW n \in Nat,
         NEW r \in Requests, NEW t \in Seq(Chunks \cup Errors)
  PROVE  /\ r \notin S /\ Recalls(S, h, n) => Recalls(S, h \o Turn(r, t), n)
         /\ r \in S /\ (\A p \in S : p <= r) => Recalls(S, h \o Turn(r, t), n)
<1> DEFINE v == Turn(r, t)
           u == h \o v
<1>1. v \in Seq(Messages) /\ Len(v) = 2 /\ v[1].of = r /\ v[2].of = r
  <2>1. /\ v \in Seq(Messages) /\ Len(v) = 2
        /\ v[1] = [role |-> "user", of |-> r, text |-> <<>>]
        /\ v[2] = [role |-> "assistant", of |-> r, text |-> t]
    BY TurnProperties
  <2> HIDE DEF v
  <2>2. QED
    BY <2>1
<1> HIDE DEF v
<1>2. /\ Len(h) \in Nat /\ Len(u) = Len(h) + 2
      /\ \A i \in 1 .. Len(h) + 2 : u[i] = IF i <= Len(h) THEN h[i] ELSE v[i - Len(h)]
  <2>1. /\ Len(u) = Len(h) + Len(v)
        /\ \A i \in 1 .. Len(h) + Len(v) : u[i] = IF i <= Len(h) THEN h[i] ELSE v[i - Len(h)]
    BY <1>1, ConcatProperties
  <2>2. QED
    BY <1>1, <2>1, LenProperties
<1> HIDE DEF u
<1>3. \A i \in 1..Len(h) : i \in 1..Len(u) /\ u[i] = h[i]
  BY <1>2
<1>4. ASSUME NEW i \in 1..Len(u), i \notin 1..Len(h) PROVE u[i].of = r
  <2>1. ~(i <= Len(h)) /\ (i - Len(h) = 1 \/ i - Len(h) = 2)
    BY <1>2, <1>4
  <2>2. QED
    BY <1>1, <1>2, <1>4, <2>1
<1>5. ASSUME r \notin S, Recalls(S, h, n), S # {} PROVE Recalls(S, u, n)
  <2>1. PICK q \in S :
          /\ \A p \in S : p <= q
          /\ \/ \E i \in 1..Len(h) :
                  h[i].of = q /\ \A j \in i..Len(h) : h[j].of \in S => h[j].of = q
             \/ Len(h) >= n /\ \A i \in 1..Len(h) : h[i].of \notin S
    BY <1>5 DEF Recalls
  <2>2. ASSUME NEW i \in 1..Len(h), h[i].of = q,
               \A j \in i..Len(h) : h[j].of \in S => h[j].of = q
        PROVE  Recalls(S, u, n)
    <3>1. ASSUME NEW j \in i..Len(u), u[j].of \in S PROVE u[j].of = q
      <4>1. j \in 1..Len(u)
        BY <1>2, <2>2, <3>1
      <4>2. j \in 1..Len(h)
        BY <1>4, <1>5, <3>1, <4>1
      <4>3. u[j] = h[j] /\ j \in i..Len(h)
        BY <1>3, <3>1, <4>2
      <4>4. QED
        BY <2>2, <3>1, <4>3
    <3>2. i \in 1..Len(u) /\ u[i].of = q
      BY <1>3, <2>2
    <3>3. QED
      BY <2>1, <3>1, <3>2 DEF Recalls
  <2>3. ASSUME Len(h) >= n, \A i \in 1..Len(h) : h[i].of \notin S
        PROVE  Recalls(S, u, n)
    <3>1. Len(u) >= n
      BY <1>2, <2>3
    <3>2. \A i \in 1..Len(u) : u[i].of \notin S
      BY <1>3, <1>4, <1>5, <2>3
    <3>3. QED
      BY <2>1, <3>1, <3>2 DEF Recalls
  <2>4. QED
    BY <2>1, <2>2, <2>3
<1>6. ASSUME r \in S, \A p \in S : p <= r PROVE Recalls(S, u, n)
  <2>1. Len(u) \in 1..Len(u) /\ Len(u) \notin 1..Len(h)
    BY <1>2
  <2>2. u[Len(u)].of = r
    BY <1>4, <2>1
  <2>3. \A j \in Len(u)..Len(u) : j = Len(u)
    BY <1>2
  <2>4. QED
    BY <1>6, <2>1, <2>2, <2>3 DEF Recalls
<1>7. ASSUME S = {} PROVE Recalls(S, u, n)
  BY <1>7 DEF Recalls
<1>8. QED
  BY <1>5, <1>6, <1>7 DEF u, v

\* The same, of the list: the turn is added and the list trimmed.
LEMMA RecallSaved ==
  ASSUME TypeOK, NEW r \in Requests, Saves(r), NEW S
  PROVE  /\ r \notin S /\ Recalls(S, history, HistoryLimit) => Recalls(S, history', HistoryLimit)
         /\ r \in S /\ (\A p \in S : p <= r) => Recalls(S, history', HistoryLimit)
<1> DEFINE u == history \o Turn(r, full[r])
<1>1. /\ history \in Seq(Messages) /\ full[r] \in Seq(Chunks \cup Errors) /\ HistoryLimit \in Nat
  BY SessionAssumption DEF TypeOK
<1>2. u \in Seq(Messages)
  BY <1>1, TurnProperties, ConcatProperties
<1>3. history' = LastOf(u, HistoryLimit)
  BY DEF Saves, AddToHistory
<1>4. /\ r \notin S /\ Recalls(S, history, HistoryLimit) => Recalls(S, u, HistoryLimit)
      /\ r \in S /\ (\A p \in S : p <= r) => Recalls(S, u, HistoryLimit)
  BY <1>1, RecallAdded
<1> HIDE DEF u
<1>5. Recalls(S, u, HistoryLimit) => Recalls(S, LastOf(u, HistoryLimit), HistoryLimit)
  BY <1>1, <1>2, RecallCut
<1>6. QED
  BY <1>3, <1>4, <1>5

\* Questions are sent one after the other, and what the user has read to its end
\* is over.
Ordered ==
  /\ \A q, r \in Requests : q < r /\ at[q] = "unsent" => at[r] = "unsent"
  /\ \A r \in reading, q \in Requests : r < q => at[q] = "unsent"
  /\ \A q \in seen : at[q] = "closed" /\ q \notin reading
  /\ \A r \in Requests : \A q \in due[r] : at[q] = "closed"

\* [DONE] is on its way, and the bubble will not be empty.
Ending(r) == \E k \in 1..Len(events[r]) : events[r][k].type = "done"
Filled(r) == messages[Len(messages)].text # <<>> \/ Len(events[r]) > 1

\* A request that was sent will read the list; one that streams has read it; and
\* an answer whose end is on its way is stored, unless the list has been deleted.
Remembered ==
  /\ Recalls(seen, history, HistoryLimit)
  /\ \A r \in Requests :
       /\ at[r] = "sent" => Recalls(due[r], history, HistoryLimit)
       /\ at[r] \in {"llm", "rules", "finally"} => Recalls(due[r], past[r], HistoryLimit)
  /\ \A r \in reading :
       /\ r \notin gone /\ at[r] = "closed"
       /\ messages # <<>> /\ Ending(r) /\ Filled(r)
       => Recalls(seen \cup {r}, history, HistoryLimit)

\* The order of the questions is kept in every step.
LEMMA OrderedStep ==
  ASSUME ShownInv, Ordered, [Next]_vars
  PROVE  Ordered'
<1>1. /\ TypeOK /\ reading \subseteq Requests /\ \A q, r \in reading : q = r
      /\ seen \subseteq Requests /\ due \in [Requests -> SUBSET Requests]
      /\ \A r \in reading : at[r] # "unsent"
  BY DEF ShownInv, BubblesInv, OneReader, Shows, TypeOK
<1>2. \A q \in Requests : at[q] = "closed" => at'[q] = "closed"
  BY <1>1, ClosedForGood
<1>3. ASSUME NEW r \in Requests, Serve(r) PROVE Ordered'
  <2>1. /\ reading' = reading /\ seen' = seen
        /\ at[r] # "unsent"
        /\ at' = at \/ \E l \in Stages \ {"unsent"} : at' = [at EXCEPT ![r] = l]
        /\ due' = due \/ due' = [due EXCEPT ![r] = {}]
    BY <1>3 DEF Serve, Reject, Accept, Delta, LLMEnds, LLMFails, Word, Finally, SaveFails,
                Cancel, Close, Stage, Stages, panel, ghosts
  <2>2. \A q \in Requests : at'[q] = "unsent" <=> at[q] = "unsent"
    BY <1>1, <2>1 DEF TypeOK
  <2>3. \A q \in Requests : due'[q] \subseteq due[q]
    BY <1>1, <2>1
  <2>4. QED
    BY <1>1, <1>2, <2>1, <2>2, <2>3 DEF Ordered
<1>4. ASSUME NEW r \in Requests, Read(r) \/ Disconnect(r) PROVE Ordered'
  <2>1. at' = at /\ due' = due /\ reading' \subseteq reading
    BY <1>4 DEF Read, OnChunk, OnDone, OnError, Fails, Disconnect, ghosts
  <2>2. CASE OnDone(r)
    <3>1. at[r] = "closed" /\ reading' = {} /\ seen' \subseteq seen \cup {r}
      BY <1>1, <2>2, DoneIsLast DEF OnDone, Receive
    <3>2. QED
      BY <2>1, <3>1 DEF Ordered
  <2>3. CASE ~OnDone(r)
    <3>1. seen' = seen
      BY <1>4, <2>3 DEF Read, OnChunk, OnError, Disconnect, ghosts
    <3>2. QED
      BY <2>1, <3>1 DEF Ordered
  <2>4. QED
    BY <2>2, <2>3
<1>5. ASSUME NEW r \in Requests, Send(r) PROVE Ordered'
  <2>1. /\ reading = {} /\ reading' = {r} /\ seen' = seen
        /\ at[r] = "unsent" /\ \A q \in Requests : q < r => at[q] # "unsent"
        /\ at' = [at EXCEPT ![r] = "sent"]
        /\ due' = [due EXCEPT ![r] = seen]
    BY <1>5 DEF Send, Stage, ShownInv, BubblesInv, OneReader
  <2>2. at'[r] = "sent" /\ \A q \in Requests : q # r => at'[q] = at[q]
    BY <1>1, <2>1 DEF TypeOK
  <2>3. \A q \in Requests : q \in Nat
    BY DEF Requests
  <2>4. ASSUME NEW q \in Requests, NEW p \in Requests, q < p, at'[q] = "unsent"
        PROVE  at'[p] = "unsent"
    <3>1. q # r /\ at[q] = "unsent"
      BY <2>2, <2>4
    <3>2. p # r
      BY <2>1, <2>4, <3>1
    <3>3. QED
      BY <2>2, <2>4, <3>1, <3>2 DEF Ordered
  <2>5. ASSUME NEW q \in Requests, r < q PROVE at'[q] = "unsent"
    <3>1. at[q] = "unsent" /\ q # r
      BY <2>1, <2>3, <2>5 DEF Ordered
    <3>2. QED
      BY <2>2, <3>1
  <2>6. \A q \in seen : at'[q] = "closed" /\ q # r
    BY <1>1, <1>2, <2>1 DEF Ordered
  <2>7. \A p \in Requests : \A q \in due'[p] : at'[q] = "closed"
    <3>1. \A p \in Requests : due'[p] = due[p] \/ due'[p] = seen
      BY <1>1, <2>1
    <3>2. \A p \in Requests : due[p] \subseteq Requests
      BY <1>1
    <3>3. QED
      BY <1>2, <2>6, <3>1, <3>2 DEF Ordered
  <2>8. QED
    BY <2>1, <2>4, <2>5, <2>6, <2>7 DEF Ordered
<1>6. ASSUME UNCHANGED vars \/ Clear \/ ServerClear \/ Expire PROVE Ordered'
  <2>1. /\ at' = at /\ reading' = reading
        /\ seen' = seen \/ seen' = {}
        /\ due' = due \/ due' = [r \in Requests |-> {}]
    BY <1>6 DEF vars, service, panel, ghosts, Clear, ServerClear, Expire, Forget
  <2>2. QED
    BY <1>1, <2>1 DEF Ordered
<1>7. QED
  BY <1>3, <1>4, <1>5, <1>6 DEF Next

\* What the service stores makes nobody forget what the user has read.
LEMMA RecallKept ==
  ASSUME ShownInv, NEW r \in Requests, Serve(r), NEW S, \A q \in S : at[q] = "closed",
         Recalls(S, history, HistoryLimit)
  PROVE  Recalls(S, history', HistoryLimit)
<1>1. TypeOK /\ at[r] # "closed" /\ (history' = history \/ Saves(r))
  BY DEF ShownInv, BubblesInv, Serve, Reject, Accept, Delta, LLMEnds, LLMFails, Word, Finally,
         SaveFails, Cancel, Saves, Close
<1>2. QED
  BY <1>1, RecallSaved

\* The answer whose end is sent has been stored, if there was any.
LEMMA RecallEnding ==
  ASSUME ShownInv, Ordered, NEW r \in reading, Serve(r), at'[r] = "closed",
         messages # <<>>, Ending(r)', Filled(r)'
  PROVE  Recalls(seen \cup {r}, history', HistoryLimit)
<1> DEFINE e == events[r]
<1>1. /\ TypeOK /\ r \in Requests /\ InStep(r) /\ at[r] # "closed"
      /\ e \in Seq(Chunks) /\ Sight(r) = full[r] /\ messages' = messages
  BY DEF ShownInv, BubblesInv, TypeOK, Shows, InStep, Serve, Reject, Accept, Delta, LLMEnds,
         LLMFails, Word, Finally, SaveFails, Cancel, panel
<1>2. \A k \in 1..Len(e) : e[k].type # "done"
  <2>1. \A k \in 1..Len(e) : e[k] \in Chunks
    BY <1>1, ElementOfSeq
  <2>2. QED
    BY <2>1 DEF Chunks
<1>3. Finally(r)
  <2>1. ASSUME events'[r] = Append(e, Event("error", r)) PROVE FALSE
    <3>1. Chunks \subseteq Events /\ Event("error", r) \in Events /\ Event("error", r).type = "error"
      BY <1>1 DEF Events, Event
    <3>2. e \in Seq(Events)
      BY <1>1, <3>1, SeqMonotonic
    <3>3. /\ Len(events'[r]) = Len(e) + 1 /\ Len(e) \in Nat
          /\ \A k \in 1..Len(e) : events'[r][k] = e[k]
          /\ events'[r][Len(e) + 1].type = "error"
      BY <2>1, <3>1, <3>2, AppendProperties, LenProperties
    <3>4. PICK k \in 1..Len(events'[r]) : events'[r][k].type = "done"
      BY DEF Ending
    <3>5. k \in 1..Len(e) \/ k = Len(e) + 1
      BY <3>3
    <3>6. QED
      BY <1>2, <3>3, <3>4, <3>5
  <2>2. ASSUME Reject(r) \/ Accept(r) \/ SaveFails(r)
        PROVE  events'[r] = Append(e, Event("error", r))
    BY <1>1, <2>2 DEF Reject, Accept, SaveFails, Emit, Stage, TypeOK
  <2>3. ~Delta(r) /\ ~LLMEnds(r) /\ ~LLMFails(r) /\ ~Word(r) /\ ~Cancel(r)
    BY <1>1 DEF Delta, LLMEnds, LLMFails, Word, Cancel, Stage, TypeOK
  <2>4. QED
    BY <2>1, <2>2, <2>3 DEF Serve
<1>4. full[r] # <<>>
  <2>1. events'[r] = Append(e, Event("done", r))
    BY <1>1, <1>3 DEF Finally, Emit, TypeOK
  <2>2. Chunks \subseteq Events /\ Event("done", r) \in Events
    BY <1>1 DEF Events, Event
  <2>3. e \in Seq(Events)
    BY <1>1, <2>2, SeqMonotonic
  <2>4. Len(events'[r]) = Len(e) + 1 /\ Len(e) \in Nat
    BY <2>1, <2>2, <2>3, AppendProperties, LenProperties
  <2>5. PICK b \in Seq(Events) : b = messages[Len(messages)].text
    BY LastBubble
  <2>6. b # <<>> \/ e # <<>>
    <3>1. Len(<<>>) = 0
      BY EmptySeq
    <3>2. b # <<>> \/ Len(e) + 1 > 1
      BY <1>1, <2>4, <2>5 DEF Filled
    <3>3. QED
      BY <2>4, <3>1, <3>2
  <2>7. b \o e # <<>>
    BY <2>3, <2>5, <2>6, ConcatEqualIffEmpty
  <2>8. QED
    BY <1>1, <2>5, <2>7 DEF Sight
<1>5. Saves(r)
  BY <1>1, <1>3, <1>4 DEF Finally, Saves
<1>6. \A p \in seen \cup {r} : p <= r
  <2>1. ASSUME NEW p \in seen PROVE p <= r
    <3>1. p \in Requests /\ at[p] = "closed"
      BY <1>1 DEF Ordered, TypeOK
    <3>2. ~(r < p)
      BY <3>1 DEF Ordered
    <3>3. QED
      BY <1>1, <3>1, <3>2 DEF Requests
  <2>2. QED
    BY <1>1, <2>1 DEF Requests
<1>7. QED
  BY <1>1, <1>5, <1>6, RecallSaved

\* A step of the service: an accepted request reads the list, and an answer that
\* is saved joins it.
LEMMA ServeRemembers ==
  ASSUME ShownInv, Ordered, Remembered, NEW r \in Requests, Serve(r)
  PROVE  Remembered'
<1>1. /\ TypeOK /\ HistoryLimit \in Nat /\ reading \subseteq Requests /\ at[r] # "closed"
      /\ seen' = seen /\ gone' = gone /\ reading' = reading /\ messages' = messages
  BY SessionAssumption DEF ShownInv, BubblesInv, TypeOK, Serve, Reject, Accept, Delta, LLMEnds,
     LLMFails, Word, Finally, SaveFails, Cancel, panel, ghosts
<1>2. \A S : (\A q \in S : at[q] = "closed") /\ Recalls(S, history, HistoryLimit)
              => Recalls(S, history', HistoryLimit)
  BY RecallKept
<1>3. Recalls(seen', history', HistoryLimit)
  BY <1>1, <1>2 DEF Ordered, Remembered
<1>4. ASSUME NEW q \in Requests, q # r
      PROVE  at'[q] = at[q] /\ due'[q] = due[q] /\ past'[q] = past[q] /\ events'[q] = events[q]
  BY <1>1, <1>4 DEF TypeOK, Serve, Reject, Accept, Delta, LLMEnds, LLMFails, Word, Finally,
     SaveFails, Cancel, Close, Stage, Say, Emit, ghosts
<1>5. /\ at'[r] # "sent"
      /\ at'[r] \in {"llm", "rules", "finally"} => Recalls(due'[r], past'[r], HistoryLimit)
  <2>1. \/ at'[r] = "closed"
        \/ /\ at[r] \in {"llm", "rules", "finally"} /\ at'[r] \in {"llm", "rules", "finally"}
           /\ due'[r] = due[r] /\ past'[r] = past[r]
        \/ /\ at[r] = "sent" /\ at'[r] = "llm" /\ due'[r] = due[r]
           /\ past'[r] = LastOf(history, HistoryLimit)
    BY <1>1 DEF TypeOK, Serve, Reject, Accept, Delta, LLMEnds, LLMFails, Word, Finally,
       SaveFails, Cancel, Close, Stage, ghosts
  <2>2. at[r] = "sent" => Recalls(due[r], LastOf(history, HistoryLimit), HistoryLimit)
    BY <1>1, RecallCut DEF Remembered, TypeOK
  <2>3. QED
    BY <2>1, <2>2 DEF Remembered
<1>6. ASSUME NEW q \in Requests
      PROVE  /\ at'[q] = "sent" => Recalls(due'[q], history', HistoryLimit)
             /\ at'[q] \in {"llm", "rules", "finally"} => Recalls(due'[q], past'[q], HistoryLimit)
  <2>1. CASE q = r
    BY <1>5, <2>1
  <2>2. CASE q # r
    <3>1. \A p \in due[q] : at[p] = "closed"
      BY DEF Ordered
    <3>2. QED
      BY <1>2, <1>4, <2>2, <3>1 DEF Remembered
  <2>3. QED
    BY <2>1, <2>2
<1>7. ASSUME NEW q \in reading, q \notin gone, at'[q] = "closed",
             messages' # <<>>, Ending(q)', Filled(q)'
      PROVE  Recalls(seen \cup {q}, history', HistoryLimit)
  <2>1. CASE q = r
    BY <1>1, <1>7, <2>1, RecallEnding
  <2>2. CASE q # r
    <3>1. at[q] = "closed" /\ Ending(q) /\ Filled(q)
      BY <1>1, <1>4, <1>7, <2>2 DEF Ending, Filled
    <3>2. Recalls(seen \cup {q}, history, HistoryLimit)
      BY <1>1, <1>7, <3>1 DEF Remembered
    <3>3. \A p \in seen \cup {q} : at[p] = "closed"
      BY <3>1 DEF Ordered
    <3>4. QED
      BY <1>2, <3>2, <3>3
  <2>3. QED
    BY <2>1, <2>2
<1>8. QED
  BY <1>1, <1>3, <1>6, <1>7 DEF Remembered

\* A chunk that is read brings no end nearer than it was.
LEMMA ChunkRemembers ==
  ASSUME ShownInv, Remembered, NEW r \in Requests, OnChunk(r)
  PROVE  Remembered'
<1> DEFINE e == events[r]
<1>1. /\ TypeOK /\ r \in reading /\ \A q \in reading : q = r
      /\ history' = history /\ seen' = seen /\ gone' = gone /\ at' = at
      /\ past' = past /\ due' = due
      /\ reading' = reading \/ reading' = {}
      /\ messages' # <<>> => messages # <<>>
  BY DEF ShownInv, BubblesInv, OneReader, OnChunk, Receive, ghosts
<1>2. /\ e \in Seq(Events) /\ e # <<>> /\ events'[r] = Tail(e)
      /\ Head(e) = e[1]
  <2>1. Receive(r, {"delta", "word"})
    BY DEF OnChunk
  <2>2. QED
    BY <1>1, <2>1, ReceiveProperties DEF Receive, TypeOK
<1>3. /\ Len(Tail(e)) = Len(e) - 1 /\ Len(e) \in Nat \ {0}
      /\ \A i \in 1..Len(Tail(e)) : Tail(e)[i] = e[i + 1]
  BY <1>2, HeadTailProperties, LenProperties, EmptySeq
<1>4. ASSUME Ending(r)' PROVE Ending(r) /\ Len(e) > 1
  <2>1. PICK i \in 1..Len(Tail(e)) : Tail(e)[i].type = "done"
    BY <1>2, <1>4 DEF Ending
  <2>2. i + 1 \in 1..Len(e) /\ Len(e) > 1
    BY <1>3, <2>1
  <2>3. e[i + 1].type = "done"
    BY <1>3, <2>1
  <2>4. QED
    BY <2>2, <2>3 DEF Ending
<1>5. ASSUME NEW q \in reading', q \notin gone', at'[q] = "closed",
             messages' # <<>>, Ending(q)', Filled(q)'
      PROVE  Recalls(seen' \cup {q}, history', HistoryLimit)
  <2>1. q = r
    BY <1>1, <1>5
  <2>2. QED
    BY <1>1, <1>4, <1>5, <2>1 DEF Filled, Remembered
<1>6. QED
  BY <1>1, <1>5 DEF Remembered

\* The end is read: the question joins those whose answers the user has read.
LEMMA DoneRemembers ==
  ASSUME ShownInv, Remembered, NEW r \in Requests, OnDone(r)
  PROVE  Remembered'
<1>1. /\ TypeOK /\ r \in reading /\ \A q \in reading : q = r
      /\ history' = history /\ at' = at /\ past' = past /\ due' = due /\ reading' = {}
  BY DEF ShownInv, BubblesInv, OneReader, OnDone, Receive
<1>2. Recalls(seen', history, HistoryLimit)
  <2>1. CASE seen' = seen
    BY <2>1 DEF Remembered
  <2>2. CASE seen' # seen
    <3>1. /\ r \notin gone /\ messages # <<>> /\ messages[Len(messages)].text # <<>>
          /\ seen' = seen \cup {r}
      BY <2>2 DEF OnDone
    <3>2. Ending(r)
      <4>1. Receive(r, {"done"})
        BY DEF OnDone
      <4>2. 1 \in 1..Len(events[r]) /\ events[r][1].type = "done"
        BY <1>1, <4>1, ReceiveProperties DEF Receive
      <4>3. QED
        BY <4>2 DEF Ending
    <3>3. at[r] = "closed"
      BY DoneIsLast
    <3>4. QED
      BY <1>1, <3>1, <3>2, <3>3 DEF Filled, Remembered
  <2>3. QED
    BY <2>1, <2>2
<1>3. QED
  BY <1>1, <1>2 DEF Remembered

\* The other steps: nothing is stored, and what is deleted is no longer asked for.
LEMMA OthersRemember ==
  ASSUME ShownInv, Remembered,
         \/ \E r \in Requests : OnError(r) \/ Disconnect(r) \/ Send(r)
         \/ Clear \/ ServerClear \/ Expire \/ UNCHANGED vars
  PROVE  Remembered'
<1>1. TypeOK /\ reading \subseteq Requests /\ \A q, r \in reading : q = r
  BY DEF ShownInv, BubblesInv, OneReader, TypeOK
<1>2. ASSUME NEW r \in Requests, OnError(r) \/ Disconnect(r) PROVE Remembered'
  <2>1. /\ history' = history /\ at' = at /\ past' = past /\ due' = due
        /\ seen' = seen /\ reading' = {}
    BY <1>1, <1>2 DEF OnError, Disconnect, Fails, Receive, ghosts
  <2>2. QED
    BY <2>1 DEF Remembered
<1>3. ASSUME NEW r \in Requests, Send(r) PROVE Remembered'
  <2>1. /\ history' = history /\ past' = past /\ seen' = seen /\ reading' = {r}
        /\ at' = [at EXCEPT ![r] = "sent"] /\ due' = [due EXCEPT ![r] = seen]
    BY <1>3 DEF Send, Stage, ShownInv, BubblesInv, OneReader
  <2>2. /\ at'[r] = "sent" /\ due'[r] = seen
        /\ \A q \in Requests : q # r => at'[q] = at[q] /\ due'[q] = due[q]
    BY <1>1, <2>1 DEF TypeOK
  <2>3. QED
    BY <2>1, <2>2 DEF Remembered
<1>4. ASSUME Forget, at' = at, past' = past, reading' = reading PROVE Remembered'
  <2>1. seen' = {} /\ \A q \in Requests : due'[q] = {}
    BY <1>4 DEF Forget
  <2>2. \A q \in reading : at[q] = "closed" => q \in gone'
    BY <1>4 DEF Forget
  <2>3. \A h, n : Recalls({}, h, n)
    BY DEF Recalls
  <2>4. \A q \in Requests : at'[q] \in {"llm", "rules", "finally"}
                               => Recalls(due'[q], past'[q], HistoryLimit)
    BY <2>1, <2>3
  <2>5. QED
    BY <1>4, <2>1, <2>2, <2>3, <2>4 DEF Remembered
<1>5. ASSUME UNCHANGED <<history, at, past, due, seen, gone, reading, events>>,
             messages' = messages \/ messages' = <<>>
      PROVE  Remembered'
  BY <1>5 DEF Remembered, Ending, Filled
<1>6. CASE Clear \/ UNCHANGED vars
  BY <1>5, <1>6 DEF Clear, vars, service, panel, ghosts
<1>7. CASE ServerClear
  BY <1>4, <1>5, <1>7 DEF ServerClear, service, panel, ghosts
<1>8. CASE Expire
  BY <1>4, <1>8 DEF Expire, service, panel
<1>9. ASSUME NEW r \in Requests, OnError(r) \/ Disconnect(r) \/ Send(r) PROVE Remembered'
  BY <1>2, <1>3, <1>9
<1>10. QED
  BY <1>6, <1>7, <1>8, <1>9

\* Remembered is inductive, relative to ShownInv and Ordered.
LEMMA RememberedStep == ShownInv /\ Ordered /\ Remembered /\ [Next]_vars => Remembered'
<1>1. SUFFICES ASSUME ShownInv, Ordered, Remembered, [Next]_vars PROVE Remembered'
  OBVIOUS
<1>2. ASSUME NEW r \in Requests, Serve(r) \/ Read(r) \/ Send(r) \/ Disconnect(r)
      PROVE  Remembered'
  BY <1>1, <1>2, ServeRemembers, ChunkRemembers, DoneRemembers, OthersRemember DEF Read
<1>3. QED
  BY <1>1, <1>2, OthersRemember DEF Next

\* Ordered and Remembered hold in every state.
LEMMA RememberedAlways == Spec => [](Ordered /\ Remembered)
<1>1. Init => Ordered /\ Remembered
  <2>1. SUFFICES ASSUME Init PROVE Ordered /\ Remembered
    OBVIOUS
  <2>2. /\ seen = {} /\ reading = {} /\ \A q \in Requests : due[q] = {} /\ at[q] = "unsent"
    BY <2>1 DEF Init
  <2>3. QED
    BY <2>2 DEF Ordered, Remembered, Recalls
<1>2. ShownInv /\ Ordered /\ Remembered /\ [Next]_vars => Ordered' /\ Remembered'
  BY OrderedStep, RememberedStep
<1>3. QED
  BY <1>1, <1>2, ShownAlways, PTL DEF Spec

\* The bot remembers (bot_chat reads the list, stream_bot_response cuts it, the
\* finally clause adds to it): however requests overlap, break off or are
\* cancelled, a question is answered with the last exchange that the user had read
\* when it was asked, unless the list was deleted or later answers fill the context.
THEOREM LastTurnRemembered == Spec => []RemembersLastTurn
<1>1. ShownInv /\ Ordered /\ Remembered => RemembersLastTurn
  <2>1. SUFFICES ASSUME ShownInv, Remembered, NEW r \in Requests, NEW q \in Requests,
                        at[r] \in {"llm", "rules", "finally"},
                        q \in due[r], \A p \in due[r] : p <= q
                 PROVE  \/ \E i \in 1..Len(Context(r)) : Context(r)[i].of = q
                        \/ /\ Len(Context(r)) = ContextLimit
                           /\ \A i \in 1..Len(Context(r)) : Context(r)[i].of \notin due[r]
    BY DEF RemembersLastTurn
  <2> DEFINE c == Context(r)
  <2>2. /\ past[r] \in Seq(Messages) /\ due[r] \subseteq Requests
        /\ HistoryLimit \in Nat /\ ContextLimit \in Nat /\ ContextLimit <= HistoryLimit
    BY <2>1, SessionAssumption DEF ShownInv, BubblesInv, TypeOK
  <2>3. Recalls(due[r], c, ContextLimit)
    BY <2>1, <2>2, RecallCut DEF Remembered, Context
  <2>4. Len(c) \in Nat /\ Len(c) <= ContextLimit
    BY <2>2, LastOfProperties, LenProperties DEF Context
  <2> HIDE DEF c
  <2>5. PICK p \in due[r] :
          /\ \A o \in due[r] : o <= p
          /\ \/ \E i \in 1..Len(c) :
                  c[i].of = p /\ \A j \in i..Len(c) : c[j].of \in due[r] => c[j].of = p
             \/ Len(c) >= ContextLimit /\ \A i \in 1..Len(c) : c[i].of \notin due[r]
    BY <2>1, <2>3 DEF Recalls
  <2>6. p = q
    BY <2>1, <2>2, <2>5 DEF Requests
  <2>7. QED
    BY <2>2, <2>4, <2>5, <2>6 DEF c
<1>2. QED
  BY <1>1, ShownAlways, RememberedAlways, PTL

=============================================================================
