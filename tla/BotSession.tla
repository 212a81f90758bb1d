---------------------------- MODULE BotSession ----------------------------
(***************************************************************************)
(* One conversation with the AI bot, from the bot panel of the browser     *)
(* (AIBot.jsx, streamBot of api/index.js) through the chat and clear       *)
(* endpoints (main.py, bot.py) to the list in Redis that remembers it      *)
(* (memory.py).  A session id belongs to one panel.                        *)
(***************************************************************************)
EXTENDS Naturals, Sequences

CONSTANTS
  MaxRequests,   \* bound on the questions the user asks, numbered in order
  HistoryLimit,  \* messages that LTRIM keeps (20)
  ContextLimit,  \* messages of the history that the LLM is given (10)
  MaxChunks,     \* bound on the chunks after which an answer goes on
  MaxClears,     \* bound on the presses of "Clear chat"
  MaxFaults,     \* bound on failed Redis calls, lost connections and refusals of
                 \* the rate limiter
  Kinds          \* what each question may be about

\* "ticket": about the selected ticket; "odd": about one whose payload has a
\* text that is no string; "general": no ticket is selected; "blocked": the
\* guardrails match.
QuestionKinds == {"ticket", "odd", "general", "blocked"}

ASSUME SessionAssumption ==
  /\ MaxRequests \in Nat
  /\ HistoryLimit \in Nat \ {0} /\ HistoryLimit % 2 = 0
  /\ ContextLimit \in Nat \ {0} /\ ContextLimit % 2 = 0
  /\ ContextLimit <= HistoryLimit
  /\ MaxChunks \in Nat
  /\ MaxClears \in Nat
  /\ MaxFaults \in Nat
  /\ Kinds \in [1..MaxRequests -> SUBSET QuestionKinds]

Requests == 1..MaxRequests

VARIABLES
  history,    \* the list bot:session:<id>:history
  \* The service, per chat request.
  at,         \* how far the request is
  kind,       \* what the question is about
  past,       \* `history`, as get_history returned it
  full,       \* `full`, the chunks of the answer so far
  events,     \* server-sent events that the browser has not read
  clears,     \* clear requests that the service has not handled
  \* The panel.
  messages,   \* the bubbles
  streaming,  \* an answer is awaited
  reading,    \* requests whose response the browser reads
  blank,      \* an exception while rendering has unmounted the page
  \* Bounds and history.
  pressed,    \* presses of Clear
  faults,
  seen,       \* stored questions whose answers the panel has read to the end
  due,        \* per request, `seen` when it was sent
  gone        \* questions whose answers are stored no more, of those being read

service == <<at, kind, past, full, events>>
panel   == <<messages, streaming, reading, blank>>
ghosts  == <<seen, due, gone>>
vars    == <<history, service, clears, panel, pressed, faults, ghosts>>

-----------------------------------------------------------------------------
(***************************************************************************)
(* Data.  A chunk names the request it answers; a message is a question or *)
(* the chunks of its answer.                                               *)
(***************************************************************************)
Event(type, r) == [type |-> type, of |-> r]
Chunks   == [type : {"delta", "word"}, of : Requests]
Errors   == [type : {"error"}, of : Requests]
Messages == [role : {"user", "assistant"}, of : Requests, text : Seq(Chunks \cup Errors)]

Turn(r, text) ==
  << [role |-> "user", of |-> r, text |-> <<>>],
     [role |-> "assistant", of |-> r, text |-> text] >>

\* s[-n:] in Python; LRANGE and LTRIM with -n and -1.
LastOf(s, n) == IF Len(s) <= n THEN s ELSE SubSeq(s, Len(s) - n + 1, Len(s))

\* Mutants of Context: one message more; the oldest messages.
ContextOneMore(r) == LastOf(past[r], ContextLimit + 1)
ContextOldest(r) ==
  IF Len(past[r]) <= ContextLimit THEN past[r] ELSE SubSeq(past[r], 1, ContextLimit)

\* What stream_bot_response puts between the system prompt and the question.
Context(r) == LastOf(past[r], ContextLimit)

Stage(r, l) == at' = [at EXCEPT ![r] = l]

\* The request is over, and what it held in memory is gone.
Close(r) ==
  /\ Stage(r, "closed")
  /\ past' = [past EXCEPT ![r] = <<>>]
  /\ full' = [full EXCEPT ![r] = <<>>]
  /\ due' = [due EXCEPT ![r] = {}]

\* Yield an event; nobody gets it when the browser has stopped reading.
Emit(r, type) ==
  events' = IF r \in reading
              THEN [events EXCEPT ![r] = Append(@, Event(type, r))]
              ELSE events

Fault == faults < MaxFaults /\ faults' = faults + 1

-----------------------------------------------------------------------------
(***************************************************************************)
(* memory.py.  redis-py sends the pipeline of add_to_history as one        *)
(* MULTI, so the turn is added and the list trimmed in one step.           *)
(***************************************************************************)

\* Mutant of AddToHistory: the list is trimmed to one message more.
AddToHistoryOneMore(r) ==
  history' = LastOf(history \o Turn(r, full[r]), HistoryLimit + 1)

AddToHistory(r) ==
  history' = LastOf(history \o Turn(r, full[r]), HistoryLimit)

Forget ==
  /\ history' = <<>>
  /\ seen' = {}
  /\ due' = [r \in Requests |-> {}]
  /\ gone' = {r \in reading : at[r] = "closed"}

\* The time to live that each add sets anew has passed: an hour, in which the
\* browser has long read the answers that were saved.
Expire ==
  /\ history # <<>>
  /\ \A r \in reading : at[r] # "closed"
  /\ Forget
  /\ UNCHANGED <<service, clears, panel, pressed, faults>>

(***************************************************************************)
(* The chat endpoint.  Validation wants a ticket object (422), the limiter *)
(* counts the session's requests (429), the guardrails look at the message *)
(* (400), and the history is read (500 when Redis fails).                  *)
(***************************************************************************)
Refused(k) == k \in {"general", "blocked"}

Reject(r) ==
  /\ at[r] = "sent"
  /\ \/ Refused(kind[r]) /\ UNCHANGED faults
     \/ ~Refused(kind[r]) /\ Fault
  /\ Emit(r, "error")
  /\ Close(r)
  /\ UNCHANGED <<history, kind, clears, panel, pressed, seen, gone>>

\* stream_bot_response fills in the prompt before its try; an odd ticket raises
\* there, which becomes an error event, with nothing to save.
Accept(r) ==
  /\ at[r] = "sent"
  /\ ~Refused(kind[r])
  /\ \/ /\ kind[r] # "odd"
        /\ past' = [past EXCEPT ![r] = LastOf(history, HistoryLimit)]
        /\ Stage(r, "llm")
        /\ UNCHANGED <<full, events, due>>
     \/ /\ kind[r] = "odd"
        /\ Emit(r, "error")
        /\ Close(r)
  /\ UNCHANGED <<history, kind, clears, panel, pressed, faults, seen, gone>>

Say(r, type) ==
  /\ full' = [full EXCEPT ![r] = Append(@, Event(type, r))]
  /\ Emit(r, type)

Delta(r) ==
  /\ at[r] = "llm"
  /\ Len(full[r]) < MaxChunks
  /\ Say(r, "delta")
  /\ UNCHANGED <<history, at, kind, past, clears, panel, pressed, faults, ghosts>>

LLMEnds(r) ==
  /\ at[r] = "llm"
  /\ Stage(r, "finally")
  /\ UNCHANGED <<history, kind, past, full, events, clears, panel, pressed, faults, ghosts>>

\* Mutant of LLMFails: the partial answer is dropped from what is stored.
LLMFailsAnew(r) ==
  /\ at[r] = "llm"
  /\ Stage(r, "rules")
  /\ full' = [full EXCEPT ![r] = <<>>]
  /\ UNCHANGED <<history, kind, past, events, clears, panel, pressed, faults, ghosts>>

\* No key, no connection, a timeout, or a stream that breaks off: the rule-based
\* answer follows what has been streamed.
LLMFails(r) ==
  /\ at[r] = "llm"
  /\ Stage(r, "rules")
  /\ UNCHANGED <<history, kind, past, full, events, clears, panel, pressed, faults, ghosts>>

\* The rule-based answer, word by word; it has one word at least.
Word(r) ==
  /\ at[r] = "rules"
  /\ \/ Len(full[r]) < MaxChunks /\ UNCHANGED at
     \/ Stage(r, "finally")
  /\ Say(r, "word")
  /\ UNCHANGED <<history, kind, past, clears, panel, pressed, faults, ghosts>>

\* The finally clause: save what there is, then [DONE].
Finally(r) ==
  /\ at[r] = "finally"
  /\ \/ full[r] # <<>> /\ AddToHistory(r)
     \/ full[r] = <<>> /\ UNCHANGED history
  /\ Emit(r, "done")
  /\ Close(r)
  /\ UNCHANGED <<kind, clears, panel, pressed, faults, seen, gone>>

\* Redis fails in the finally clause: the response breaks off without [DONE].
SaveFails(r) ==
  /\ at[r] = "finally" /\ full[r] # <<>>
  /\ Fault
  /\ Emit(r, "error")
  /\ Close(r)
  /\ UNCHANGED <<history, kind, clears, panel, pressed, seen, gone>>

\* Mutant of Cancel: the finally clause runs once more.
CancelTwice(r) ==
  /\ r \notin reading
  /\ at[r] \in {"sent", "llm", "rules", "finally"}
  /\ \/ full[r] # <<>> /\ AddToHistory(r)
     \/ UNCHANGED history
  /\ Stage(r, "finally")
  /\ UNCHANGED <<kind, past, full, events, clears, panel, pressed, faults, ghosts>>

\* The server notices that the client is gone.  Where the generator is suspended
\* at a yield its finally clause saves the answer; where it awaits something it
\* is cancelled, and the save with it.  A request may also not arrive at all.
Cancel(r) ==
  /\ r \notin reading
  /\ at[r] \in {"sent", "llm", "rules", "finally"}
  /\ \/ full[r] # <<>> /\ AddToHistory(r)
     \/ UNCHANGED history
  /\ Close(r)
  /\ UNCHANGED <<kind, events, clears, panel, pressed, faults, seen, gone>>

\* The clear endpoint: DEL, or an error that the panel does not look at.
ServerClear ==
  /\ clears > 0
  /\ clears' = clears - 1
  /\ \/ Forget /\ UNCHANGED faults
     \/ Fault /\ UNCHANGED <<history, ghosts>>
  /\ UNCHANGED <<service, panel, pressed>>

-----------------------------------------------------------------------------
(***************************************************************************)
(* The panel.                                                              *)
(***************************************************************************)
Send(r) ==
  /\ ~blank /\ ~streaming
  /\ at[r] = "unsent" /\ \A q \in Requests : q < r => at[q] # "unsent"
  /\ messages' = messages \o Turn(r, <<>>)
  /\ streaming' = TRUE
  /\ reading' = reading \cup {r}
  /\ \E k \in Kinds[r] : kind' = [kind EXCEPT ![r] = k]
  /\ Stage(r, "sent")
  /\ due' = [due EXCEPT ![r] = seen]
  /\ UNCHANGED <<history, past, full, events, clears, blank, pressed, faults, seen, gone>>

SetLast(text) ==
  messages' = IF messages = <<>> THEN messages
              ELSE [messages EXCEPT ![Len(messages)].text = text]

Receive(r, types) ==
  /\ r \in reading
  /\ events[r] # <<>>
  /\ Head(events[r]).type \in types
  /\ events' = [events EXCEPT ![r] = Tail(@)]

\* Mutant of OnChunk: [DONE] is not told from a chunk.
OnChunkAny(r) ==
  /\ Receive(r, {"delta", "word", "done"})
  /\ messages # <<>>
  /\ SetLast(Append(messages[Len(messages)].text, Head(events[r])))
  /\ UNCHANGED <<history, at, kind, past, full, clears, streaming, reading, blank,
                 pressed, faults, ghosts>>

\* A chunk is added to the last bubble.  With no bubble left the state update
\* throws while React renders, which unmounts the page.
OnChunk(r) ==
  /\ Receive(r, {"delta", "word"})
  /\ \/ /\ messages # <<>>
        /\ SetLast(Append(messages[Len(messages)].text, Head(events[r])))
        /\ UNCHANGED <<reading, blank>>
     \/ /\ messages = <<>>
        /\ blank' = TRUE
        /\ reading' = {}
        /\ UNCHANGED messages
  /\ UNCHANGED <<history, at, kind, past, full, clears, streaming, pressed, faults, ghosts>>

OnDone(r) ==
  /\ Receive(r, {"done"})
  /\ streaming' = FALSE
  /\ reading' = reading \ {r}
  /\ seen' = IF r \in gone \/ messages = <<>> \/ messages[Len(messages)].text = <<>>
               THEN seen ELSE seen \cup {r}
  /\ UNCHANGED <<history, at, kind, past, full, clears, messages, blank, pressed, faults, due, gone>>

\* Mutant of Fails: the panel goes on waiting.
FailsSilently(r) ==
  /\ SetLast(<<Event("error", r)>>)
  /\ reading' = reading \ {r}
  /\ UNCHANGED <<streaming, blank>>

\* onError: the text of the bubble is replaced, whatever has been streamed.
Fails(r) ==
  /\ SetLast(<<Event("error", r)>>)
  /\ streaming' = FALSE
  /\ reading' = reading \ {r}
  /\ UNCHANGED blank

OnError(r) ==
  /\ Receive(r, {"error"})
  /\ Fails(r)
  /\ UNCHANGED <<history, at, kind, past, full, clears, pressed, faults, ghosts>>

\* The connection breaks while the browser reads.
Disconnect(r) ==
  /\ r \in reading
  /\ Fault
  /\ Fails(r)
  /\ events' = [events EXCEPT ![r] = <<>>]
  /\ UNCHANGED <<history, at, kind, past, full, clears, pressed, ghosts>>

\* Mutant of Clear: the panel no longer waits for the answer that streams.
ClearUnlocks ==
  /\ ~blank /\ pressed < MaxClears
  /\ pressed' = pressed + 1
  /\ messages' = <<>>
  /\ clears' = clears + 1
  /\ streaming' = FALSE
  /\ UNCHANGED <<history, service, reading, blank, faults, ghosts>>

\* "Clear chat" empties the panel at once and sends a request it does not wait
\* for.  The button is not disabled while an answer streams.
Clear ==
  /\ ~blank /\ pressed < MaxClears
  /\ pressed' = pressed + 1
  /\ messages' = <<>>
  /\ clears' = clears + 1
  /\ UNCHANGED <<history, service, streaming, reading, blank, faults, ghosts>>

-----------------------------------------------------------------------------
Init ==
  /\ history   = <<>>
  /\ at        = [r \in Requests |-> "unsent"]
  /\ kind      = [r \in Requests |-> "ticket"]
  /\ past      = [r \in Requests |-> <<>>]
  /\ full      = [r \in Requests |-> <<>>]
  /\ events    = [r \in Requests |-> <<>>]
  /\ clears    = 0
  /\ messages  = <<>>
  /\ streaming = FALSE
  /\ reading   = {}
  /\ blank     = FALSE
  /\ pressed   = 0
  /\ faults    = 0
  /\ seen      = {}
  /\ due       = [r \in Requests |-> {}]
  /\ gone      = {}

Serve(r) ==
  \/ Reject(r) \/ Accept(r) \/ Delta(r) \/ LLMEnds(r)
  \/ LLMFails(r) \/ Word(r) \/ Finally(r) \/ SaveFails(r) \/ Cancel(r)

Read(r) == OnChunk(r) \/ OnDone(r) \/ OnError(r)

Next ==
  \/ \E r \in Requests : Serve(r) \/ Read(r) \/ Send(r) \/ Disconnect(r)
  \/ Clear \/ ServerClear \/ Expire

Spec == Init /\ [][Next]_vars

(***************************************************************************)
(* Fairness.  The event loop runs every request it has accepted, the calls *)
(* of the LLM client time out, Redis answers or, as its calls have no      *)
(* timeout, nginx gives the request up (proxy_read_timeout), an answer is  *)
(* at most max_tokens long, and the browser reads what arrives.  The user  *)
(* owes nothing.                                                           *)
(***************************************************************************)
FairSpec ==
  /\ Spec
  /\ \A r \in Requests : WF_vars(Serve(r)) /\ WF_vars(Read(r))
  /\ WF_vars(ServerClear)

-----------------------------------------------------------------------------
(***************************************************************************)
(* Properties.                                                             *)
(***************************************************************************)
Stages == {"unsent", "sent", "llm", "rules", "finally", "closed"}

Events == Chunks \cup [type : {"error", "done"}, of : Requests]

\* Type invariant.
TypeOK ==
  /\ history \in Seq(Messages)
  /\ at \in [Requests -> Stages]
  /\ kind \in [Requests -> QuestionKinds]
  /\ past \in [Requests -> Seq(Messages)]
  /\ full \in [Requests -> Seq(Chunks)]
  /\ events \in [Requests -> Seq(Events)]
  /\ clears \in Nat
  /\ messages \in Seq(Messages)
  /\ streaming \in BOOLEAN
  /\ reading \subseteq Requests
  /\ blank \in BOOLEAN
  /\ pressed \in Nat
  /\ faults \in Nat
  /\ seen \subseteq Requests
  /\ due \in [Requests -> SUBSET Requests]
  /\ gone \subseteq Requests

IsAnswer(m) == m.role = "assistant"

\* The memory of a session is whole turns (add_to_history): a question and the
\* answer to it alternate, and never more than HistoryLimit messages are kept.
\* Turns added by requests that overlap do not mix.
WholeTurns(s) ==
  /\ Len(s) % 2 = 0
  /\ \A i \in 1..Len(s) :
       /\ IsAnswer(s[i]) <=> i % 2 = 0
       /\ IsAnswer(s[i]) => s[i].of = s[i - 1].of

HistoryIsTurns == WholeTurns(history) /\ Len(history) <= HistoryLimit

\* The LLM is given whole turns (get_history, stream_bot_response): neither the
\* trimming of the list nor the cut to the last ContextLimit messages leaves an
\* answer without its question.
ContextIsTurns == \A r \in Requests : WholeTurns(Context(r))

\* The bot remembers (bot_chat, its finally clause): a question is answered with
\* the last exchange that the panel had shown to its end when it was asked, unless
\* the list has been deleted since, or later answers, whose connection was lost,
\* take up the context.
RemembersLastTurn ==
  \A r \in Requests, q \in Requests :
    /\ at[r] \in {"llm", "rules", "finally"}
    /\ q \in due[r]
    /\ \A p \in due[r] : p <= q
    => \/ \E i \in 1..Len(Context(r)) : Context(r)[i].of = q
       \/ /\ Len(Context(r)) = ContextLimit
          /\ \A i \in 1..Len(Context(r)) : Context(r)[i].of \notin due[r]

\* What is remembered is what the user saw (stream, onChunk): a bubble that is
\* not an error shows a beginning of the stored answer, and all of it once the
\* panel has stopped reading.
IsPrefixOf(s, t) == Len(s) <= Len(t) /\ \A i \in 1..Len(s) : s[i] = t[i]

IsError(m) == \E i \in 1..Len(m.text) : m.text[i].type = "error"

ShownIsStored ==
  \A i \in 1..Len(messages), k \in 1..Len(history) :
    LET bubble == messages[i]
        stored == history[k]
    IN  IsAnswer(bubble) /\ IsAnswer(stored) /\ bubble.of = stored.of /\ ~IsError(bubble) =>
          /\ IsPrefixOf(bubble.text, stored.text)
          /\ bubble.of \notin reading => bubble.text = stored.text

\* A chunk lands in the bubble of its own question (onChunk writes to the last
\* one): at most one answer is read at a time, although the service may still
\* be producing answers whose connection was lost.
RightBubble ==
  /\ \A r, q \in reading : r = q
  /\ \A i \in 1..Len(messages) :
       \A k \in 1..Len(messages[i].text) : messages[i].text[k].of = messages[i].of

\* The abstract conversation: the whole turns of the list.  A turn is a question
\* with its answer, two messages, so the bound on messages keeps half as many.
TurnsOf(h) ==
  [i \in 1..(Len(h) \div 2) |-> [of |-> h[2 * i].of, text |-> h[2 * i].text]]

Memory ==
  INSTANCE Conversation WITH
    MaxTurns <- HistoryLimit \div 2,
    Texts    <- Seq(Chunks),
    turns    <- TurnsOf(history)

\* The list implements a conversation (memory.py): a turn is added once, at the
\* end, the oldest goes when there are too many, and otherwise only all turns
\* are forgotten at once.  It keeps the turns that fit into HistoryLimit messages,
\* ten: the "20-turn conversation memory" of memory.py:1 is one of 20 messages.
KeepsConversation == Memory!Spec

\* Every answer the panel waits for ends (streamBot, the finally clause of
\* stream, the fallback of bot.py): with [DONE], an error, or a page that is gone.
EveryAnswerEnds == streaming ~> (~streaming \/ blank)

\* "Select a ticket for context or ask a general IT question" (AIBot.jsx:117):
\* with no fault a question without a ticket gets an answer.
GeneralQuestionsAnswered ==
  \A i \in 1..Len(messages) :
    kind[messages[i].of] = "general" => ~IsError(messages[i])

=============================================================================
