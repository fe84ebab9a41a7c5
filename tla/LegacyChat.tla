------------------------------ MODULE LegacyChat ------------------------------
(***************************************************************************)
(* A chat session over the knowledge base of LegacyDocuments.  A question  *)
(* reads the recent messages, asks Chroma, asks the model, and then stores *)
(* question and answer in one transaction with times of its own clock.     *)
(***************************************************************************)
EXTENDS LegacyDocuments, Sequences, FiniteSets

CONSTANTS
    Askers,        \* concurrent questions to the session
    Times,         \* microseconds at which questions are stored; no two at one time
    OldExchanges,  \* times of exchanges stored with one time for both messages
    HistoryLimit   \* messages a prompt takes from the history

ASSUME ChatAssumption ==
    /\ Times \subseteq Nat /\ OldExchanges \subseteq Nat \ Times
    /\ HistoryLimit \in Nat

VARIABLES
    messages,   \* chat_messages of the session
    ask         \* what each question has read so far

vars == <<documentVars, messages, ask>>

Roles == {"USER", "ASSISTANT"}

\* exchange identifies question and answer; sources tells whether the answer
\* cites the document, late whether the question was asked after it was gone.
Message(exchange, role, time, sources, late) ==
    [exchange |-> exchange, role |-> role, time |-> time, sources |-> sources, late |-> late]

NoQuestion == [at |-> "idle", history |-> <<>>, found |-> FALSE, late |-> FALSE]

Init ==
    /\ DocumentInit
    /\ messages = {Message(t, role, t, FALSE, FALSE) : t \in OldExchanges, role \in Roles}
    /\ ask = [c \in Askers |-> NoQuestion]

\* Faulty variant: answers of one time are put before questions.
FaultyRolesDescending(m, n) == m.role = "USER" /\ n.role = "ASSISTANT"

\* role is an enumeration of PostgreSQL, ordered as declared: USER, ASSISTANT.
\* Ascending in the query, it is descending once the result is reversed.
RolesDescending(m, n) == m.role = "ASSISTANT" /\ n.role = "USER"

Before(m, n) == m.time < n.time \/ (m.time = n.time /\ RolesDescending(m, n))

Position(m) == 1 + Cardinality({n \in messages : Before(n, m)})

\* read_recent_messages: the last messages, from old to new.
RecentMessages ==
    LET count == Cardinality(messages)
        skipped == IF count > HistoryLimit THEN count - HistoryLimit ELSE 0
    IN  [i \in 1 .. count - skipped |-> CHOOSE m \in messages : Position(m) = skipped + i]

ReadHistory(c) ==
    /\ ask[c].at = "idle"
    /\ ask' = [ask EXCEPT ![c] = [at |-> "retrieve", history |-> RecentMessages,
                                  found |-> FALSE, late |-> status = "GONE"]]
    /\ UNCHANGED <<documentVars, messages>>

\* retrieve_chunks asks Chroma and not the documents table; chunks may be too
\* far from the question.
Retrieve(c) ==
    /\ ask[c].at = "retrieve"
    /\ \E found \in {FALSE, vectors} :
         ask' = [ask EXCEPT ![c].found = found, ![c].at = IF found THEN "model" ELSE "save"]
    /\ UNCHANGED <<documentVars, messages>>

AskModel(c) ==
    /\ ask[c].at = "model"
    /\ ask' = [ask EXCEPT ![c].at = "save"]
    /\ UNCHANGED <<documentVars, messages>>

\* Chroma, the model or the transaction fails: nothing is stored.
AskFails(c) ==
    /\ ask[c].at # "idle"
    /\ ask' = [ask EXCEPT ![c] = NoQuestion]
    /\ UNCHANGED <<documentVars, messages>>

\* Faulty variant: question and answer are stored with one time.
FaultyExchange(t, question) ==
    {Message(t, "USER", t, FALSE, question.late),
     Message(t, "ASSISTANT", t, question.found, question.late)}

\* save_chat_exchange: the answer is one microsecond later.
Exchange(t, question) ==
    {Message(t, "USER", t, FALSE, question.late),
     Message(t, "ASSISTANT", t + 1, question.found, question.late)}

SaveExchange(c) ==
    /\ ask[c].at = "save"
    /\ \E t \in Times \ {m.exchange : m \in messages} :
         messages' = messages \union Exchange(t, ask[c])
    /\ ask' = [ask EXCEPT ![c] = NoQuestion]
    /\ UNCHANGED documentVars

AskStep(c) == ReadHistory(c) \/ Retrieve(c) \/ AskModel(c) \/ AskFails(c) \/ SaveExchange(c)

\* A crash ends the questions as well.
Next ==
    \/ (\E w \in Workers : WorkStep(w)) /\ UNCHANGED <<messages, ask>>
    \/ Crash /\ ask' = [c \in Askers |-> NoQuestion] /\ UNCHANGED messages
    \/ \E c \in Askers : AskStep(c)

Spec == Init /\ [][Next]_vars

-----------------------------------------------------------------------------

\* The history given to the model is whole exchanges, each question directly
\* before its answer, whatever other questions are stored meanwhile (the
\* comments in read_recent_messages and save_chat_exchange).
HistoryInWholeExchanges ==
    \A c \in Askers : LET history == ask[c].history IN
        /\ Len(history) % 2 = 0
        /\ \A i \in DOMAIN history : i % 2 = 1 =>
             /\ history[i].role = "USER" /\ history[i + 1].role = "ASSISTANT"
             /\ history[i].exchange = history[i + 1].exchange

\* Unless work on the document overlapped, no stored answer to a question asked
\* after the deletion cites the document, though retrieval does not look at it.
AnswersCiteNoDeletedDocument ==
    \A m \in messages : m.sources /\ m.late => overlapped
=============================================================================
