---------------------------- MODULE AgentSessions ----------------------------
(***************************************************************************)
(* An agent session of one user: messages run the graph over the thread    *)
(* that the checkpoints keep, and log the tool calls afterwards.  Nothing  *)
(* keeps two messages to one session apart.                                *)
(***************************************************************************)
EXTENDS AuthSessions, Naturals, SequencesExt

CONSTANTS
    MaxCalls,   \* bound on the tool calls of one run
    MaxThread,  \* bound on the messages of the thread when a run starts
    MaxBeside,  \* bound on the executions a new one may run beside
    MaxFaults   \* bound on crashes of the server

ASSUME AgentAssumption ==
    MaxCalls \in Nat /\ MaxThread \in Nat /\ MaxBeside \in Nat /\ MaxFaults \in Nat

VARIABLES
    agentSession,  \* whether the row exists
    thread,        \* the messages in the latest checkpoint
    run,           \* what each message's execution knows
    log,           \* agent_tool_call_logs: calls with their status
    overlapped,    \* history: executions that ran beside another
    faults         \* crashes so far

agentVars == <<agentSession, thread, run, log, overlapped, faults>>
vars == <<authVars, agentVars>>

\* TOOL_RETRY_POLICY.max_attempts
MaxAttempts == 3

\* Faulty variant: the last attempt is not counted.
FaultyRetried(attempts) == attempts <= MaxAttempts

Retried(attempts) == attempts < MaxAttempts

\* A message: the run that produced it, what it is, the tool call it makes or
\* answers (0: none), whether it has text, or results for a tool.
Message(r, kind, call, full) == [run |-> r, kind |-> kind, call |-> call, full |-> full]

Messages == [run : Requests, kind : {"HUMAN", "AI", "TOOL", "ERROR"}, call : 0 .. MaxCalls,
             full : BOOLEAN]

NoAnswer == {}

\* previous: length of the thread before the run; observed: calls the tool node
\* tried; tried: attempts of the present call; outcome: the response.
NoRun == [at |-> "idle", previous |-> 0, messages |-> <<>>, calls |-> 0, tried |-> 0,
          observed |-> {}, toLog |-> {}, failed |-> FALSE, saved |-> FALSE,
          answer |-> NoAnswer, sources |-> {}]

Init ==
    /\ AuthInit
    /\ agentSession = FALSE /\ thread = <<>> /\ log = {} /\ overlapped = {} /\ faults = 0
    /\ run = [r \in Requests |-> NoRun]

InGraph(r) == run[r].at \in {"load", "validate", "model", "tools"}

Running(r) == run[r].at \notin {"idle", "done"}

CreateAgentSession ==
    /\ \E s \in Logins : Authenticated(s)
    /\ ~agentSession /\ agentSession' = TRUE
    /\ UNCHANGED <<authVars, thread, run, log, overlapped, faults>>

\* get_owned_agent_session and checkpoint_messages, the length of which send_agent_message keeps.
ReadPrevious(r) ==
    /\ At(r, "PROTECTED", "inside") /\ run[r] = NoRun
    /\ agentSession
    /\ Len(thread) <= MaxThread /\ Cardinality({q \in Requests : Running(q)}) <= MaxBeside
    /\ run' = [run EXCEPT ![r].at = "load", ![r].previous = Len(thread)]
    /\ LET others == {q \in Requests : InGraph(q)}
       IN overlapped' = overlapped \union others \union (IF others = {} THEN {} ELSE {r})
    /\ UNCHANGED <<authVars, agentSession, thread, log, faults>>

\* The checkpoint cannot be read: 503 before anything is run.
CheckpointUnreadable(r) ==
    /\ At(r, "PROTECTED", "inside") /\ run[r] = NoRun /\ agentSession
    /\ Answer(r)
    /\ UNCHANGED <<account, authSession, accessToken, agentVars>>

Keep == UNCHANGED <<authVars, agentSession, log, overlapped, faults>>

\* graph.invoke loads the checkpoint, by now perhaps another one, and adds the question.
LoadThread(r) ==
    /\ run[r].at = "load"
    /\ run' = [run EXCEPT ![r].at = "validate",
                          ![r].messages = Append(thread, Message(r, "HUMAN", 0, TRUE))]
    /\ UNCHANGED thread
    /\ Keep

\* Each step of the graph saves its whole state as the latest checkpoint.
GraphStep(r, next, new, changes) ==
    LET after == run[r].messages \o new
    IN /\ thread' = after
       /\ run' = [run EXCEPT ![r] = [changes EXCEPT !.at = next, !.messages = after]]
       /\ Keep

ValidateContext(r) == run[r].at = "validate" /\ GraphStep(r, "model", <<>>, run[r])

\* call_model and route_model_action: tool call, answer, or an answer without text.
ModelCalls(r) ==
    /\ run[r].at = "model" /\ run[r].calls < MaxCalls
    /\ \E text \in BOOLEAN :
           GraphStep(r, "tools", <<Message(r, "AI", run[r].calls + 1, text)>>,
                     [run[r] EXCEPT !.calls = @ + 1, !.tried = 0])

ModelAnswers(r) ==
    /\ run[r].at = "model"
    /\ \E text \in BOOLEAN : GraphStep(r, "record", <<Message(r, "AI", 0, text)>>, run[r])

\* observe_tool_call: the tool finds something or nothing, or handle_tool_error
\* turns the failure into a message.
ToolAnswers(r) ==
    /\ run[r].at = "tools"
    /\ \E result \in {<<"TOOL", TRUE>>, <<"TOOL", FALSE>>, <<"ERROR", FALSE>>} :
           GraphStep(r, "model", <<Message(r, result[1], run[r].calls, result[2])>>,
                     [run[r] EXCEPT !.observed = @ \union {run[r].calls}])

\* A timeout or a lost connection goes to the retry policy.
ToolTimesOut(r) ==
    /\ run[r].at = "tools"
    /\ LET attempt == run[r].tried + 1
       IN run' = [run EXCEPT ![r].tried = attempt,
                             ![r].observed = @ \union {run[r].calls},
                             ![r].at = IF Retried(attempt) THEN "tools" ELSE "record",
                             ![r].failed = ~Retried(attempt)]
    /\ UNCHANGED thread
    /\ Keep

\* The graph fails: a checkpoint or the model cannot be reached.
GraphFails(r) ==
    /\ run[r].at \in {"load", "validate", "model"}
    /\ run' = [run EXCEPT ![r].at = "record", ![r].failed = TRUE]
    /\ UNCHANGED thread
    /\ Keep

-----------------------------------------------------------------------------
\* Faulty variant: the answer is looked for in the whole thread.
FaultyNewMessages(r) == run[r].messages

\* all_messages[len(previous_messages):]
NewMessages(r) == SubSeq(run[r].messages, run[r].previous + 1, Len(run[r].messages))

Logged(call) == \E entry \in log : entry.call = call

CallOf(message) == <<message.run, message.call>>

CallLog(call, status) == [call |-> call, status |-> status]

\* record_new_tool_calls: the calls of the new messages not yet in the log.
NewToolCalls(r) ==
    LET new == ToSet(NewMessages(r))
        Status(m) == IF \E t \in new : t.kind = "TOOL" /\ CallOf(t) = CallOf(m)
                     THEN "COMPLETED" ELSE "FAILED"
    IN {CallLog(CallOf(m), Status(m)) :
            m \in {m \in new : m.kind = "AI" /\ m.call > 0 /\ ~Logged(CallOf(m))}}

\* Faulty variant: the calls of a failed run are not recorded.
FaultyFailedToolCalls(r) == {}

\* record_failed_observations: FAILED, whatever the last attempt came to.
FailedToolCalls(r) == {CallLog(<<r, n>>, "FAILED") : n \in {n \in run[r].observed : ~Logged(<<r, n>>)}}

RecordToolCalls(r) ==
    /\ run[r].at = "record"
    /\ run' = [run EXCEPT ![r].at = "commit",
                          ![r].toLog = IF run[r].failed THEN FailedToolCalls(r) ELSE NewToolCalls(r)]
    /\ UNCHANGED thread
    /\ Keep

\* last_answer: the last message of the model that has text.
LastAnswer(r) ==
    LET new == NewMessages(r)
        spoken == {i \in DOMAIN new : new[i].kind = "AI" /\ new[i].full}
    IN {new[i].run : i \in {i \in spoken : \A j \in spoken : j <= i}}

\* sources_from_tool_messages
Sources(r) == {CallOf(m) : m \in {m \in ToSet(NewMessages(r)) : m.kind = "TOOL" /\ m.full}}

\* The request is answered; what only the execution needed is forgotten.
Ends(r, saved, answer, sources) ==
    run' = [run EXCEPT ![r] = [NoRun EXCEPT !.at = "done", !.observed = run[r].observed,
                                            !.saved = saved, !.answer = answer,
                                            !.sources = sources]]

\* commit_execution; the response is built from the committed run, and refused
\* when there is no answer.
CommitExecution(r) ==
    /\ run[r].at = "commit"
    /\ ~\E entry \in run[r].toLog : Logged(entry.call)
    /\ log' = log \union run[r].toLog
    /\ LET answers == ~run[r].failed /\ LastAnswer(r) # {}
       IN Ends(r, TRUE, IF answers THEN LastAnswer(r) ELSE NoAnswer,
                     IF answers THEN Sources(r) ELSE {})
    /\ Answer(r)
    /\ UNCHANGED <<account, authSession, accessToken, agentSession, thread, overlapped, faults>>

\* The whole commit is refused: always so when another run has logged one of
\* the calls since.
CommitRefused(r) ==
    /\ run[r].at = "commit"
    /\ Ends(r, FALSE, NoAnswer, {})
    /\ Answer(r)
    /\ UNCHANGED <<account, authSession, accessToken, agentSession, thread, log, overlapped, faults>>

\* The server dies: the executions end without an answer, the thread remains.
Crash ==
    /\ faults < MaxFaults /\ faults' = faults + 1
    /\ \E r \in Requests : Running(r)
    /\ request' = [r \in Requests |->
           IF request[r] = Unserved THEN Unserved ELSE [request[r] EXCEPT !.at = "done"]]
    /\ run' = [r \in Requests |->
           IF Running(r) THEN [NoRun EXCEPT !.at = "done"] ELSE run[r]]
    /\ UNCHANGED <<account, authSession, accessToken, agentSession, thread, log, overlapped>>

AgentStep(r) ==
    \/ ReadPrevious(r) \/ CheckpointUnreadable(r) \/ LoadThread(r) \/ ValidateContext(r)
    \/ ModelCalls(r) \/ ModelAnswers(r) \/ ToolAnswers(r) \/ ToolTimesOut(r) \/ GraphFails(r)
    \/ RecordToolCalls(r) \/ CommitExecution(r) \/ CommitRefused(r)

Next ==
    \/ \E r \in Requests : AgentStep(r)
    \/ CreateAgentSession \/ Crash
    \/ AuthNext /\ UNCHANGED agentVars

Spec == Init /\ [][Next]_vars

-----------------------------------------------------------------------------

TypeOK ==
    /\ AuthTypeOK
    /\ agentSession \in BOOLEAN
    /\ thread \in Seq(Messages)
    /\ \A entry \in log : entry.call \in Requests \X (1 .. MaxCalls)
    /\ overlapped \subseteq Requests
    /\ \A r \in Requests : run[r].tried <= MaxAttempts /\ run[r].messages \in Seq(Messages)
    /\ faults \in 0 .. MaxFaults

\* The answer and the sources a message gets back come from its own run, after
\* failed, crashed and empty runs before it, unless another ran beside it.
AnswersAreOwn ==
    \A r \in Requests \ overlapped :
        run[r].answer \subseteq {r} /\ \A call \in run[r].sources : call[1] = r

\* When a run ends with its record saved, failed or not, the log has every call
\* its tools tried, and a call that gave the answer a source as COMPLETED,
\* unless another ran beside it.
CallsAudited ==
    \A r \in Requests \ overlapped : run[r].saved =>
        /\ \A n \in run[r].observed : Logged(<<r, n>>)
        /\ \A call \in run[r].sources : CallLog(call, "COMPLETED") \in log
=============================================================================
