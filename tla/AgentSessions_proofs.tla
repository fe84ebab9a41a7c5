------------------------- MODULE AgentSessions_proofs -------------------------
(***************************************************************************)
(* Proofs about AgentSessions and the login sessions it enters with: a     *)
(* logout is final, a run that no other ran beside answers with its own    *)
(* work, and its tool calls are in the log when its record is saved.       *)
(***************************************************************************)
EXTENDS AgentSessions, TLAPS

Steps == {"idle", "load", "validate", "model", "tools", "record", "commit", "done"}

Entries == [call : Requests \X (1 .. MaxCalls), status : {"COMPLETED", "FAILED"}]

Run == [at : Steps, previous : Nat, messages : Seq(Messages), calls : 0 .. MaxCalls,
        tried : 0 .. MaxAttempts, observed : SUBSET (1 .. MaxCalls), toLog : SUBSET Entries,
        failed : BOOLEAN, saved : BOOLEAN, answer : SUBSET Requests,
        sources : SUBSET (Requests \X (0 .. MaxCalls))]

RunsTyped ==
    /\ AuthTypeOK
    /\ agentSession \in BOOLEAN
    /\ thread \in Seq(Messages)
    /\ log \subseteq Entries
    /\ overlapped \subseteq Requests
    /\ run \in [Requests -> Run]
    /\ faults \in 0 .. MaxFaults

\* A tool is tried for a call the model made, and not once too often; nothing
\* is answered before the end.
RunSound(r) ==
    /\ run[r].at = "tools" => run[r].calls > 0 /\ run[r].tried < MaxAttempts
    /\ InGraph(r) => ~run[r].failed
    /\ run[r].at # "done" => ~run[r].saved /\ run[r].answer = {} /\ run[r].sources = {}

\* The places of a sequence of messages that hold what run r produced.
PlacesOf(s, r) == {i \in DOMAIN s : s[i].run = r}

\* Runs that wrote the thread on from what they loaded, and those whose result
\* is taken from it.
Writing(r) == run[r].at \in {"validate", "model", "tools"}
Loaded(r)  == Writing(r) \/ (run[r].at \in {"record", "commit"} /\ ~run[r].failed)

\* Two executions in the graph at once both count as overlapped.
GraphShared ==
    \A p, q \in Requests : p # q /\ InGraph(p) /\ InGraph(q) => p \in overlapped

\* What a run alone leaves in the thread is in every later copy, where it was,
\* and before what later runs take for new.
LeftToOthers(r) ==
    /\ \A p \in Requests \ {r} : Writing(p) => PlacesOf(run[p].messages, r) = PlacesOf(thread, r)
    /\ \A p \in Requests \ {r} : InGraph(p) => \A i \in PlacesOf(thread, r) : i <= run[p].previous
    /\ \A p \in Requests \ {r} :
           Loaded(p) => \A i \in PlacesOf(run[p].messages, r) : i <= run[p].previous
    /\ \A p \in Requests \ {r} : \A entry \in run[p].toLog : entry.call[1] # r
    /\ \A entry \in log : entry.call[1] = r => run[r].saved

\* The new messages of run r have the model's request of tool call n.
Requested(r, n) ==
    n > 0 /\ \E i \in DOMAIN run[r].messages :
        /\ i > run[r].previous
        /\ run[r].messages[i].kind = "AI" /\ run[r].messages[i].call = n

\* What a run alone takes for new is its own, and complete.
OwnWork(r) ==
    /\ run[r].at = "load" => run[r].previous = Len(thread) /\ run[r].observed = {}
    /\ Loaded(r) =>
         /\ run[r].previous < Len(run[r].messages)
         /\ \A i \in DOMAIN run[r].messages : i > run[r].previous =>
              /\ run[r].messages[i].run = r
              /\ run[r].messages[i].kind = "TOOL" => Requested(r, run[r].messages[i].call)
         /\ \A n \in run[r].observed : Requested(r, n)
    /\ run[r].at = "tools" => Requested(r, run[r].calls)
    /\ run[r].at = "commit" =>
         /\ \A n \in run[r].observed : \E entry \in run[r].toLog : entry.call = <<r, n>>
         /\ ~run[r].failed => \A call \in Sources(r) : CallLog(call, "COMPLETED") \in run[r].toLog

Answered(r) ==
    /\ run[r].answer \subseteq {r} /\ \A call \in run[r].sources : call[1] = r
    /\ run[r].saved =>
         /\ \A n \in run[r].observed : Logged(<<r, n>>)
         /\ \A call \in run[r].sources : CallLog(call, "COMPLETED") \in log

RunsKept ==
    /\ GraphShared
    /\ \A r \in Requests : RunSound(r)
    /\ \A r \in Requests \ overlapped : LeftToOthers(r) /\ OwnWork(r) /\ Answered(r)

AgentInvariant == RunsTyped /\ RunsKept

-----------------------------------------------------------------------------
\* Types.

LEMMA MessageIs ==
  ASSUME NEW r \in Requests, NEW kind \in {"HUMAN", "AI", "TOOL", "ERROR"},
         NEW call \in 0 .. MaxCalls, NEW full \in BOOLEAN
  PROVE  /\ Message(r, kind, call, full) \in Messages
         /\ Message(r, kind, call, full).run = r /\ Message(r, kind, call, full).kind = kind
         /\ Message(r, kind, call, full).call = call
  BY DEF Message, Messages

LEMMA NoRunIsRun == NoRun \in Run
<1>1. MaxAttempts \in Nat /\ MaxCalls \in Nat
  BY AgentAssumption DEF MaxAttempts
<1>2. <<>> \in Seq(Messages) /\ 0 \in 0 .. MaxCalls /\ 0 \in 0 .. MaxAttempts
  BY <1>1
<1> QED BY <1>2 DEF NoRun, Run, Steps, NoAnswer

\* The new messages are those after the length the thread had.
LEMMA NewMessagesAre ==
  ASSUME NEW r \in Requests, run[r].messages \in Seq(Messages), run[r].previous \in Nat
  PROVE  /\ NewMessages(r) \in Seq(Messages)
         /\ \A m : m \in ToSet(NewMessages(r)) <=>
              \E i \in DOMAIN run[r].messages : i > run[r].previous /\ run[r].messages[i] = m
<1> DEFINE s == run[r].messages
           k == run[r].previous
           t == SubSeq(s, k + 1, Len(s))
<1> HIDE DEF s, k
<1>1. s \in Seq(Messages) /\ k \in Nat
  BY DEF s, k
<1>2. /\ t \in Seq(Messages)
      /\ DOMAIN t = 1 .. (IF k < Len(s) THEN Len(s) - k ELSE 0)
      /\ \A j \in DOMAIN t : t[j] = s[j + k]
  BY <1>1
<1>3. NewMessages(r) = t
  BY DEF NewMessages, s, k
<1> HIDE DEF t
<1>4. \A j \in DOMAIN t : j + k \in DOMAIN s /\ j + k > k
  BY <1>1, <1>2
<1>5. \A i \in DOMAIN s : i > k => i - k \in DOMAIN t /\ t[i - k] = s[i]
  <2> TAKE i \in DOMAIN s
  <2> HAVE i > k
  <2>1. i - k \in DOMAIN t /\ (i - k) + k = i
    BY <1>1, <1>2
  <2> QED BY <1>2, <2>1
<1>6. \A m : m \in ToSet(t) <=> \E i \in DOMAIN s : i > k /\ s[i] = m
  <2>1. \A j \in DOMAIN t : \E i \in DOMAIN s : i > k /\ s[i] = t[j]
    BY <1>2, <1>4
  <2> QED BY <1>5, <2>1 DEF ToSet
<1> QED BY <1>2, <1>3, <1>6 DEF s, k

\* What every step of a request does to the others, and a step of the graph to
\* its own run.
LEMMA GraphStepIs ==
  ASSUME RunsTyped, NEW r \in Requests, NEW next \in Steps, NEW new \in Seq(Messages),
         NEW changes \in Run, GraphStep(r, next, new, changes)
  PROVE  /\ thread' = run[r].messages \o new /\ thread' \in Seq(Messages)
         /\ run' \in [Requests -> Run]
         /\ run'[r] = [changes EXCEPT !.at = next, !.messages = thread']
         /\ \A q \in Requests \ {r} : run'[q] = run[q]
         /\ UNCHANGED <<account, authSession, accessToken, request,
                        agentSession, log, overlapped, faults>>
<1>1. run \in [Requests -> Run] /\ run[r].messages \in Seq(Messages)
  BY DEF RunsTyped, Run
<1>2. thread' = run[r].messages \o new /\ thread' \in Seq(Messages)
  BY <1>1 DEF GraphStep
<1>3. run' = [run EXCEPT ![r] = [changes EXCEPT !.at = next, !.messages = thread']]
  BY DEF GraphStep
<1>4. [changes EXCEPT !.at = next, !.messages = thread'] \in Run
  BY <1>2 DEF Run
<1>5. UNCHANGED <<account, authSession, accessToken, request, agentSession, log, overlapped, faults>>
  BY DEF GraphStep, Keep, authVars
<1> QED BY <1>1, <1>2, <1>3, <1>4, <1>5

\* The calls of a run that has not saved its record are its own, if it ran alone.
LEMMA ToLogTyped ==
  ASSUME RunsTyped, NEW r \in Requests
  PROVE  NewToolCalls(r) \in SUBSET Entries /\ FailedToolCalls(r) \in SUBSET Entries
<1>1. /\ run[r].messages \in Seq(Messages) /\ run[r].previous \in Nat
      /\ run[r].observed \subseteq 1 .. MaxCalls /\ MaxCalls \in Nat
  BY AgentAssumption DEF RunsTyped, Run
<1>2. FailedToolCalls(r) \in SUBSET Entries
  <2>1. \A n \in run[r].observed : CallLog(<<r, n>>, "FAILED") \in Entries
    BY <1>1 DEF CallLog, Entries
  <2> QED BY <2>1 DEF FailedToolCalls
<1>3. ASSUME NEW m \in Messages, m.call > 0, NEW status \in {"COMPLETED", "FAILED"}
      PROVE  CallLog(CallOf(m), status) \in Entries
  BY <1>1, <1>3 DEF CallLog, CallOf, Entries, Messages
<1>4. \A m \in ToSet(NewMessages(r)) : m \in Messages
  BY <1>1, NewMessagesAre
<1>5. NewToolCalls(r) \in SUBSET Entries
  BY <1>3, <1>4 DEF NewToolCalls
<1> QED BY <1>2, <1>5

-----------------------------------------------------------------------------
\* Login sessions.

LEMMA AuthTyped ==
  ASSUME AuthTypeOK, AuthNext
  PROVE  AuthTypeOK'
<1>1. CASE Register \/ SetExistingUserPassword
  BY <1>1 DEF Register, SetExistingUserPassword, AuthTypeOK
<1>2. ASSUME NEW s \in Logins, Login(s) \/ Expire(s)
      PROVE  AuthTypeOK'
  <2>1. authSession[s] \in [open : BOOLEAN, revoked : BOOLEAN, expired : BOOLEAN]
    BY DEF AuthTypeOK
  <2>2. CASE Login(s)
    BY <2>1, <2>2 DEF Login, AuthTypeOK
  <2>3. CASE Expire(s)
    <3>1. CASE UNCHANGED authSession
      BY <2>3, <3>1 DEF Expire, AuthTypeOK
    <3>2. CASE authSession' = [authSession EXCEPT ![s].expired = TRUE] /\ UNCHANGED accessToken
      BY <2>1, <2>3, <3>2 DEF Expire, AuthTypeOK
    <3> QED BY <2>3, <3>1, <3>2 DEF Expire
  <2> QED BY <1>2, <2>2, <2>3
<1>3. ASSUME NEW r \in Requests, NEW s \in Logins, RefreshRead(r, s) \/ LogoutEnter(r, s) \/ Enter(r, s)
      PROVE  AuthTypeOK'
  BY <1>3 DEF RefreshRead, LogoutEnter, Enter, Serve, AuthTypeOK
<1>4. ASSUME NEW r \in Requests, RefreshCommit(r) \/ LogoutCommit(r) \/ CommitFails(r)
      PROVE  AuthTypeOK'
  <2>1. request' \in [Requests ->
           [op : {"NONE", "REFRESH", "LOGOUT", "PROTECTED"},
            at : {"idle", "commit", "inside", "done"},
            session : Logins \union {"none"}]]
    BY <1>4 DEF RefreshCommit, LogoutCommit, CommitFails, Answer, AuthTypeOK
  <2>2. CASE RefreshCommit(r)
    BY <2>1, <2>2 DEF RefreshCommit, AuthTypeOK
  <2>3. CASE LogoutCommit(r)
    BY <2>1, <2>3 DEF LogoutCommit, AuthTypeOK
  <2>4. CASE CommitFails(r)
    BY <2>1, <2>4 DEF CommitFails, AuthTypeOK
  <2> QED BY <1>4, <2>2, <2>3, <2>4
<1> QED BY <1>1, <1>2, <1>3, <1>4 DEF AuthNext, AccountStep, AuthStep

\* What the steps of agent sessions do to login sessions and requests: nothing,
\* or requests are answered or cut off.
LEMMA AgentLeavesLogins ==
  ASSUME AuthTypeOK, Crash \/ CreateAgentSession \/ \E r \in Requests : AgentStep(r)
  PROVE  /\ UNCHANGED <<account, authSession, accessToken>>
         /\ AuthTypeOK'
         /\ \A r \in Requests : request'[r] = request[r] \/ request'[r] = [request[r] EXCEPT !.at = "done"]
<1>1. CASE Crash
  <2>1. request' = [r \in Requests |->
           IF request[r] = Unserved THEN Unserved ELSE [request[r] EXCEPT !.at = "done"]]
    BY <1>1 DEF Crash
  <2>2. \A r \in Requests : request'[r] = request[r] \/ request'[r] = [request[r] EXCEPT !.at = "done"]
    BY <2>1
  <2>3. request' \in [Requests ->
           [op : {"NONE", "REFRESH", "LOGOUT", "PROTECTED"},
            at : {"idle", "commit", "inside", "done"},
            session : Logins \union {"none"}]]
    <3>1. \A r \in Requests : request[r] \in
             [op : {"NONE", "REFRESH", "LOGOUT", "PROTECTED"},
              at : {"idle", "commit", "inside", "done"}, session : Logins \union {"none"}]
      BY DEF AuthTypeOK
    <3>2. \A r \in Requests : request'[r] \in
             [op : {"NONE", "REFRESH", "LOGOUT", "PROTECTED"},
              at : {"idle", "commit", "inside", "done"}, session : Logins \union {"none"}]
      BY <2>2, <3>1
    <3> QED BY <2>1, <3>2
  <2>4. AuthTypeOK'
    BY <1>1, <2>3 DEF Crash, AuthTypeOK
  <2> QED BY <1>1, <2>2, <2>4 DEF Crash
<1>2. CASE CreateAgentSession
  BY <1>2 DEF CreateAgentSession, authVars, AuthTypeOK
<1>3. ASSUME NEW r \in Requests, AgentStep(r)
      PROVE  /\ UNCHANGED <<account, authSession, accessToken>>
             /\ UNCHANGED request \/ Answer(r)
  <2>1. CASE CheckpointUnreadable(r) \/ CommitExecution(r) \/ CommitRefused(r)
    BY <2>1 DEF CheckpointUnreadable, CommitExecution, CommitRefused
  <2>2. CASE ~(CheckpointUnreadable(r) \/ CommitExecution(r) \/ CommitRefused(r))
    BY <1>3, <2>2 DEF AgentStep, ReadPrevious, LoadThread, ValidateContext, ModelCalls, ModelAnswers,
                      ToolAnswers, ToolTimesOut, GraphFails, RecordToolCalls, GraphStep, Keep, authVars
  <2> QED BY <2>1, <2>2
<1>4. ASSUME NEW r \in Requests, AgentStep(r)
      PROVE  /\ AuthTypeOK'
             /\ \A q \in Requests : request'[q] = request[q] \/ request'[q] = [request[q] EXCEPT !.at = "done"]
  BY <1>3, <1>4 DEF Answer, AuthTypeOK
<1> QED BY <1>1, <1>2, <1>3, <1>4

\* A revoked session stays revoked, and nobody enters with it.
LEMMA LogoutHolds ==
  ASSUME AuthTypeOK, [Next]_vars
  PROVE  LoggedOutStaysOut
<1> SUFFICES ASSUME NEW s \in Logins, authSession[s].revoked
             PROVE  /\ authSession'[s].revoked
                    /\ \A r \in Requests : request'[r].session = s /\ request'[r].at = "inside"
                                             => request[r].at = "inside"
  BY DEF LoggedOutStaysOut
<1>1. ~Authenticated(s)
  BY DEF Authenticated, Usable
<1>2. CASE UNCHANGED vars
  BY <1>2 DEF vars, authVars
<1>3. CASE Crash \/ CreateAgentSession \/ \E r \in Requests : AgentStep(r)
  <2>1. /\ UNCHANGED <<account, authSession, accessToken>>
        /\ \A r \in Requests : request'[r] = request[r] \/ request'[r] = [request[r] EXCEPT !.at = "done"]
    BY <1>3, AgentLeavesLogins
  <2>2. ASSUME NEW r \in Requests
        PROVE  request'[r].at = "inside" => request[r].at = "inside"
    <3>1. request[r] \in [op : {"NONE", "REFRESH", "LOGOUT", "PROTECTED"},
                          at : {"idle", "commit", "inside", "done"},
                          session : Logins \union {"none"}]
      BY DEF AuthTypeOK
    <3> QED BY <2>1, <3>1
  <2> QED BY <2>1, <2>2
<1>4. CASE AccountStep
  BY <1>4 DEF AccountStep, Register, SetExistingUserPassword, Login, Expire, AuthTypeOK
<1>5. ASSUME NEW r \in Requests, AuthStep(r)
      PROVE  /\ authSession'[s].revoked
             /\ \A q \in Requests : request'[q].session = s /\ request'[q].at = "inside"
                                      => request[q].at = "inside"
  <2>1. CASE RefreshCommit(r) \/ LogoutCommit(r) \/ CommitFails(r)
    <3>1. \A q \in Requests : /\ request'[q].session = request[q].session
                              /\ request'[q].at = "inside" => request[q].at = "inside"
      <4>1. request' = [request EXCEPT ![r].at = "done"]
        BY <2>1 DEF RefreshCommit, LogoutCommit, CommitFails, Answer
      <4> QED BY <4>1 DEF AuthTypeOK
    <3>2. authSession'[s].revoked
      <4>1. CASE LogoutCommit(r)
        BY <4>1 DEF LogoutCommit, AuthTypeOK
      <4>2. CASE UNCHANGED authSession
        BY <4>2
      <4> QED BY <2>1, <4>1, <4>2 DEF RefreshCommit, CommitFails
    <3> QED BY <3>1, <3>2
  <2>2. ASSUME NEW t \in Logins, RefreshRead(r, t) \/ LogoutEnter(r, t)
        PROVE  /\ authSession'[s].revoked
               /\ \A q \in Requests : request'[q].session = s /\ request'[q].at = "inside"
                                        => request[q].at = "inside"
    BY <2>2 DEF RefreshRead, LogoutEnter, Serve, AuthTypeOK
  <2>3. ASSUME NEW t \in Logins, Enter(r, t)
        PROVE  /\ authSession'[s].revoked
               /\ \A q \in Requests : request'[q].session = s /\ request'[q].at = "inside"
                                        => request[q].at = "inside"
    <3>1. t # s
      BY <1>1, <2>3 DEF Enter
    <3> QED BY <2>3, <3>1 DEF Enter, Serve, AuthTypeOK
  <2> QED BY <1>5, <2>1, <2>2, <2>3 DEF AuthStep
<1> QED BY <1>2, <1>3, <1>4, <1>5 DEF Next, AuthNext

-----------------------------------------------------------------------------
\* What the steps of a run come to.

\* All that an execution leaves alone while it runs.
Executes(r) ==
    /\ run' \in [Requests -> Run]
    /\ \A q \in Requests \ {r} : run'[q] = run[q]
    /\ agentSession' = agentSession /\ log' = log /\ overlapped' = overlapped /\ faults' = faults
    /\ run'[r].previous = run[r].previous /\ run'[r].saved = run[r].saved
    /\ run'[r].answer = run[r].answer /\ run'[r].sources = run[r].sources

\* A step of the graph adds at most one message, its own; a tool answers the
\* call the model has just made.
WritesThread(r) ==
    LET old == run[r].messages  new == run'[r].messages IN
    /\ Executes(r) /\ Writing(r)
    /\ thread' \in Seq(Messages) /\ new = thread'
    /\ run'[r].at \in {"model", "tools", "record"}
    /\ run'[r].failed = run[r].failed /\ run'[r].toLog = run[r].toLog
    /\ Len(new) >= Len(old)
    /\ \A i \in DOMAIN old : i \in DOMAIN new /\ new[i] = old[i]
    /\ \A i \in DOMAIN new \ DOMAIN old :
         /\ i > Len(old) /\ new[i].run = r
         /\ new[i].kind = "TOOL" => run[r].at = "tools" /\ new[i].call = run[r].calls
    /\ \A n \in run'[r].observed : n \in run[r].observed \/ (run[r].at = "tools" /\ n = run[r].calls)
    /\ run'[r].at = "tools" =>
         /\ run'[r].calls > 0 /\ run'[r].tried = 0
         /\ \E i \in DOMAIN new : /\ i > Len(old)
                                  /\ new[i].kind = "AI" /\ new[i].call = run'[r].calls

\* A failure: the tool is tried again, or the graph ends without a result.
FailsQuietly(r) ==
    /\ Executes(r) /\ InGraph(r)
    /\ thread' = thread /\ run'[r].messages = run[r].messages /\ run'[r].calls = run[r].calls
    /\ run'[r].toLog = run[r].toLog
    /\ \/ /\ run[r].at = "tools" /\ run'[r].at = "tools" /\ run'[r].tried < MaxAttempts
          /\ run'[r].failed = run[r].failed
       \/ run'[r].at = "record" /\ run'[r].failed
    /\ \A n \in run'[r].observed : n \in run[r].observed \/ (run[r].at = "tools" /\ n = run[r].calls)

\* One message at the end, or none.
LEMMA AppendedIs ==
  ASSUME NEW s \in Seq(Messages), NEW m \in Messages
  PROVE  LET t == s \o <<m>> IN
         /\ t \in Seq(Messages) /\ Len(t) = Len(s) + 1 /\ DOMAIN t = 1 .. Len(s) + 1
         /\ \A i \in DOMAIN s : i \in DOMAIN t /\ t[i] = s[i]
         /\ \A i \in DOMAIN t \ DOMAIN s : i = Len(s) + 1
         /\ t[Len(s) + 1] = m
  OBVIOUS

LEMMA WritesThreadIs ==
  ASSUME RunsTyped, NEW r \in Requests, RunSound(r),
         ValidateContext(r) \/ ModelCalls(r) \/ ModelAnswers(r) \/ ToolAnswers(r)
  PROVE  WritesThread(r)
<1> DEFINE old == run[r].messages
<1>1. /\ run[r] \in Run /\ old \in Seq(Messages) /\ MaxCalls \in Nat /\ MaxAttempts \in Nat
      /\ run[r].calls \in 0 .. MaxCalls /\ run[r].observed \in SUBSET (1 .. MaxCalls)
      /\ 0 \in 0 .. MaxAttempts
  BY AgentAssumption DEF RunsTyped, Run, MaxAttempts
<1>2. CASE ValidateContext(r)
  <2>1. run[r].at = "validate" /\ GraphStep(r, "model", <<>>, run[r])
    BY <1>2 DEF ValidateContext
  <2>2. <<>> \in Seq(Messages) /\ "model" \in Steps
    BY DEF Steps
  <2>3. /\ thread' = old \o <<>> /\ thread' \in Seq(Messages)
        /\ run' \in [Requests -> Run]
        /\ run'[r] = [run[r] EXCEPT !.at = "model", !.messages = thread']
        /\ \A q \in Requests \ {r} : run'[q] = run[q]
        /\ UNCHANGED <<account, authSession, accessToken, request,
                       agentSession, log, overlapped, faults>>
    BY <1>1, <2>1, <2>2, GraphStepIs
  <2>4. thread' = old
    BY <1>1, <2>3
  <2>5. /\ run'[r].at = "model" /\ run'[r].messages = old
        /\ run'[r].previous = run[r].previous /\ run'[r].saved = run[r].saved
        /\ run'[r].answer = run[r].answer /\ run'[r].sources = run[r].sources
        /\ run'[r].failed = run[r].failed /\ run'[r].toLog = run[r].toLog
        /\ run'[r].observed = run[r].observed
    BY <1>1, <2>3, <2>4 DEF Run
  <2>6. Executes(r) /\ Writing(r)
    BY <2>1, <2>3, <2>5 DEF Executes, Writing
  <2> HIDE DEF old
  <2>7. Len(old) \in Nat
    BY <1>1
  <2> QED BY <2>3, <2>4, <2>5, <2>6, <2>7 DEF WritesThread, old
<1>3. ASSUME NEW m \in Messages, m.run = r, NEW next \in {"model", "tools", "record"},
             NEW changes \in Run, GraphStep(r, next, <<m>>, changes), Writing(r),
             changes.previous = run[r].previous, changes.saved = run[r].saved,
             changes.answer = run[r].answer, changes.sources = run[r].sources,
             changes.failed = run[r].failed, changes.toLog = run[r].toLog,
             m.kind = "TOOL" => run[r].at = "tools" /\ m.call = run[r].calls,
             \A n \in changes.observed :
                n \in run[r].observed \/ (run[r].at = "tools" /\ n = run[r].calls),
             next = "tools" => /\ changes.calls > 0 /\ changes.tried = 0
                               /\ m.kind = "AI" /\ m.call = changes.calls
      PROVE  WritesThread(r)
  <2>1. next \in Steps /\ <<m>> \in Seq(Messages)
    BY DEF Steps
  <2>2. /\ thread' = old \o <<m>> /\ thread' \in Seq(Messages)
        /\ run' \in [Requests -> Run]
        /\ run'[r] = [changes EXCEPT !.at = next, !.messages = thread']
        /\ \A q \in Requests \ {r} : run'[q] = run[q]
        /\ UNCHANGED <<account, authSession, accessToken, request,
                       agentSession, log, overlapped, faults>>
    BY <1>3, <2>1, GraphStepIs
  <2>3. /\ run'[r].at = next /\ run'[r].messages = thread'
        /\ run'[r].previous = run[r].previous /\ run'[r].saved = run[r].saved
        /\ run'[r].answer = run[r].answer /\ run'[r].sources = run[r].sources
        /\ run'[r].failed = run[r].failed /\ run'[r].toLog = run[r].toLog
        /\ run'[r].observed = changes.observed /\ run'[r].calls = changes.calls
        /\ run'[r].tried = changes.tried
    BY <1>3, <2>2 DEF Run
  <2>4. /\ Len(thread') = Len(old) + 1 /\ DOMAIN thread' = 1 .. Len(old) + 1
        /\ \A i \in DOMAIN old : i \in DOMAIN thread' /\ thread'[i] = old[i]
        /\ \A i \in DOMAIN thread' \ DOMAIN old : i = Len(old) + 1
        /\ thread'[Len(old) + 1] = m /\ Len(old) \in Nat
    BY <1>1, <2>2, AppendedIs
  <2>5. Executes(r)
    BY <2>2, <2>3 DEF Executes
  <2>6. ASSUME next = "tools"
        PROVE  \E i \in DOMAIN thread' : /\ i > Len(old)
                                         /\ thread'[i].kind = "AI" /\ thread'[i].call = run'[r].calls
    BY <1>3, <2>3, <2>4, <2>6
  <2>7. \A i \in DOMAIN thread' \ DOMAIN old :
         /\ i > Len(old) /\ thread'[i].run = r
         /\ thread'[i].kind = "TOOL" => run[r].at = "tools" /\ thread'[i].call = run[r].calls
    BY <1>3, <2>4
  <2>8. /\ thread' \in Seq(Messages) /\ run'[r].messages = thread' /\ Writing(r)
        /\ run'[r].at \in {"model", "tools", "record"} /\ Len(thread') >= Len(old)
        /\ \A n \in run'[r].observed :
              n \in run[r].observed \/ (run[r].at = "tools" /\ n = run[r].calls)
        /\ run'[r].at = "tools" => run'[r].calls > 0 /\ run'[r].tried = 0
    BY <1>3, <2>2, <2>3, <2>4
  <2>9. run'[r].at = "tools" =>
          \E i \in DOMAIN thread' : /\ i > Len(old)
                                   /\ thread'[i].kind = "AI" /\ thread'[i].call = run'[r].calls
    BY <2>3, <2>6
  <2> QED BY <2>3, <2>4, <2>5, <2>7, <2>8, <2>9 DEF WritesThread
<1>4. CASE ModelCalls(r)
  <2>1. PICK text \in BOOLEAN :
          /\ run[r].at = "model" /\ run[r].calls < MaxCalls
          /\ GraphStep(r, "tools", <<Message(r, "AI", run[r].calls + 1, text)>>,
                       [run[r] EXCEPT !.calls = @ + 1, !.tried = 0])
    BY <1>4 DEF ModelCalls
  <2> DEFINE m == Message(r, "AI", run[r].calls + 1, text)
             changes == [run[r] EXCEPT !.calls = @ + 1, !.tried = 0]
  <2>2. run[r].calls + 1 \in 0 .. MaxCalls
    BY <1>1, <2>1
  <2>3. m \in Messages /\ m.run = r /\ m.kind = "AI" /\ m.call = run[r].calls + 1
    BY <2>2, MessageIs
  <2>4. /\ changes \in Run
        /\ changes.previous = run[r].previous /\ changes.saved = run[r].saved
        /\ changes.answer = run[r].answer /\ changes.sources = run[r].sources
        /\ changes.failed = run[r].failed /\ changes.toLog = run[r].toLog
        /\ changes.observed = run[r].observed
        /\ changes.calls = run[r].calls + 1 /\ changes.tried = 0
    BY <1>1, <2>2 DEF Run
  <2>5. GraphStep(r, "tools", <<m>>, changes) /\ Writing(r)
    BY <2>1 DEF Writing
  <2> HIDE DEF m, changes
  <2>6. run[r].calls + 1 > 0 /\ m.kind # "TOOL"
    BY <1>1, <2>3
  <2> QED BY <1>3, <2>3, <2>4, <2>5, <2>6
<1>5. CASE ModelAnswers(r)
  <2>1. PICK text \in BOOLEAN :
          run[r].at = "model" /\ GraphStep(r, "record", <<Message(r, "AI", 0, text)>>, run[r])
    BY <1>5 DEF ModelAnswers
  <2> DEFINE m == Message(r, "AI", 0, text)
  <2>2. m \in Messages /\ m.run = r /\ m.kind = "AI"
    BY <1>1, MessageIs
  <2>3. GraphStep(r, "record", <<m>>, run[r]) /\ Writing(r)
    BY <2>1 DEF Writing
  <2> HIDE DEF m
  <2> QED BY <1>1, <1>3, <2>2, <2>3
<1>6. CASE ToolAnswers(r)
  <2>1. PICK result \in {<<"TOOL", TRUE>>, <<"TOOL", FALSE>>, <<"ERROR", FALSE>>} :
          /\ run[r].at = "tools"
          /\ GraphStep(r, "model", <<Message(r, result[1], run[r].calls, result[2])>>,
                       [run[r] EXCEPT !.observed = @ \union {run[r].calls}])
    BY <1>6 DEF ToolAnswers
  <2> DEFINE m == Message(r, result[1], run[r].calls, result[2])
             changes == [run[r] EXCEPT !.observed = @ \union {run[r].calls}]
  <2>2. m \in Messages /\ m.run = r /\ m.call = run[r].calls
    <3>1. result[1] \in {"HUMAN", "AI", "TOOL", "ERROR"} /\ result[2] \in BOOLEAN
      <4>1. CASE result = <<"TOOL", TRUE>>
        BY <4>1
      <4>2. CASE result = <<"TOOL", FALSE>>
        BY <4>2
      <4>3. CASE result = <<"ERROR", FALSE>>
        BY <4>3
      <4> QED BY <4>1, <4>2, <4>3
    <3> QED BY <1>1, <3>1, MessageIs
  <2>3. run[r].observed \union {run[r].calls} \in SUBSET (1 .. MaxCalls)
    BY <1>1, <2>1 DEF RunSound
  <2>4. /\ changes \in Run
        /\ changes.previous = run[r].previous /\ changes.saved = run[r].saved
        /\ changes.answer = run[r].answer /\ changes.sources = run[r].sources
        /\ changes.failed = run[r].failed /\ changes.toLog = run[r].toLog
        /\ changes.observed = run[r].observed \union {run[r].calls}
    BY <1>1, <2>3 DEF Run
  <2>5. GraphStep(r, "model", <<m>>, changes) /\ Writing(r)
    BY <2>1 DEF Writing
  <2> HIDE DEF m, changes
  <2> QED BY <1>3, <2>1, <2>2, <2>4, <2>5
<1> QED BY <1>2, <1>4, <1>5, <1>6

LEMMA FailsQuietlyIs ==
  ASSUME RunsTyped, NEW r \in Requests, RunSound(r), ToolTimesOut(r) \/ GraphFails(r)
  PROVE  FailsQuietly(r)
<1>1. /\ run \in [Requests -> Run] /\ run[r] \in Run /\ MaxCalls \in Nat
      /\ run[r].calls \in 0 .. MaxCalls /\ run[r].observed \in SUBSET (1 .. MaxCalls)
      /\ run[r].tried \in Nat /\ MaxAttempts \in Nat
  BY AgentAssumption DEF RunsTyped, Run, MaxAttempts
<1>2. CASE ToolTimesOut(r)
  <2> DEFINE attempt == run[r].tried + 1
             next == IF Retried(attempt) THEN "tools" ELSE "record"
             record == [run[r] EXCEPT !.tried = attempt,
                                      !.observed = @ \union {run[r].calls},
                                      !.at = next, !.failed = ~Retried(attempt)]
  <2>1. /\ run[r].at = "tools" /\ run' = [run EXCEPT ![r] = record]
        /\ thread' = thread /\ UNCHANGED <<agentSession, log, overlapped, faults>>
    BY <1>2 DEF ToolTimesOut, Keep
  <2>2. run[r].calls > 0 /\ run[r].tried < MaxAttempts
    BY <2>1 DEF RunSound
  <2>3. attempt \in 0 .. MaxAttempts /\ run[r].observed \union {run[r].calls} \in SUBSET (1 .. MaxCalls)
    BY <1>1, <2>2
  <2>4. next \in Steps /\ (~Retried(attempt)) \in BOOLEAN
    BY DEF Steps
  <2>5. \/ next = "tools" /\ Retried(attempt)
        \/ next = "record" /\ ~Retried(attempt)
    OBVIOUS
  <2>6. Retried(attempt) => attempt < MaxAttempts
    BY DEF Retried
  <2>7. record \in Run
    BY <1>1, <2>3, <2>4 DEF Run
  <2>8. /\ record.at = next /\ record.tried = attempt /\ record.failed = (~Retried(attempt))
        /\ record.observed = run[r].observed \union {run[r].calls}
        /\ record.previous = run[r].previous /\ record.messages = run[r].messages
        /\ record.calls = run[r].calls /\ record.toLog = run[r].toLog
        /\ record.saved = run[r].saved /\ record.answer = run[r].answer
        /\ record.sources = run[r].sources
    BY <1>1 DEF Run
  <2> HIDE DEF record, next, attempt
  <2>9. run' \in [Requests -> Run] /\ run'[r] = record /\ \A q \in Requests \ {r} : run'[q] = run[q]
    BY <1>1, <2>1, <2>7
  <2>10. Executes(r)
    BY <2>1, <2>8, <2>9 DEF Executes
  <2>11. \/ /\ run[r].at = "tools" /\ run'[r].at = "tools" /\ run'[r].tried < MaxAttempts
            /\ run'[r].failed = run[r].failed
         \/ run'[r].at = "record" /\ run'[r].failed
    <3>1. CASE Retried(attempt)
      <4>1. run[r].failed = FALSE
        BY <1>1, <2>1 DEF RunSound, InGraph, Run
      <4> QED BY <2>1, <2>5, <2>6, <2>8, <2>9, <3>1, <4>1
    <3>2. CASE ~Retried(attempt)
      BY <2>5, <2>8, <2>9, <3>2
    <3> QED BY <3>1, <3>2
  <2> QED BY <2>1, <2>8, <2>9, <2>10, <2>11 DEF FailsQuietly, InGraph
<1>3. CASE GraphFails(r)
  <2> DEFINE record == [run[r] EXCEPT !.at = "record", !.failed = TRUE]
  <2>1. /\ InGraph(r) /\ run' = [run EXCEPT ![r] = record]
        /\ thread' = thread /\ UNCHANGED <<agentSession, log, overlapped, faults>>
    BY <1>1, <1>3 DEF GraphFails, Keep, InGraph
  <2>2. /\ record \in Run /\ record.at = "record" /\ record.failed
        /\ record.observed = run[r].observed
        /\ record.previous = run[r].previous /\ record.messages = run[r].messages
        /\ record.calls = run[r].calls /\ record.toLog = run[r].toLog
        /\ record.saved = run[r].saved /\ record.answer = run[r].answer
        /\ record.sources = run[r].sources
    BY <1>1 DEF Run, Steps
  <2> HIDE DEF record
  <2>3. run' \in [Requests -> Run] /\ run'[r] = record /\ \A q \in Requests \ {r} : run'[q] = run[q]
    BY <1>1, <2>1, <2>2
  <2> QED BY <2>1, <2>2, <2>3 DEF FailsQuietly, Executes
<1> QED BY <1>2, <1>3

-----------------------------------------------------------------------------
\* Each kind of step keeps the invariant.

\* Two runs that are not in the graph together, or count as overlapped.
LEMMA AloneInGraph ==
  ASSUME GraphShared, NEW s \in Requests \ overlapped, InGraph(s), NEW q \in Requests \ {s}
  PROVE  ~InGraph(q) /\ ~Writing(q)
  BY DEF GraphShared, Writing, InGraph

\* What has been answered is not affected by the execution of others.
LEMMA AnsweredStays ==
  ASSUME NEW s \in Requests, Answered(s), log \subseteq log',
         run'[s].answer = run[s].answer, run'[s].sources = run[s].sources,
         run'[s].saved => run[s].saved /\ run'[s].observed = run[s].observed
  PROVE  Answered(s)'
  BY DEF Answered, Logged

\* Nor is what a run takes for its own.
LEMMA OwnWorkStays ==
  ASSUME NEW s \in Requests, OwnWork(s), run'[s] = run[s], run[s].at = "load" => thread' = thread
  PROVE  OwnWork(s)'
<1>1. \A n : Requested(s, n)' <=> Requested(s, n)
  BY DEF Requested
<1>2. Sources(s)' = Sources(s)
  BY DEF Sources, NewMessages
<1>3. Loaded(s)' <=> Loaded(s)
  BY DEF Loaded, Writing
<1>4. \A i : Requested(s, run[s].messages[i].call)' <=> Requested(s, run[s].messages[i].call)
  BY DEF Requested
<1>5. Requested(s, run[s].calls)' <=> Requested(s, run[s].calls)
  BY DEF Requested
<1> QED BY <1>1, <1>2, <1>3, <1>4, <1>5 DEF OwnWork

LEMMA WritesThreadKeeps ==
  ASSUME RunsTyped, RunsKept, NEW r \in Requests, WritesThread(r)
  PROVE  RunsKept'
<1> DEFINE old == run[r].messages
           new == run'[r].messages
<1>1. /\ Executes(r) /\ Writing(r) /\ InGraph(r)
      /\ thread' \in Seq(Messages) /\ new = thread'
      /\ run'[r].at \in {"model", "tools", "record"}
      /\ run'[r].failed = run[r].failed /\ run'[r].toLog = run[r].toLog
      /\ Len(new) >= Len(old)
      /\ \A i \in DOMAIN old : i \in DOMAIN new /\ new[i] = old[i]
      /\ \A i \in DOMAIN new \ DOMAIN old :
           /\ i > Len(old) /\ new[i].run = r
           /\ new[i].kind = "TOOL" => run[r].at = "tools" /\ new[i].call = run[r].calls
      /\ \A n \in run'[r].observed : n \in run[r].observed \/ (run[r].at = "tools" /\ n = run[r].calls)
      /\ run'[r].at = "tools" =>
           /\ run'[r].calls > 0 /\ run'[r].tried = 0
           /\ \E i \in DOMAIN new : /\ i > Len(old)
                                    /\ new[i].kind = "AI" /\ new[i].call = run'[r].calls
  BY DEF WritesThread, Writing, InGraph
<1>2. /\ run' \in [Requests -> Run] /\ run \in [Requests -> Run]
      /\ \A q \in Requests \ {r} : run'[q] = run[q]
      /\ log' = log /\ overlapped' = overlapped
      /\ run'[r].previous = run[r].previous /\ run'[r].saved = run[r].saved
      /\ run'[r].answer = run[r].answer /\ run'[r].sources = run[r].sources
      /\ old \in Seq(Messages) /\ Len(old) \in Nat /\ run[r].previous \in Nat
  <2>1. run[r] \in Run /\ run \in [Requests -> Run]
    BY DEF RunsTyped
  <2>2. old \in Seq(Messages) /\ run[r].previous \in Nat
    BY <2>1 DEF Run
  <2> QED BY <1>1, <2>1, <2>2 DEF Executes
<1>3. ~run[r].saved /\ run[r].answer = {} /\ run[r].sources = {} /\ ~run[r].failed
  BY <1>1 DEF RunsKept, RunSound, InGraph
<1>4. GraphShared'
  BY <1>1, <1>2 DEF RunsKept, GraphShared, InGraph
<1>5. ASSUME NEW q \in Requests
      PROVE  RunSound(q)'
  <2>1. CASE q = r
    <3>1. 0 < MaxAttempts
      BY DEF MaxAttempts
    <3> QED BY <1>1, <1>2, <1>3, <2>1, <3>1 DEF RunSound, InGraph
  <2>2. CASE q # r
    BY <1>2, <2>2 DEF RunsKept, RunSound, InGraph
  <2> QED BY <2>1, <2>2
<1>6. ASSUME NEW s \in Requests \ overlapped
      PROVE  LeftToOthers(s)' /\ OwnWork(s)' /\ Answered(s)'
  <2>1. LeftToOthers(s) /\ OwnWork(s) /\ Answered(s)
    BY DEF RunsKept
  <2>2. Answered(s)'
    <3>1. CASE s = r
      BY <1>2, <1>3, <3>1 DEF Answered
    <3>2. CASE s # r
      BY <1>2, <2>1, <3>2, AnsweredStays
    <3> QED BY <3>1, <3>2
  <2>3. CASE s = r
    <3>1. \A q \in Requests \ {r} : ~InGraph(q) /\ ~Writing(q)
      BY <1>1, <2>3, AloneInGraph DEF RunsKept
    <3>2. \A q \in Requests \ {r} : ~InGraph(q)' /\ ~Writing(q)'
      BY <1>2, <3>1 DEF InGraph, Writing
    <3>3. LeftToOthers(s)'
      BY <1>2, <1>3, <2>1, <2>3, <3>2 DEF LeftToOthers, Loaded, Writing, PlacesOf
    <3>4. /\ run[r].previous < Len(old)
          /\ \A i \in DOMAIN old : i > run[r].previous =>
               /\ old[i].run = r
               /\ old[i].kind = "TOOL" => Requested(r, old[i].call)
          /\ \A n \in run[r].observed : Requested(r, n)
          /\ run[r].at = "tools" => Requested(r, run[r].calls)
      BY <1>1, <2>1, <2>3 DEF OwnWork, Loaded
    <3>5. \A n : Requested(r, n) => Requested(r, n)'
      BY <1>1, <1>2 DEF Requested
    <3>6. ASSUME run'[r].at = "tools"
          PROVE  Requested(r, run[r].calls)'
      <4>1. PICK i \in DOMAIN new : /\ i > Len(old)
                                   /\ new[i].kind = "AI" /\ new[i].call = run'[r].calls
        BY <1>1, <3>6
      <4>2. i > run'[r].previous /\ run'[r].calls > 0
        BY <1>1, <1>2, <3>4, <3>6, <4>1
      <4> QED BY <4>1, <4>2 DEF Requested
    <3>7. ASSUME NEW i \in DOMAIN new, i > run[r].previous
          PROVE  /\ new[i].run = r
                 /\ new[i].kind = "TOOL" => \A n : n = new[i].call => Requested(r, n)'
      <4>1. CASE i \in DOMAIN old
        <5>1. new[i] = old[i] /\ old[i].run = r /\ (old[i].kind = "TOOL" => Requested(r, old[i].call))
          BY <1>1, <3>4, <3>7, <4>1
        <5> QED BY <3>5, <5>1
      <4>2. CASE i \notin DOMAIN old
        BY <1>1, <3>4, <3>5, <4>2
      <4> QED BY <4>1, <4>2
    <3>8. \A n \in run'[r].observed : Requested(r, n)'
      BY <1>1, <3>4, <3>5
    <3>9. run[r].previous < Len(new)
      BY <1>1, <1>2, <3>4
    <3>10. OwnWork(s)'
      <4>1. \A i \in DOMAIN run'[r].messages : i > run'[r].previous =>
               /\ run'[r].messages[i].run = r
               /\ run'[r].messages[i].kind = "TOOL" => Requested(r, run[r].messages[i].call)'
        BY <1>2, <3>7
      <4>2. run'[r].at # "load" /\ run'[r].at # "commit"
        BY <1>1
      <4> QED BY <1>2, <2>3, <3>6, <3>8, <3>9, <4>1, <4>2 DEF OwnWork
    <3> QED BY <2>2, <3>3, <3>10
  <2>4. CASE s # r
    <3>1. ~InGraph(s) /\ ~Writing(s)
      BY <1>1, <2>4 DEF RunsKept, GraphShared, InGraph, Writing
    <3>2. OwnWork(s)'
      BY <1>2, <2>1, <2>4, <3>1, OwnWorkStays DEF InGraph
    <3>3. PlacesOf(new, s) = PlacesOf(old, s)
      BY <1>1, <2>4 DEF PlacesOf
    <3>4. PlacesOf(old, s) = PlacesOf(thread, s)
      BY <1>1, <2>1, <2>4 DEF LeftToOthers
    <3>5. PlacesOf(thread, s)' = PlacesOf(thread, s) /\ PlacesOf(run[r].messages, s)' = PlacesOf(thread, s)
      BY <1>1, <3>3, <3>4 DEF PlacesOf
    <3>6. \A p \in Requests \ {s} :
             Writing(p)' => PlacesOf(run[p].messages, s)' = PlacesOf(thread, s)'
      <4>1. ASSUME NEW p \in Requests \ {s}, Writing(p)'
            PROVE  PlacesOf(run[p].messages, s)' = PlacesOf(thread, s)'
        <5>1. CASE p = r
          BY <3>5, <5>1
        <5>2. CASE p # r
          <6>1. run'[p] = run[p] /\ Writing(p)
            BY <1>2, <4>1, <5>2 DEF Writing
          <6>2. PlacesOf(run[p].messages, s) = PlacesOf(thread, s)
            BY <2>1, <6>1 DEF LeftToOthers
          <6>3. PlacesOf(run[p].messages, s)' = PlacesOf(run[p].messages, s)
            BY <6>1 DEF PlacesOf
          <6> QED BY <3>5, <6>2, <6>3
        <5> QED BY <5>1, <5>2
      <4> QED BY <4>1
    <3>7. \A p \in Requests \ {s} : InGraph(p)' => InGraph(p) /\ run'[p].previous = run[p].previous
      BY <1>1, <1>2 DEF InGraph
    <3>8. \A p \in Requests \ {s} : InGraph(p)' => \A i \in PlacesOf(thread, s)' : i <= run'[p].previous
      BY <2>1, <3>5, <3>7 DEF LeftToOthers
    <3>9. ASSUME NEW p \in Requests \ {s}, Loaded(p)'
          PROVE  \A i \in PlacesOf(run[p].messages, s)' : i <= run'[p].previous
      <4>1. CASE p = r
        BY <1>1, <1>2, <2>1, <2>4, <3>5, <4>1 DEF LeftToOthers
      <4>2. CASE p # r
        <5>1. run'[p] = run[p] /\ Loaded(p)
          BY <1>2, <3>9, <4>2 DEF Loaded, Writing
        <5>2. PlacesOf(run[p].messages, s)' = PlacesOf(run[p].messages, s)
          BY <5>1 DEF PlacesOf
        <5> QED BY <2>1, <5>1, <5>2 DEF LeftToOthers
      <4> QED BY <4>1, <4>2
    <3>10. \A p \in Requests : run'[p].toLog = run[p].toLog
      BY <1>1, <1>2
    <3>11. run'[s] = run[s]
      BY <1>2, <2>4
    <3>12. LeftToOthers(s)'
      BY <1>2, <2>1, <3>6, <3>8, <3>9, <3>10, <3>11 DEF LeftToOthers
    <3> QED BY <2>2, <3>2, <3>12
  <2> QED BY <2>3, <2>4
<1> QED BY <1>2, <1>4, <1>5, <1>6 DEF RunsKept

\* What a run left in the thread stays as long as nobody writes the thread.
LEMMA LeftToOthersStays ==
  ASSUME NEW s \in Requests, LeftToOthers(s), thread' = thread,
         \A p \in Requests \ {s} :
            /\ InGraph(p)' => InGraph(p) /\ run'[p].previous = run[p].previous
            /\ Writing(p)' => Writing(p) /\ run'[p].messages = run[p].messages
            /\ Loaded(p)' => /\ Loaded(p) /\ run'[p].previous = run[p].previous
                             /\ run'[p].messages = run[p].messages
            /\ \A entry \in run'[p].toLog : entry.call[1] # s,
         \A entry \in log' : entry.call[1] = s => run'[s].saved
  PROVE  LeftToOthers(s)'
<1>1. PlacesOf(thread, s)' = PlacesOf(thread, s)
  BY DEF PlacesOf
<1>2. ASSUME NEW p \in Requests, run'[p].messages = run[p].messages
      PROVE  PlacesOf(run[p].messages, s)' = PlacesOf(run[p].messages, s)
  BY <1>2 DEF PlacesOf
<1>3. \A p \in Requests \ {s} : Writing(p)' => PlacesOf(run[p].messages, s)' = PlacesOf(thread, s)'
  BY <1>1, <1>2 DEF LeftToOthers
<1>4. \A p \in Requests \ {s} :
        InGraph(p)' => \A i \in PlacesOf(thread, s)' : i <= run'[p].previous
  BY <1>1 DEF LeftToOthers
<1>5. \A p \in Requests \ {s} :
        Loaded(p)' => \A i \in PlacesOf(run[p].messages, s)' : i <= run'[p].previous
  BY <1>2 DEF LeftToOthers
<1> QED BY <1>3, <1>4, <1>5 DEF LeftToOthers

LEMMA FailsQuietlyKeeps ==
  ASSUME RunsTyped, RunsKept, NEW r \in Requests, FailsQuietly(r)
  PROVE  RunsKept'
<1>1. /\ Executes(r) /\ InGraph(r)
      /\ thread' = thread /\ run'[r].messages = run[r].messages /\ run'[r].calls = run[r].calls
      /\ run'[r].toLog = run[r].toLog
      /\ \/ /\ run[r].at = "tools" /\ run'[r].at = "tools" /\ run'[r].tried < MaxAttempts
            /\ run'[r].failed = run[r].failed
         \/ run'[r].at = "record" /\ run'[r].failed
      /\ \A n \in run'[r].observed : n \in run[r].observed \/ (run[r].at = "tools" /\ n = run[r].calls)
  BY DEF FailsQuietly
<1>2. /\ run' \in [Requests -> Run] /\ run \in [Requests -> Run]
      /\ \A q \in Requests \ {r} : run'[q] = run[q]
      /\ log' = log /\ overlapped' = overlapped
      /\ run'[r].previous = run[r].previous /\ run'[r].saved = run[r].saved
      /\ run'[r].answer = run[r].answer /\ run'[r].sources = run[r].sources
  BY <1>1 DEF Executes, RunsTyped
<1>3. /\ ~run[r].saved /\ run[r].answer = {} /\ run[r].sources = {} /\ ~run[r].failed
      /\ run[r].at = "tools" => run[r].calls > 0
  BY <1>1 DEF RunsKept, RunSound, InGraph
<1>4. GraphShared'
  BY <1>1, <1>2 DEF RunsKept, GraphShared, InGraph
<1>5. ASSUME NEW q \in Requests
      PROVE  RunSound(q)'
  <2>1. CASE q = r
    BY <1>1, <1>2, <1>3, <2>1 DEF RunSound, InGraph
  <2>2. CASE q # r
    BY <1>2, <2>2 DEF RunsKept, RunSound, InGraph
  <2> QED BY <2>1, <2>2
<1>6. ASSUME NEW s \in Requests \ overlapped
      PROVE  LeftToOthers(s)' /\ OwnWork(s)' /\ Answered(s)'
  <2>1. LeftToOthers(s) /\ OwnWork(s) /\ Answered(s)
    BY DEF RunsKept
  <2>2. Answered(s)'
    <3>1. CASE s = r
      BY <1>2, <1>3, <3>1 DEF Answered
    <3>2. CASE s # r
      BY <1>2, <2>1, <3>2, AnsweredStays
    <3> QED BY <3>1, <3>2
  <2>3. ASSUME NEW p \in Requests \ {s}
        PROVE  /\ InGraph(p)' => InGraph(p) /\ run'[p].previous = run[p].previous
               /\ Writing(p)' => Writing(p) /\ run'[p].messages = run[p].messages
               /\ Loaded(p)' => /\ Loaded(p) /\ run'[p].previous = run[p].previous
                                /\ run'[p].messages = run[p].messages
               /\ \A entry \in run'[p].toLog : entry.call[1] # s
    <3>1. CASE p = r
      BY <1>1, <1>2, <2>1, <3>1 DEF InGraph, Writing, Loaded, LeftToOthers
    <3>2. CASE p # r
      BY <1>2, <2>1, <3>2 DEF InGraph, Writing, Loaded, LeftToOthers
    <3> QED BY <3>1, <3>2
  <2>4. \A entry \in log' : entry.call[1] = s => run'[s].saved
    BY <1>2, <2>1 DEF LeftToOthers
  <2>5. LeftToOthers(s)'
    BY <1>1, <2>1, <2>3, <2>4, LeftToOthersStays
  <2>6. OwnWork(s)'
    <3>1. CASE s # r
      BY <1>1, <1>2, <2>1, <3>1, OwnWorkStays
    <3>2. CASE s = r /\ run'[r].at = "tools"
      <4>1. \A n : Requested(r, n)' <=> Requested(r, n)
        BY <1>1, <1>2 DEF Requested
      <4>2. Loaded(r) /\ run[r].at = "tools"
        BY <1>1, <3>2 DEF Loaded, Writing
      <4>3. \A i : Requested(r, run[r].messages[i].call)' <=> Requested(r, run[r].messages[i].call)
        BY <1>1, <1>2 DEF Requested
      <4>4. Requested(r, run[r].calls)' <=> Requested(r, run[r].calls)
        BY <1>1, <1>2 DEF Requested
      <4>5. \A n \in run'[r].observed : Requested(r, n)'
        BY <1>1, <2>1, <3>2, <4>1, <4>2 DEF OwnWork
      <4> QED BY <1>1, <1>2, <2>1, <3>2, <4>2, <4>3, <4>4, <4>5 DEF OwnWork
    <3>3. CASE s = r /\ run'[r].at = "record" /\ run'[r].failed
      <4>1. ~Loaded(r)'
        BY <3>3 DEF Loaded, Writing
      <4> QED BY <3>3, <4>1 DEF OwnWork
    <3> QED BY <1>1, <3>1, <3>2, <3>3
  <2> QED BY <2>2, <2>5, <2>6
<1> QED BY <1>2, <1>4, <1>5, <1>6 DEF RunsKept

\* A new execution takes for new what comes after the thread as it is.
LEMMA ReadPreviousKeeps ==
  ASSUME RunsTyped, RunsKept, NEW r \in Requests, ReadPrevious(r)
  PROVE  RunsKept'
<1> DEFINE others == {q \in Requests : InGraph(q)}
<1>1. /\ run[r] = NoRun /\ run' = [run EXCEPT ![r].at = "load", ![r].previous = Len(thread)]
      /\ overlapped' = overlapped \union others \union (IF others = {} THEN {} ELSE {r})
      /\ thread' = thread /\ log' = log
      /\ run \in [Requests -> Run] /\ thread \in Seq(Messages)
  BY DEF ReadPrevious, RunsTyped
<1>2. /\ \A q \in Requests \ {r} : run'[q] = run[q]
      /\ run'[r].at = "load" /\ run'[r].previous = Len(thread) /\ run'[r].messages = <<>>
      /\ ~run'[r].failed /\ ~run'[r].saved /\ run'[r].toLog = {} /\ run'[r].observed = {}
      /\ run'[r].answer = {} /\ run'[r].sources = {}
  BY <1>1 DEF NoRun, NoAnswer
<1>3. /\ run[r].at = "idle" /\ ~run[r].saved /\ ~InGraph(r)
  BY <1>1 DEF NoRun, InGraph
<1>4. GraphShared'
  <2> SUFFICES ASSUME NEW p \in Requests, NEW q \in Requests, p # q, InGraph(p)', InGraph(q)'
               PROVE  p \in overlapped'
    BY DEF GraphShared
  <2>1. CASE p = r
    <3>1. q \in others
      BY <1>2, <2>1 DEF InGraph
    <3> QED BY <1>1, <2>1, <3>1
  <2>2. CASE p # r
    <3>1. p \in others
      BY <1>2, <2>2 DEF InGraph
    <3> QED BY <1>1, <3>1
  <2> QED BY <2>1, <2>2
<1>5. ASSUME NEW q \in Requests
      PROVE  RunSound(q)'
  <2>1. CASE q = r
    BY <1>2, <2>1 DEF RunSound
  <2>2. CASE q # r
    BY <1>2, <2>2 DEF RunsKept, RunSound, InGraph
  <2> QED BY <2>1, <2>2
<1>6. ASSUME NEW s \in Requests \ overlapped'
      PROVE  LeftToOthers(s)' /\ OwnWork(s)' /\ Answered(s)'
  <2>1. LeftToOthers(s) /\ OwnWork(s) /\ Answered(s)
    BY <1>1 DEF RunsKept
  <2>2. Answered(s)'
    <3>1. CASE s = r
      BY <1>2, <3>1 DEF Answered
    <3>2. CASE s # r
      BY <1>1, <1>2, <2>1, <3>2, AnsweredStays
    <3> QED BY <3>1, <3>2
  <2>3. OwnWork(s)'
    <3>1. CASE s # r
      BY <1>1, <1>2, <2>1, <3>1, OwnWorkStays
    <3>2. CASE s = r
      BY <1>1, <1>2, <3>2 DEF OwnWork, Loaded, Writing
    <3> QED BY <3>1, <3>2
  <2>4. LeftToOthers(s)'
    <3>1. PlacesOf(thread, s)' = PlacesOf(thread, s)
      BY <1>1 DEF PlacesOf
    <3>2. \A p \in Requests \ {s} : Writing(p)' =>
            PlacesOf(run[p].messages, s)' = PlacesOf(thread, s)'
      BY <1>2, <2>1, <3>1 DEF LeftToOthers, Writing, PlacesOf
    <3>3. \A p \in Requests \ {s} : InGraph(p)' =>
            \A i \in PlacesOf(thread, s)' : i <= run'[p].previous
      <4>1. \A i \in PlacesOf(thread, s) : i <= Len(thread)
        BY <1>1 DEF PlacesOf
      <4> QED BY <1>2, <2>1, <3>1, <4>1 DEF LeftToOthers, InGraph
    <3>4. \A p \in Requests \ {s} : Loaded(p)' =>
            \A i \in PlacesOf(run[p].messages, s)' : i <= run'[p].previous
      BY <1>2, <2>1 DEF LeftToOthers, Loaded, Writing, PlacesOf
    <3>5. \A p \in Requests \ {s} : \A entry \in run'[p].toLog : entry.call[1] # s
      BY <1>2, <2>1 DEF LeftToOthers
    <3>6. \A entry \in log' : entry.call[1] = s => run'[s].saved
      BY <1>1, <1>2, <1>3, <2>1 DEF LeftToOthers
    <3> QED BY <3>2, <3>3, <3>4, <3>5, <3>6 DEF LeftToOthers
  <2> QED BY <2>2, <2>3, <2>4
<1> QED BY <1>4, <1>5, <1>6 DEF RunsKept

\* The thread is loaded as it was read, if no other run is in the graph.
LEMMA LoadThreadKeeps ==
  ASSUME RunsTyped, RunsKept, NEW r \in Requests, LoadThread(r)
  PROVE  RunsKept'
<1> DEFINE m == Message(r, "HUMAN", 0, TRUE)
           new == thread \o <<m>>
<1>1. /\ run \in [Requests -> Run] /\ thread \in Seq(Messages) /\ m \in Messages
      /\ m.run = r /\ m.kind = "HUMAN"
  <2>1. 0 \in 0 .. MaxCalls /\ TRUE \in BOOLEAN /\ "HUMAN" \in {"HUMAN", "AI", "TOOL", "ERROR"}
    BY AgentAssumption
  <2>2. m \in Messages /\ m.run = r /\ m.kind = "HUMAN"
    BY <2>1 DEF Message, Messages
  <2> QED BY <2>2 DEF RunsTyped
<1>2. /\ run[r].at = "load" /\ InGraph(r)
      /\ run' = [run EXCEPT ![r].at = "validate", ![r].messages = Append(thread, m)]
      /\ thread' = thread /\ log' = log /\ overlapped' = overlapped
  BY DEF LoadThread, Keep, InGraph
<1>3. Append(thread, m) = new
  <2> HIDE DEF m
  <2> QED BY <1>1
<1>4. /\ new \in Seq(Messages) /\ Len(new) = Len(thread) + 1 /\ DOMAIN new = 1 .. Len(thread) + 1
      /\ \A i \in DOMAIN thread : i \in DOMAIN new /\ new[i] = thread[i]
      /\ \A i \in DOMAIN new \ DOMAIN thread : i = Len(thread) + 1
      /\ new[Len(thread) + 1] = m
  BY <1>1, AppendedIs
<1>5. Len(thread) \in Nat /\ DOMAIN thread = 1 .. Len(thread)
  BY <1>1
<1> HIDE DEF m, new
<1>6. /\ \A q \in Requests \ {r} : run'[q] = run[q]
      /\ run'[r].at = "validate" /\ run'[r].messages = new
      /\ run'[r].previous = run[r].previous /\ run'[r].saved = run[r].saved
      /\ run'[r].answer = run[r].answer /\ run'[r].sources = run[r].sources
      /\ run'[r].failed = run[r].failed /\ run'[r].toLog = run[r].toLog
      /\ run'[r].observed = run[r].observed
  BY <1>1, <1>2, <1>3 DEF Run
<1>7. ~run[r].saved /\ run[r].answer = {} /\ run[r].sources = {} /\ ~run[r].failed
  BY <1>2 DEF RunsKept, RunSound, InGraph
<1>8. GraphShared'
  BY <1>2, <1>6 DEF RunsKept, GraphShared, InGraph
<1>9. ASSUME NEW q \in Requests
      PROVE  RunSound(q)'
  <2>1. CASE q = r
    BY <1>6, <1>7, <2>1 DEF RunSound, InGraph
  <2>2. CASE q # r
    BY <1>6, <2>2 DEF RunsKept, RunSound, InGraph
  <2> QED BY <2>1, <2>2
<1>10. ASSUME NEW s \in Requests \ overlapped
       PROVE  LeftToOthers(s)' /\ OwnWork(s)' /\ Answered(s)'
  <2>1. LeftToOthers(s) /\ OwnWork(s) /\ Answered(s)
    BY DEF RunsKept
  <2>2. Answered(s)'
    <3>1. CASE s = r
      BY <1>6, <1>7, <3>1 DEF Answered
    <3>2. CASE s # r
      BY <1>2, <1>6, <2>1, <3>2, AnsweredStays
    <3> QED BY <3>1, <3>2
  <2>3. OwnWork(s)'
    <3>1. CASE s # r
      BY <1>2, <1>6, <2>1, <3>1, OwnWorkStays
    <3>2. CASE s = r
      <4>1. run[r].previous = Len(thread) /\ run[r].observed = {}
        BY <1>2, <2>1, <3>2 DEF OwnWork
      <4>2. \A i \in DOMAIN new : i > Len(thread) => i = Len(thread) + 1
        BY <1>4, <1>5
      <4>3. \A i \in DOMAIN new : i > Len(thread) => new[i].run = r /\ new[i].kind # "TOOL"
        BY <1>1, <1>4, <4>2
      <4>4. Len(thread) < Len(new)
        BY <1>4, <1>5
      <4>5. \A i \in DOMAIN run'[r].messages : i > run'[r].previous =>
               /\ run'[r].messages[i].run = r
               /\ run'[r].messages[i].kind = "TOOL" => Requested(r, run[r].messages[i].call)'
        BY <1>6, <4>1, <4>3
      <4> QED BY <1>6, <3>2, <4>1, <4>4, <4>5 DEF OwnWork
    <3> QED BY <3>1, <3>2
  <2>4. LeftToOthers(s)'
    <3>1. PlacesOf(thread, s)' = PlacesOf(thread, s)
      BY <1>2 DEF PlacesOf
    <3>2. ASSUME s # r
          PROVE  PlacesOf(run[r].messages, s)' = PlacesOf(thread, s)
      <4>1. \A i \in DOMAIN new : new[i].run = s => i \in DOMAIN thread
        BY <1>1, <1>4, <3>2
      <4>2. PlacesOf(new, s) = PlacesOf(thread, s)
        BY <1>4, <4>1 DEF PlacesOf
      <4>3. PlacesOf(run[r].messages, s)' = PlacesOf(new, s)
        BY <1>6 DEF PlacesOf
      <4> QED BY <4>2, <4>3
    <3>3. ASSUME NEW p \in Requests \ {s}, p # r
          PROVE  /\ InGraph(p)' => InGraph(p) /\ run'[p].previous = run[p].previous
                 /\ Writing(p)' => Writing(p) /\ run'[p].messages = run[p].messages
                 /\ Loaded(p)' => Loaded(p)
                 /\ PlacesOf(run[p].messages, s)' = PlacesOf(run[p].messages, s)
      BY <1>6, <3>3 DEF InGraph, Writing, Loaded, PlacesOf
    <3>4. ASSUME NEW p \in Requests \ {s}, Writing(p)'
          PROVE  PlacesOf(run[p].messages, s)' = PlacesOf(thread, s)'
      <4>1. CASE p = r
        BY <3>1, <3>2, <4>1
      <4>2. CASE p # r
        BY <2>1, <3>1, <3>3, <3>4, <4>2 DEF LeftToOthers
      <4> QED BY <4>1, <4>2
    <3>5. \A p \in Requests \ {s} : InGraph(p)' => InGraph(p) /\ run'[p].previous = run[p].previous
      BY <1>2, <1>6, <3>3
    <3>6. \A p \in Requests \ {s} :
             InGraph(p)' => \A i \in PlacesOf(thread, s)' : i <= run'[p].previous
      BY <2>1, <3>1, <3>5 DEF LeftToOthers
    <3>7. ASSUME NEW p \in Requests \ {s}, Loaded(p)'
          PROVE  \A i \in PlacesOf(run[p].messages, s)' : i <= run'[p].previous
      <4>1. CASE p = r
        BY <1>2, <1>6, <2>1, <3>2, <4>1 DEF LeftToOthers
      <4>2. CASE p # r
        BY <1>6, <2>1, <3>3, <3>7, <4>2 DEF LeftToOthers
      <4> QED BY <4>1, <4>2
    <3>8. \A p \in Requests : run'[p].toLog = run[p].toLog /\ run'[p].saved = run[p].saved
      BY <1>6
    <3> QED BY <1>2, <2>1, <3>4, <3>6, <3>7, <3>8 DEF LeftToOthers
  <2> QED BY <2>2, <2>3, <2>4
<1> QED BY <1>2, <1>8, <1>9, <1>10 DEF RunsKept

\* The calls to log are those of the model's new messages that the log does not
\* have, COMPLETED where a tool answered.
LEMMA NewToolCallsAre ==
  ASSUME RunsTyped, NEW r \in Requests
  PROVE  LET s == run[r].messages
             asked(i) == /\ i \in DOMAIN s /\ i > run[r].previous
                         /\ s[i].kind = "AI" /\ s[i].call > 0 /\ ~Logged(CallOf(s[i]))
         IN /\ \A entry \in NewToolCalls(r) :
                 \E i \in DOMAIN s : i > run[r].previous /\ entry.call = CallOf(s[i])
            /\ \A i : asked(i) => \E entry \in NewToolCalls(r) : entry.call = CallOf(s[i])
            /\ \A i : asked(i) => \A j \in DOMAIN s :
                 j > run[r].previous /\ s[j].kind = "TOOL" /\ CallOf(s[j]) = CallOf(s[i])
                   => CallLog(CallOf(s[i]), "COMPLETED") \in NewToolCalls(r)
<1> DEFINE s == run[r].messages
           new == ToSet(NewMessages(r))
           Status(m) == IF \E t \in new : t.kind = "TOOL" /\ CallOf(t) = CallOf(m)
                        THEN "COMPLETED" ELSE "FAILED"
           asking == {m \in new : m.kind = "AI" /\ m.call > 0 /\ ~Logged(CallOf(m))}
           asked(i) == /\ i \in DOMAIN s /\ i > run[r].previous
                       /\ s[i].kind = "AI" /\ s[i].call > 0 /\ ~Logged(CallOf(s[i]))
<1>1. /\ run[r].messages \in Seq(Messages) /\ run[r].previous \in Nat
  BY DEF RunsTyped, Run
<1>2. \A m : m \in new <=> \E i \in DOMAIN s : i > run[r].previous /\ s[i] = m
  BY <1>1, NewMessagesAre
<1>3. NewToolCalls(r) = {CallLog(CallOf(m), Status(m)) : m \in asking}
  BY DEF NewToolCalls
<1> HIDE DEF new
<1>4. \A m : CallLog(CallOf(m), Status(m)).call = CallOf(m)
  BY DEF CallLog
<1>5. \A i : asked(i) => s[i] \in asking
  BY <1>2
<1>6. \A i : asked(i) => \A j \in DOMAIN s :
        j > run[r].previous /\ s[j].kind = "TOOL" /\ CallOf(s[j]) = CallOf(s[i])
           => Status(s[i]) = "COMPLETED"
  BY <1>2
<1> HIDE DEF Status, s
<1>7. \A entry \in NewToolCalls(r) :
        \E i \in DOMAIN s : i > run[r].previous /\ entry.call = CallOf(s[i])
  <2> SUFFICES ASSUME NEW m \in asking
               PROVE  \E i \in DOMAIN s : i > run[r].previous
                                            /\ CallLog(CallOf(m), Status(m)).call = CallOf(s[i])
    BY <1>3
  <2>1. PICK i \in DOMAIN s : i > run[r].previous /\ s[i] = m
    BY <1>2
  <2> QED BY <1>4, <2>1
<1> HIDE DEF asking
<1>8. ASSUME NEW i, asked(i)
      PROVE  CallLog(CallOf(s[i]), Status(s[i])) \in NewToolCalls(r)
  BY <1>3, <1>5, <1>8
<1>9. \A i : asked(i) => \E entry \in NewToolCalls(r) : entry.call = CallOf(s[i])
  BY <1>4, <1>8
<1>10. \A i : asked(i) => \A j \in DOMAIN s :
         j > run[r].previous /\ s[j].kind = "TOOL" /\ CallOf(s[j]) = CallOf(s[i])
           => CallLog(CallOf(s[i]), "COMPLETED") \in NewToolCalls(r)
  BY <1>6, <1>8
<1> QED BY <1>7, <1>9, <1>10 DEF s

\* The calls of an ended execution are what it does with the log.
LEMMA RecordKeeps ==
  ASSUME RunsTyped, RunsKept, NEW r \in Requests, RecordToolCalls(r)
  PROVE  RunsKept'
<1> DEFINE new == IF run[r].failed THEN FailedToolCalls(r) ELSE NewToolCalls(r)
           s == run[r].messages
<1>1. /\ run \in [Requests -> Run] /\ run[r].at = "record"
      /\ run' = [run EXCEPT ![r].at = "commit", ![r].toLog = new]
      /\ thread' = thread /\ log' = log /\ overlapped' = overlapped
  BY DEF RunsTyped, RecordToolCalls, Keep
<1> HIDE DEF new
<1>2. /\ \A q \in Requests \ {r} : run'[q] = run[q]
      /\ run'[r].at = "commit" /\ run'[r].toLog = new /\ run'[r].messages = run[r].messages
      /\ run'[r].previous = run[r].previous /\ run'[r].saved = run[r].saved
      /\ run'[r].answer = run[r].answer /\ run'[r].sources = run[r].sources
      /\ run'[r].failed = run[r].failed /\ run'[r].observed = run[r].observed
  BY <1>1 DEF Run
<1>3. ~run[r].saved /\ run[r].answer = {} /\ run[r].sources = {}
  BY <1>1 DEF RunsKept, RunSound
<1>4. GraphShared'
  BY <1>1, <1>2 DEF RunsKept, GraphShared, InGraph
<1>5. ASSUME NEW q \in Requests
      PROVE  RunSound(q)'
  <2>1. CASE q = r
    BY <1>2, <1>3, <2>1 DEF RunSound, InGraph
  <2>2. CASE q # r
    BY <1>2, <2>2 DEF RunsKept, RunSound, InGraph
  <2> QED BY <2>1, <2>2
<1>6. Loaded(r) <=> ~run[r].failed
  BY <1>1 DEF Loaded, Writing
<1>7. /\ \A entry \in NewToolCalls(r) :
           \E i \in DOMAIN s : i > run[r].previous /\ entry.call = CallOf(s[i])
      /\ \A i \in DOMAIN s :
           i > run[r].previous /\ s[i].kind = "AI" /\ s[i].call > 0 /\ ~Logged(CallOf(s[i]))
             => \E entry \in NewToolCalls(r) : entry.call = CallOf(s[i])
      /\ \A i \in DOMAIN s :
           i > run[r].previous /\ s[i].kind = "AI" /\ s[i].call > 0 /\ ~Logged(CallOf(s[i]))
             => \A j \in DOMAIN s :
                  j > run[r].previous /\ s[j].kind = "TOOL" /\ CallOf(s[j]) = CallOf(s[i])
                    => CallLog(CallOf(s[i]), "COMPLETED") \in NewToolCalls(r)
  BY NewToolCallsAre
<1>8. ASSUME NEW q \in Requests \ overlapped
      PROVE  LeftToOthers(q)' /\ OwnWork(q)' /\ Answered(q)'
  <2>1. LeftToOthers(q) /\ OwnWork(q) /\ Answered(q)
    BY DEF RunsKept
  <2>2. Answered(q)'
    <3>1. CASE q = r
      BY <1>2, <1>3, <3>1 DEF Answered
    <3>2. CASE q # r
      BY <1>1, <1>2, <2>1, <3>2, AnsweredStays
    <3> QED BY <3>1, <3>2
  <2>3. ASSUME q # r
        PROVE  \A entry \in new : entry.call[1] # q
    <3>1. CASE run[r].failed
      <4>1. \A n : CallLog(<<r, n>>, "FAILED").call[1] = r
        BY DEF CallLog
      <4>2. \A entry \in FailedToolCalls(r) : entry.call[1] = r
        BY <4>1 DEF FailedToolCalls
      <4> QED BY <2>3, <3>1, <4>2 DEF new
    <3>2. CASE ~run[r].failed
      <4>1. \A i \in DOMAIN s : s[i].run = q => i <= run[r].previous
        BY <1>6, <2>1, <2>3, <3>2 DEF LeftToOthers, PlacesOf
      <4>2. \A i \in DOMAIN s : i > run[r].previous => s[i].run # q
        <5>1. run[r].previous \in Nat /\ s \in Seq(Messages)
          BY <1>1 DEF Run
        <5> QED BY <4>1, <5>1
      <4> QED BY <1>7, <3>2, <4>2 DEF new, CallOf
    <3> QED BY <3>1, <3>2
  <2>4. LeftToOthers(q)'
    <3>1. ASSUME NEW p \in Requests \ {q}
          PROVE  /\ InGraph(p)' => InGraph(p) /\ run'[p].previous = run[p].previous
                 /\ Writing(p)' => Writing(p) /\ run'[p].messages = run[p].messages
                 /\ Loaded(p)' => /\ Loaded(p) /\ run'[p].previous = run[p].previous
                                  /\ run'[p].messages = run[p].messages
                 /\ \A entry \in run'[p].toLog : entry.call[1] # q
      <4>1. CASE p = r
        BY <1>2, <1>6, <2>3, <4>1 DEF InGraph, Writing, Loaded
      <4>2. CASE p # r
        BY <1>2, <2>1, <4>2 DEF InGraph, Writing, Loaded, LeftToOthers
      <4> QED BY <4>1, <4>2
    <3>2. \A entry \in log' : entry.call[1] = q => run'[q].saved
      BY <1>1, <1>2, <2>1 DEF LeftToOthers
    <3> QED BY <1>1, <2>1, <3>1, <3>2, LeftToOthersStays
  <2>5. OwnWork(q)'
    <3>1. CASE q # r
      BY <1>1, <1>2, <2>1, <3>1, OwnWorkStays
    <3>2. CASE q = r
      <4>1. \A n : Requested(r, n)' <=> Requested(r, n)
        BY <1>2 DEF Requested
      <4>2. \A n : ~Logged(<<r, n>>)
        BY <1>3, <2>1, <3>2 DEF LeftToOthers, Logged
      <4>3. Loaded(r)' <=> Loaded(r)
        BY <1>1, <1>2 DEF Loaded, Writing
      <4>4. Loaded(r) =>
              /\ run[r].previous < Len(s)
              /\ \A i \in DOMAIN s : i > run[r].previous =>
                   /\ s[i].run = r
                   /\ s[i].kind = "TOOL" => Requested(r, s[i].call)
              /\ \A n \in run[r].observed : Requested(r, n)
        BY <2>1, <3>2 DEF OwnWork
      <4>5. Loaded(r)' =>
              /\ run'[r].previous < Len(run'[r].messages)
              /\ \A i \in DOMAIN run'[r].messages : i > run'[r].previous =>
                   /\ run'[r].messages[i].run = r
                   /\ run'[r].messages[i].kind = "TOOL" => Requested(r, run[r].messages[i].call)'
              /\ \A n \in run'[r].observed : Requested(r, n)'
        <5>1. \A i : Requested(r, run[r].messages[i].call)' <=> Requested(r, run[r].messages[i].call)
          BY <1>2 DEF Requested
        <5> QED BY <1>2, <4>1, <4>3, <4>4, <5>1
      <4>6. ASSUME Loaded(r), NEW n, Requested(r, n)
            PROVE  \E i \in DOMAIN s : /\ i > run[r].previous /\ s[i].kind = "AI" /\ s[i].call > 0
                                       /\ ~Logged(CallOf(s[i])) /\ CallOf(s[i]) = <<r, n>>
        <5>1. PICK i \in DOMAIN s : i > run[r].previous /\ s[i].kind = "AI" /\ s[i].call = n /\ n > 0
          BY <4>6 DEF Requested
        <5>2. CallOf(s[i]) = <<r, n>>
          BY <4>4, <4>6, <5>1 DEF CallOf
        <5>3. ~Logged(CallOf(s[i]))
          BY <4>2, <5>2
        <5> QED BY <5>1, <5>2, <5>3
      <4>7. ASSUME NEW n \in run[r].observed
            PROVE  \E entry \in new : entry.call = <<r, n>>
        <5>1. CASE run[r].failed
          <6>1. CallLog(<<r, n>>, "FAILED") \in FailedToolCalls(r)
            BY <4>2, <4>7 DEF FailedToolCalls
          <6> QED BY <5>1, <6>1 DEF new, CallLog
        <5>2. CASE ~run[r].failed
          <6>1. PICK i \in DOMAIN s : /\ i > run[r].previous /\ s[i].kind = "AI" /\ s[i].call > 0
                                     /\ ~Logged(CallOf(s[i])) /\ CallOf(s[i]) = <<r, n>>
            BY <1>6, <4>4, <4>6, <5>2
          <6>2. \E entry \in NewToolCalls(r) : entry.call = <<r, n>>
            BY <1>7, <6>1
          <6> QED BY <5>2, <6>2 DEF new
        <5> QED BY <5>1, <5>2
      <4>8. ASSUME ~run[r].failed, NEW call \in Sources(r)
            PROVE  CallLog(call, "COMPLETED") \in new
        <5>1. run[r].messages \in Seq(Messages) /\ run[r].previous \in Nat
          BY <1>1 DEF Run
        <5>2. PICK t \in ToSet(NewMessages(r)) : t.kind = "TOOL" /\ CallOf(t) = call
          BY <4>8 DEF Sources
        <5>3. PICK j \in DOMAIN s : j > run[r].previous /\ s[j] = t
          BY <5>1, <5>2, NewMessagesAre
        <5>4. s[j].run = r /\ Requested(r, s[j].call)
          BY <1>6, <4>4, <4>8, <5>2, <5>3
        <5>5. CallOf(s[j]) = <<r, s[j].call>> /\ CallOf(s[j]) = call
          BY <5>2, <5>3, <5>4 DEF CallOf
        <5>6. PICK i \in DOMAIN s : /\ i > run[r].previous /\ s[i].kind = "AI" /\ s[i].call > 0
                                   /\ ~Logged(CallOf(s[i])) /\ CallOf(s[i]) = <<r, s[j].call>>
          BY <1>6, <4>6, <4>8, <5>4
        <5>7. CallLog(CallOf(s[i]), "COMPLETED") \in NewToolCalls(r)
          BY <1>7, <5>2, <5>3, <5>5, <5>6
        <5>8. NewToolCalls(r) = new
          BY <4>8 DEF new
        <5> QED BY <5>5, <5>6, <5>7, <5>8
      <4>9. Sources(r)' = Sources(r)
        BY <1>2 DEF Sources, NewMessages
      <4> QED BY <1>2, <3>2, <4>5, <4>7, <4>8, <4>9 DEF OwnWork
    <3> QED BY <3>1, <3>2
  <2> QED BY <2>2, <2>4, <2>5
<1> QED BY <1>1, <1>4, <1>5, <1>8 DEF RunsKept

\* The end of a run: its place in the state holds only the answer.
LEMMA EndsIs ==
  ASSUME RunsTyped, NEW r \in Requests, NEW saved \in BOOLEAN, NEW answer \in SUBSET Requests,
         NEW sources \in SUBSET (Requests \X (0 .. MaxCalls)), Ends(r, saved, answer, sources)
  PROVE  /\ run' \in [Requests -> Run]
         /\ \A q \in Requests \ {r} : run'[q] = run[q]
         /\ run'[r].at = "done" /\ run'[r].observed = run[r].observed /\ run'[r].toLog = {}
         /\ run'[r].saved = saved /\ run'[r].answer = answer /\ run'[r].sources = sources
<1> DEFINE record == [NoRun EXCEPT !.at = "done", !.observed = run[r].observed,
                                   !.saved = saved, !.answer = answer, !.sources = sources]
<1>1. NoRun \in Run /\ run[r].observed \in SUBSET (1 .. MaxCalls) /\ run \in [Requests -> Run]
  BY NoRunIsRun DEF RunsTyped, Run
<1>2. run' = [run EXCEPT ![r] = record]
  BY DEF Ends
<1>3. /\ record \in Run /\ record.at = "done" /\ record.observed = run[r].observed /\ record.toLog = {}
      /\ record.saved = saved /\ record.answer = answer /\ record.sources = sources
  BY <1>1 DEF Run, Steps, NoRun
<1> HIDE DEF record
<1> QED BY <1>1, <1>2, <1>3

\* The answer and the sources of a run are taken from its new messages.
LEMMA ResultTyped ==
  ASSUME RunsTyped, NEW r \in Requests
  PROVE  /\ LastAnswer(r) \in SUBSET Requests
         /\ Sources(r) \in SUBSET (Requests \X (0 .. MaxCalls))
         /\ \A q \in LastAnswer(r) :
              \E i \in DOMAIN run[r].messages : i > run[r].previous /\ run[r].messages[i].run = q
         /\ \A call \in Sources(r) :
              \E i \in DOMAIN run[r].messages :
                 i > run[r].previous /\ run[r].messages[i].run = call[1]
<1> DEFINE s == run[r].messages
           new == NewMessages(r)
<1>1. s \in Seq(Messages) /\ run[r].previous \in Nat
  BY DEF RunsTyped, Run
<1>2. /\ new \in Seq(Messages)
      /\ \A m : m \in ToSet(new) <=>
           \E i \in DOMAIN s : i > run[r].previous /\ s[i] = m
  BY <1>1, NewMessagesAre
<1>3. \A i \in DOMAIN new : new[i] \in ToSet(new) /\ new[i] \in Messages
  BY <1>2 DEF ToSet
<1>4. \A m \in ToSet(new) : m \in Messages
  BY <1>1, <1>2
<1>5. \A q \in LastAnswer(r) : \E i \in DOMAIN new : new[i].run = q
  BY DEF LastAnswer
<1>6. \A call \in Sources(r) : \E m \in ToSet(new) : call = CallOf(m)
  BY DEF Sources
<1> HIDE DEF new, s
<1>7. \A q \in LastAnswer(r) : \E i \in DOMAIN s : i > run[r].previous /\ s[i].run = q
  BY <1>2, <1>3, <1>5
<1>8. \A call \in Sources(r) : \E i \in DOMAIN s : i > run[r].previous /\ s[i].run = call[1]
  <2> TAKE call \in Sources(r)
  <2>1. PICK m \in ToSet(new) : call = CallOf(m)
    BY <1>6
  <2>2. PICK i \in DOMAIN s : i > run[r].previous /\ s[i] = m
    BY <1>2, <2>1
  <2> QED BY <2>1, <2>2 DEF CallOf
<1>9. LastAnswer(r) \in SUBSET Requests
  BY <1>3, <1>5 DEF Messages
<1>10. Sources(r) \in SUBSET (Requests \X (0 .. MaxCalls))
  BY <1>4, <1>6 DEF Messages, CallOf
<1> QED BY <1>7, <1>8, <1>9, <1>10 DEF s

\* A run that ends keeps the invariant if what it answers is its own.
LEMMA EndKeeps ==
  ASSUME RunsTyped, RunsKept, NEW r \in Requests, run[r].at = "commit", run'[r].at = "done",
         \A q \in Requests \ {r} : run'[q] = run[q],
         thread' = thread, overlapped' = overlapped, log \subseteq log',
         \A entry \in log' : entry \in log \/ (entry \in run[r].toLog /\ run'[r].saved),
         run'[r].toLog = {},
         r \notin overlapped => Answered(r)'
  PROVE  RunsKept'
<1>1. GraphShared'
  BY DEF RunsKept, GraphShared, InGraph
<1>2. ASSUME NEW q \in Requests
      PROVE  RunSound(q)'
  BY DEF RunsKept, RunSound, InGraph
<1>3. ~run[r].saved
  BY DEF RunsKept, RunSound
<1>4. ASSUME NEW s \in Requests \ overlapped
      PROVE  LeftToOthers(s)' /\ OwnWork(s)' /\ Answered(s)'
  <2>1. LeftToOthers(s) /\ OwnWork(s) /\ Answered(s)
    BY DEF RunsKept
  <2>2. Answered(s)'
    <3>1. CASE s # r
      BY <2>1, <3>1, AnsweredStays
    <3> QED BY <3>1
  <2>3. OwnWork(s)'
    <3>1. CASE s # r
      BY <2>1, <3>1, OwnWorkStays
    <3>2. CASE s = r
      BY <3>2 DEF OwnWork, Loaded, Writing
    <3> QED BY <3>1, <3>2
  <2>4. LeftToOthers(s)'
    <3>1. ASSUME NEW p \in Requests \ {s}
          PROVE  /\ InGraph(p)' => InGraph(p) /\ run'[p].previous = run[p].previous
                 /\ Writing(p)' => Writing(p) /\ run'[p].messages = run[p].messages
                 /\ Loaded(p)' => /\ Loaded(p) /\ run'[p].previous = run[p].previous
                                  /\ run'[p].messages = run[p].messages
                 /\ \A entry \in run'[p].toLog : entry.call[1] # s
      BY <2>1 DEF InGraph, Writing, Loaded, LeftToOthers
    <3>2. ASSUME NEW entry \in log', entry.call[1] = s
          PROVE  run'[s].saved
      <4>1. CASE s = r
        BY <1>3, <2>1, <3>2, <4>1 DEF LeftToOthers
      <4>2. CASE s # r
        BY <2>1, <3>2, <4>2 DEF LeftToOthers
      <4> QED BY <4>1, <4>2
    <3> QED BY <2>1, <3>1, <3>2, LeftToOthersStays
  <2> QED BY <2>2, <2>3, <2>4
<1> QED BY <1>1, <1>2, <1>4 DEF RunsKept

\* The response of a run alone is made of its own work, and its calls are logged.
LEMMA CommitKeeps ==
  ASSUME RunsTyped, RunsKept, NEW r \in Requests, CommitExecution(r) \/ CommitRefused(r)
  PROVE  RunsKept' /\ run' \in [Requests -> Run]
<1>1. CASE CommitRefused(r)
  <2>1. /\ run[r].at = "commit" /\ Ends(r, FALSE, NoAnswer, {})
        /\ thread' = thread /\ overlapped' = overlapped /\ log' = log
    BY <1>1 DEF CommitRefused
  <2>2. /\ FALSE \in BOOLEAN /\ NoAnswer \in SUBSET Requests
        /\ {} \in SUBSET (Requests \X (0 .. MaxCalls))
    BY DEF NoAnswer
  <2>3. /\ run' \in [Requests -> Run]
        /\ \A q \in Requests \ {r} : run'[q] = run[q]
        /\ run'[r].at = "done" /\ run'[r].observed = run[r].observed /\ run'[r].toLog = {}
        /\ run'[r].saved = FALSE /\ run'[r].answer = NoAnswer /\ run'[r].sources = {}
    BY <2>1, <2>2, EndsIs
  <2>4. Answered(r)'
    BY <2>3 DEF Answered, NoAnswer
  <2>5. RunsKept'
    BY <2>1, <2>3, <2>4, EndKeeps
  <2> QED BY <2>3, <2>5
<1>2. CASE CommitExecution(r)
  <2> DEFINE answers == ~run[r].failed /\ LastAnswer(r) # {}
             answer == IF answers THEN LastAnswer(r) ELSE NoAnswer
             sources == IF answers THEN Sources(r) ELSE {}
  <2>1. /\ run[r].at = "commit" /\ Ends(r, TRUE, answer, sources)
        /\ thread' = thread /\ overlapped' = overlapped /\ log' = log \union run[r].toLog
    BY <1>2 DEF CommitExecution
  <2>2. /\ answer \in SUBSET Requests /\ sources \in SUBSET (Requests \X (0 .. MaxCalls))
        /\ TRUE \in BOOLEAN
    BY ResultTyped DEF NoAnswer
  <2>3. answer # {} \/ sources # {} => ~run[r].failed
    BY DEF NoAnswer
  <2>4. answer \subseteq LastAnswer(r) /\ sources \subseteq Sources(r)
    BY DEF NoAnswer
  <2> HIDE DEF answer, sources
  <2>5. /\ run' \in [Requests -> Run]
        /\ \A q \in Requests \ {r} : run'[q] = run[q]
        /\ run'[r].at = "done" /\ run'[r].observed = run[r].observed /\ run'[r].toLog = {}
        /\ run'[r].saved = TRUE /\ run'[r].answer = answer /\ run'[r].sources = sources
    BY <2>1, <2>2, EndsIs
  <2>6. ASSUME r \notin overlapped
        PROVE  Answered(r)'
    <3>1. /\ ~run[r].failed => \A i \in DOMAIN run[r].messages :
                                 i > run[r].previous => run[r].messages[i].run = r
          /\ \A n \in run[r].observed : \E entry \in run[r].toLog : entry.call = <<r, n>>
          /\ ~run[r].failed => \A call \in Sources(r) : CallLog(call, "COMPLETED") \in run[r].toLog
      BY <2>1, <2>6 DEF RunsKept, OwnWork, Loaded
    <3>2. answer \subseteq {r}
      BY <2>3, <2>4, <3>1, ResultTyped
    <3>3. \A call \in sources : call[1] = r
      BY <2>3, <2>4, <3>1, ResultTyped
    <3>4. \A n \in run[r].observed : \E entry \in log' : entry.call = <<r, n>>
      BY <2>1, <3>1
    <3>5. \A call \in sources : CallLog(call, "COMPLETED") \in log'
      BY <2>1, <2>3, <2>4, <3>1
    <3> QED BY <2>5, <3>2, <3>3, <3>4, <3>5 DEF Answered, Logged
  <2>7. /\ log \subseteq log'
        /\ \A entry \in log' : entry \in log \/ (entry \in run[r].toLog /\ run'[r].saved)
    BY <2>1, <2>5
  <2>8. RunsKept'
    BY <2>1, <2>5, <2>6, <2>7, EndKeeps
  <2> QED BY <2>5, <2>8
<1> QED BY <1>1, <1>2

\* After a crash nothing runs, and the thread and the log are as they were.
LEMMA CrashKeeps ==
  ASSUME RunsTyped, RunsKept, Crash
  PROVE  RunsKept' /\ run' \in [Requests -> Run]
<1> DEFINE ended == [NoRun EXCEPT !.at = "done"]
<1>1. /\ run' = [r \in Requests |-> IF Running(r) THEN ended ELSE run[r]]
      /\ thread' = thread /\ log' = log /\ overlapped' = overlapped
  BY DEF Crash
<1>2. /\ ended \in Run /\ ended.at = "done" /\ ended.toLog = {}
      /\ ~ended.saved /\ ended.answer = {} /\ ended.sources = {}
  BY NoRunIsRun DEF Run, Steps, NoRun, NoAnswer
<1> HIDE DEF ended
<1>3. ASSUME NEW r \in Requests
      PROVE  \/ Running(r) /\ run'[r] = ended
             \/ ~Running(r) /\ run'[r] = run[r]
  BY <1>1
<1>4. run' \in [Requests -> Run]
  BY <1>1, <1>2 DEF RunsTyped
<1>5. ASSUME NEW r \in Requests
      PROVE  /\ run'[r].at \in {"idle", "done"} /\ ~InGraph(r)' /\ ~Writing(r)' /\ ~Loaded(r)'
             /\ run'[r].toLog \subseteq run[r].toLog
             /\ run[r].saved => run'[r] = run[r]
  <2>1. run'[r].at \in {"idle", "done"}
    BY <1>2, <1>3 DEF Running
  <2>2. Running(r) => ~run[r].saved
    BY DEF RunsKept, RunSound, Running
  <2> QED BY <1>2, <1>3, <2>1, <2>2 DEF InGraph, Writing, Loaded
<1>6. GraphShared'
  BY <1>5 DEF GraphShared
<1>7. ASSUME NEW r \in Requests
      PROVE  RunSound(r)'
  <2>1. CASE Running(r)
    BY <1>2, <1>3, <2>1 DEF RunSound, InGraph
  <2>2. CASE ~Running(r)
    BY <1>3, <2>2 DEF RunsKept, RunSound, InGraph
  <2> QED BY <2>1, <2>2
<1>8. ASSUME NEW s \in Requests \ overlapped
      PROVE  LeftToOthers(s)' /\ OwnWork(s)' /\ Answered(s)'
  <2>1. LeftToOthers(s) /\ OwnWork(s) /\ Answered(s)
    BY DEF RunsKept
  <2>2. Answered(s)'
    <3>1. CASE Running(s)
      BY <1>2, <1>3, <3>1 DEF Answered
    <3>2. CASE ~Running(s)
      BY <1>1, <1>3, <2>1, <3>2, AnsweredStays
    <3> QED BY <3>1, <3>2
  <2>3. OwnWork(s)'
    <3>1. /\ run'[s].at # "load" /\ run'[s].at # "tools" /\ run'[s].at # "commit" /\ ~Loaded(s)'
      BY <1>5
    <3> QED BY <3>1 DEF OwnWork
  <2>4. LeftToOthers(s)'
    <3>1. \A p \in Requests \ {s} : \A entry \in run'[p].toLog : entry.call[1] # s
      BY <1>5, <2>1 DEF LeftToOthers
    <3>2. \A entry \in log' : entry.call[1] = s => run'[s].saved
      BY <1>1, <1>5, <2>1 DEF LeftToOthers
    <3> QED BY <1>1, <1>5, <2>1, <3>1, <3>2, LeftToOthersStays
  <2> QED BY <2>2, <2>3, <2>4
<1> QED BY <1>1, <1>4, <1>6, <1>7, <1>8 DEF RunsKept

\* Other steps leave the runs alone.
LEMMA OthersKeep ==
  ASSUME RunsKept, UNCHANGED <<thread, run, log, overlapped>>
  PROVE  RunsKept'
<1>1. GraphShared' /\ \A r \in Requests : RunSound(r)'
  BY DEF RunsKept, GraphShared, RunSound, InGraph
<1>2. ASSUME NEW s \in Requests \ overlapped
      PROVE  LeftToOthers(s)' /\ OwnWork(s)' /\ Answered(s)'
  <2>1. LeftToOthers(s) /\ OwnWork(s) /\ Answered(s)
    BY DEF RunsKept
  <2>2. Answered(s)'
    BY <2>1, AnsweredStays
  <2>3. OwnWork(s)'
    BY <2>1, OwnWorkStays
  <2>4. \A p \in Requests \ {s} :
          /\ InGraph(p)' => InGraph(p) /\ run'[p].previous = run[p].previous
          /\ Writing(p)' => Writing(p) /\ run'[p].messages = run[p].messages
          /\ Loaded(p)' => /\ Loaded(p) /\ run'[p].previous = run[p].previous
                           /\ run'[p].messages = run[p].messages
          /\ \A entry \in run'[p].toLog : entry.call[1] # s
    BY <2>1 DEF InGraph, Writing, Loaded, LeftToOthers
  <2>5. \A entry \in log' : entry.call[1] = s => run'[s].saved
    BY <2>1 DEF LeftToOthers
  <2>6. LeftToOthers(s)'
    BY <2>1, <2>4, <2>5, LeftToOthersStays
  <2> QED BY <2>2, <2>3, <2>6
<1> QED BY <1>1, <1>2 DEF RunsKept

-----------------------------------------------------------------------------
\* The invariant, and what it says.

LEMMA InitHolds ==
  ASSUME Init
  PROVE  AgentInvariant
<1>1. AuthTypeOK
  BY DEF Init, AuthInit, AuthTypeOK, NoRow, Unserved
<1>2. RunsTyped
  <2>1. run \in [Requests -> Run]
    BY NoRunIsRun DEF Init
  <2>2. 0 \in 0 .. MaxFaults
    BY AgentAssumption
  <2>3. /\ agentSession \in BOOLEAN /\ log \subseteq Entries /\ overlapped \subseteq Requests
        /\ faults \in 0 .. MaxFaults
    BY <2>2 DEF Init
  <2>4. thread \in Seq(Messages)
    <3>1. thread = <<>>
      BY DEF Init
    <3> QED BY <3>1
  <2> QED BY <1>1, <2>1, <2>3, <2>4 DEF RunsTyped
<1>3. \A r \in Requests : /\ run[r].at = "idle" /\ ~run[r].saved /\ run[r].answer = {}
                          /\ run[r].sources = {} /\ run[r].toLog = {}
  BY DEF Init, NoRun, NoAnswer
<1>4. \A r \in Requests : ~InGraph(r) /\ ~Writing(r) /\ ~Loaded(r)
  BY <1>3 DEF InGraph, Writing, Loaded
<1>5. GraphShared /\ \A r \in Requests : RunSound(r)
  BY <1>3, <1>4 DEF GraphShared, RunSound
<1>6. ASSUME NEW r \in Requests
      PROVE  LeftToOthers(r) /\ OwnWork(r) /\ Answered(r)
  <2>1. LeftToOthers(r)
    BY <1>3, <1>4 DEF Init, LeftToOthers
  <2>2. OwnWork(r)
    BY <1>3, <1>4 DEF OwnWork
  <2>3. Answered(r)
    BY <1>3 DEF Answered
  <2> QED BY <2>1, <2>2, <2>3
<1> QED BY <1>2, <1>5, <1>6 DEF AgentInvariant, RunsKept

LEMMA AgentStepKeeps ==
  ASSUME AgentInvariant, NEW r \in Requests, AgentStep(r)
  PROVE  AgentInvariant'
<1>1. RunsTyped /\ RunsKept /\ RunSound(r)
  BY DEF AgentInvariant, RunsKept
<1>2. AuthTypeOK'
  BY <1>1, AgentLeavesLogins DEF RunsTyped
<1>3. CASE ReadPrevious(r)
  <2>1. run' \in [Requests -> Run]
    <3>1. run[r] \in Run /\ Len(thread) \in Nat /\ run \in [Requests -> Run]
      BY <1>1 DEF RunsTyped
    <3>2. [run[r] EXCEPT !.at = "load", !.previous = Len(thread)] \in Run
      BY <3>1 DEF Run, Steps
    <3>3. run' = [run EXCEPT ![r] = [run[r] EXCEPT !.at = "load", !.previous = Len(thread)]]
      BY <1>3, <3>1 DEF ReadPrevious
    <3> QED BY <3>1, <3>2, <3>3
  <2>2. RunsTyped'
    BY <1>1, <1>2, <1>3, <2>1 DEF ReadPrevious, RunsTyped
  <2> QED BY <1>1, <1>3, <2>2, ReadPreviousKeeps DEF AgentInvariant
<1>4. CASE CheckpointUnreadable(r)
  <2>1. UNCHANGED <<agentSession, thread, run, log, overlapped, faults>>
    BY <1>4 DEF CheckpointUnreadable, agentVars
  <2>2. RunsTyped'
    BY <1>1, <1>2, <2>1 DEF RunsTyped
  <2> QED BY <1>1, <2>1, <2>2, OthersKeep DEF AgentInvariant
<1>5. CASE LoadThread(r)
  <2> DEFINE m == Message(r, "HUMAN", 0, TRUE)
  <2>1. run[r] \in Run /\ run \in [Requests -> Run] /\ thread \in Seq(Messages)
    BY <1>1 DEF RunsTyped
  <2>2. m \in Messages
    BY AgentAssumption DEF Message, Messages
  <2>3. run' = [run EXCEPT ![r] = [run[r] EXCEPT !.at = "validate", !.messages = Append(thread, m)]]
    BY <1>5, <2>1 DEF LoadThread
  <2> HIDE DEF m
  <2>4. Append(thread, m) \in Seq(Messages)
    BY <2>1, <2>2
  <2>5. [run[r] EXCEPT !.at = "validate", !.messages = Append(thread, m)] \in Run
    BY <2>1, <2>4 DEF Run, Steps
  <2>6. run' \in [Requests -> Run]
    BY <2>1, <2>3, <2>5
  <2>7. RunsTyped'
    BY <1>1, <1>2, <1>5, <2>6 DEF LoadThread, Keep, RunsTyped
  <2> QED BY <1>1, <1>5, <2>7, LoadThreadKeeps DEF AgentInvariant
<1>6. CASE ValidateContext(r) \/ ModelCalls(r) \/ ModelAnswers(r) \/ ToolAnswers(r)
  <2>1. WritesThread(r)
    BY <1>1, <1>6, WritesThreadIs
  <2>2. RunsTyped'
    BY <1>1, <1>2, <2>1 DEF WritesThread, Executes, RunsTyped
  <2> QED BY <1>1, <2>1, <2>2, WritesThreadKeeps DEF AgentInvariant
<1>7. CASE ToolTimesOut(r) \/ GraphFails(r)
  <2>1. FailsQuietly(r)
    BY <1>1, <1>7, FailsQuietlyIs
  <2>2. RunsTyped'
    BY <1>1, <1>2, <2>1 DEF FailsQuietly, Executes, RunsTyped
  <2> QED BY <1>1, <2>1, <2>2, FailsQuietlyKeeps DEF AgentInvariant
<1>8. CASE RecordToolCalls(r)
  <2> DEFINE calls == IF run[r].failed THEN FailedToolCalls(r) ELSE NewToolCalls(r)
  <2>1. run[r] \in Run /\ run \in [Requests -> Run] /\ calls \in SUBSET Entries
    BY <1>1, ToLogTyped DEF RunsTyped
  <2>2. run' = [run EXCEPT ![r] = [run[r] EXCEPT !.at = "commit", !.toLog = calls]]
    BY <1>8, <2>1 DEF RecordToolCalls
  <2> HIDE DEF calls
  <2>3. [run[r] EXCEPT !.at = "commit", !.toLog = calls] \in Run
    BY <2>1 DEF Run, Steps
  <2>4. run' \in [Requests -> Run]
    BY <2>1, <2>2, <2>3
  <2>5. RunsTyped'
    BY <1>1, <1>2, <1>8, <2>4 DEF RecordToolCalls, Keep, RunsTyped
  <2> QED BY <1>1, <1>8, <2>5, RecordKeeps DEF AgentInvariant
<1>9. CASE CommitExecution(r) \/ CommitRefused(r)
  <2>1. run[r].toLog \subseteq Entries
    BY <1>1 DEF RunsTyped, Run
  <2>2. RunsKept' /\ run' \in [Requests -> Run]
    BY <1>1, <1>9, CommitKeeps
  <2>3. RunsTyped'
    BY <1>1, <1>2, <1>9, <2>1, <2>2 DEF CommitExecution, CommitRefused, RunsTyped
  <2> QED BY <2>2, <2>3 DEF AgentInvariant
<1> QED BY <1>3, <1>4, <1>5, <1>6, <1>7, <1>8, <1>9 DEF AgentStep

LEMMA StepKeeps ==
  ASSUME AgentInvariant, [Next]_vars
  PROVE  AgentInvariant'
<1>1. RunsTyped /\ RunsKept
  BY DEF AgentInvariant
<1>2. CASE Crash
  <2>1. RunsKept' /\ run' \in [Requests -> Run]
    BY <1>1, <1>2, CrashKeeps
  <2>2. AuthTypeOK'
    BY <1>1, <1>2, AgentLeavesLogins DEF RunsTyped
  <2>3. faults' \in 0 .. MaxFaults
    BY <1>1, <1>2, AgentAssumption DEF Crash, RunsTyped
  <2>4. RunsTyped'
    BY <1>1, <1>2, <2>1, <2>2, <2>3 DEF Crash, RunsTyped
  <2> QED BY <2>1, <2>4 DEF AgentInvariant
<1>3. CASE CreateAgentSession
  <2>1. AuthTypeOK' /\ agentSession' = TRUE /\ UNCHANGED <<thread, run, log, overlapped, faults>>
    BY <1>1, <1>3, AgentLeavesLogins DEF RunsTyped, CreateAgentSession
  <2>2. RunsTyped'
    BY <1>1, <2>1 DEF RunsTyped
  <2> QED BY <1>1, <2>1, <2>2, OthersKeep DEF AgentInvariant
<1>4. CASE (AuthNext /\ UNCHANGED agentVars) \/ UNCHANGED vars
  <2>1. UNCHANGED <<agentSession, thread, run, log, overlapped, faults>>
    BY <1>4 DEF vars, agentVars
  <2>2. AuthTypeOK'
    <3>1. CASE UNCHANGED vars
      BY <1>1, <3>1 DEF vars, authVars, RunsTyped, AuthTypeOK
    <3>2. CASE AuthNext
      BY <1>1, <3>2, AuthTyped DEF RunsTyped
    <3> QED BY <1>4, <3>1, <3>2
  <2>3. RunsTyped'
    BY <1>1, <2>1, <2>2 DEF RunsTyped
  <2> QED BY <1>1, <2>1, <2>3, OthersKeep DEF AgentInvariant
<1> QED BY <1>2, <1>3, <1>4, AgentStepKeeps DEF Next

\* The executions of one agent session, however they are interleaved, fail or
\* are cut off, keep what their answers and the tool-call log rest on.
THEOREM AgentInvariantHolds == Spec => []AgentInvariant
  BY InitHolds, StepKeeps, PTL DEF Spec

\* Logins, the thread, the runs and the log have their types, and a tool is
\* never tried more often than its retry policy allows.
THEOREM AgentTypeOK == Spec => []TypeOK
<1>1. AgentInvariant => TypeOK
  <2> SUFFICES ASSUME AgentInvariant PROVE TypeOK
    OBVIOUS
  <2>1. RunsTyped
    BY DEF AgentInvariant
  <2>2. \A r \in Requests : run[r].tried <= MaxAttempts /\ run[r].messages \in Seq(Messages)
    BY <2>1 DEF RunsTyped, Run, MaxAttempts
  <2> QED BY <2>1, <2>2 DEF RunsTyped, TypeOK, Entries
<1> QED BY <1>1, AgentInvariantHolds, PTL

\* A session logged out by AuthSession stays so, whatever refreshes are under
\* way, and no request of any kind, an agent's included, enters with it.
THEOREM LogoutCannotBeUndone == Spec => LogoutIsFinal
<1>1. AgentInvariant /\ [Next]_vars => [LoggedOutStaysOut]_authVars
  BY LogoutHolds DEF AgentInvariant, RunsTyped
<1> QED BY <1>1, AgentInvariantHolds, PTL DEF Spec, LogoutIsFinal

\* The answer and the sources of a message are its own run's, whatever earlier
\* runs left in the thread, unless another ran beside it.
THEOREM AnswersComeFromOwnRun == Spec => []AnswersAreOwn
<1>1. AgentInvariant => AnswersAreOwn
  BY DEF AgentInvariant, RunsKept, Answered, AnswersAreOwn
<1> QED BY <1>1, AgentInvariantHolds, PTL

\* A run whose record is saved has every call its tools tried in
\* agent_tool_call_logs, and those that gave sources as COMPLETED, unless
\* another ran beside it.
THEOREM ToolCallsAreAudited == Spec => []CallsAudited
<1>1. AgentInvariant => CallsAudited
  BY DEF AgentInvariant, RunsKept, Answered, CallsAudited
<1> QED BY <1>1, AgentInvariantHolds, PTL
=============================================================================
