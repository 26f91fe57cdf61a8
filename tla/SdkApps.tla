------------------------------- MODULE SdkApps -------------------------------
(***************************************************************************)
(* What an application builds on the Node SDK: the Express middleware and    *)
(* the gate handler (sdk/node/src/express.ts), the LangChain callback        *)
(* handler and the retriever wrapper (sdk/node/src/langchain.ts) and the     *)
(* streamed query (sdk/node/src/gate.ts). They call the gateway through the  *)
(* promises of RemoteCall, which SdkClient implements.                       *)
(*                                                                           *)
(* The applications share no state: one of them is active in a behaviour.    *)
(* Express and LangChain themselves are external: a request's next() runs    *)
(* one handler, and LangChain awaits its callbacks, as the handler that      *)
(* throws from handleChainStart expects.                                     *)
(***************************************************************************)
EXTENDS RemoteCall, Sequences

CONSTANTS
    Retrievers,  \* the retriever runs of a chain
    Lone,        \* the retriever runs outside of a chain
    Docs,        \* the documents a retriever returns
    MaxEvents    \* bound: events of a stream

VARIABLES
    app,       \* the application of this behaviour and its options
    web,       \* an Express request
    chain,     \* a LangChain run
    runs,      \* the retriever and LLM runs LangChain starts
    contexts,  \* SecureLensCallbackHandler.runContexts: the notes of each run
    fetched,   \* the wrapped retriever's documents
    stream     \* a streamed query

appVars == <<web, chain, runs, contexts, fetched, stream>>
vars == <<result, app, appVars>>

-----------------------------------------------------------------------------
(* Types. *)

Apps == {"middleware", "handler", "langchain", "retriever", "stream"}

Chain == "chain"
LLM   == "llm"
Children == Retrievers \cup Lone \cup {LLM}
Runs == Children \cup {Chain}

\* The promises: one for each gateway call an application makes.
Ask      == "intercept"       \* gate.intercept, gate.query
Classify == "classify"        \* of the response
ClassifyOf(r) == r            \* classifyBatch for a run's documents or texts

\* Run ids are random, and every call makes a promise of its own. The code
\* reads of an answer only whether it allows the query.
ASSUME AppsAssumption ==
    /\ Bodies = {"allowed", "refused"}
    /\ Retrievers \cap Lone = {}
    /\ (Retrievers \cup Lone) \cap {Chain, LLM, Ask, Classify} = {}
    /\ {Ask, Classify} \cup Children \subseteq Calls
    /\ MaxEvents \in Nat

\* sensitivityOrder: indexOf is -1 for a label the SDK does not know, and a
\* document without a result of its own counts as public.
sensitivityOrder == <<"public", "internal", "confidential", "restricted", "top_secret">>
Labels == {sensitivityOrder[i] : i \in DOMAIN sensitivityOrder} \cup {"unknown", "missing"}
indexOf(label) ==
    CASE label = "missing" -> 0
      [] label = "unknown" -> -1
      [] OTHER -> (CHOOSE i \in DOMAIN sensitivityOrder : sensitivityOrder[i] = label) - 1

Options == [kind : Apps,
            check : BOOLEAN,      \* interceptRequests, or blockOnPolicyViolation
            audit : BOOLEAN,      \* auditResponses, or classifyResponses
            max   : {"none", "internal", "restricted"}] \* maxSensitivity

\* The values that the variables take: what a reader needs to read the actions.
TypeOK ==
    /\ result \in [Calls -> Promises]
    /\ app \in Options
    /\ web \in [pc : {"new", "context", "asked", "handler", "done"},
                query : {"none", "text", "object"}, skip : BOOLEAN,
                sent : Seq(Nat), handled : BOOLEAN]
    /\ chain \in [pc : {"new", "starting", "running", "ending", "ended", "failed", "refused"},
                  query : BOOLEAN]
    /\ runs \in [Children -> [pc : {"new", "started", "classifying", "ended", "failed"},
                              own : BOOLEAN]]
    /\ ~ runs[LLM].own
    /\ contexts \in [Runs -> [open : BOOLEAN, notes : SUBSET Runs]]
    /\ fetched \in [pc : {"new", "classifying", "returned", "thrown"},
                    labels : [Docs -> Labels], out : SUBSET Docs]
    /\ stream \in [pc : {"new", "open", "resolved", "rejected"},
                   sent : 0 .. MaxEvents, lost : 0 .. MaxEvents,
                   done : BOOLEAN, final : BOOLEAN, threw : BOOLEAN]

Init ==
    /\ Idle
    /\ app \in Options
    /\ web = [pc |-> "new", query |-> "none", skip |-> FALSE, sent |-> <<>>, handled |-> FALSE]
    /\ chain = [pc |-> "new", query |-> FALSE]
    /\ runs = [r \in Children |-> [pc |-> "new", own |-> FALSE]]
    /\ contexts = [r \in Runs |-> [open |-> FALSE, notes |-> {}]]
    /\ \E labels \in [Docs -> IF app.kind = "retriever" THEN Labels ELSE {"public"}] :
           fetched = [pc |-> "new", labels |-> labels, out |-> {}]
    /\ stream = [pc |-> "new", sent |-> 0, lost |-> 0, done |-> FALSE, final |-> FALSE,
                 threw |-> FALSE]

Answered(c) == result[c].state \in {"ok", "error"}
Refusal(c)  == result[c].state = "ok" /\ result[c].body = "refused"
Issued(c)   == result' = [result EXCEPT ![c] = Pending]

-----------------------------------------------------------------------------
(* secureLensMiddleware and createGateHandler. *)

Respond(status) ==
    web' = [web EXCEPT !.pc = "done", !.sent = Append(@, status)]

\* A request arrives: skip(req) hands it on unchecked.
Arrive ==
    /\ app.kind \in {"middleware", "handler"} /\ web.pc = "new"
    /\ \E q \in {"none", "text", "object"}, skip \in BOOLEAN :
           /\ app.kind = "handler" => ~ skip
           /\ web' = [web EXCEPT !.query = q, !.skip = skip,
                                 !.pc = IF skip THEN "handler" ELSE "context"]
    /\ UNCHANGED <<result, app, chain, runs, contexts, fetched, stream>>

\* Mistake: the query is checked outside of the try.
MiddlewareThrows ==
    /\ app.kind = "middleware" /\ web.pc = "context"
    /\ IF app.check /\ web.query # "none"
       THEN IF web.query = "object"
            THEN web' = [web EXCEPT !.pc = "done"] /\ UNCHANGED result
            ELSE web' = [web EXCEPT !.pc = "asked"] /\ Issued(Ask)
       ELSE web' = [web EXCEPT !.pc = "handler"] /\ UNCHANGED result
    /\ UNCHANGED <<app, chain, runs, contexts, fetched, stream>>

\* await getUserContext returned, the query is read and checked: intercept
\* validates before it calls the gateway, and a missing query is not checked.
Middleware ==
    /\ app.kind = "middleware" /\ web.pc = "context"
    /\ IF app.check /\ web.query # "none"
       THEN IF web.query = "object"
            THEN Respond(SecureLensValidationError.status) /\ UNCHANGED result
            ELSE web' = [web EXCEPT !.pc = "asked"] /\ Issued(Ask)
       ELSE web' = [web EXCEPT !.pc = "handler"] /\ UNCHANGED result
    /\ UNCHANGED <<app, chain, runs, contexts, fetched, stream>>

\* getUserContext rejects: an error of the application's own.
ContextFails ==
    /\ app.kind \in {"middleware", "handler"} /\ web.pc = "context"
    /\ Respond(500)
    /\ UNCHANGED <<result, app, chain, runs, contexts, fetched, stream>>

\* Mistake: onBlocked is not followed by return.
InterceptedOn ==
    /\ app.kind = "middleware" /\ web.pc = "asked" /\ Answered(Ask)
    /\ IF result[Ask].state = "error"
       THEN Respond(result[Ask].error.status)
       ELSE web' = [web EXCEPT !.pc = "handler",
                               !.sent = IF Refusal(Ask) THEN Append(@, 403) ELSE @]
    /\ UNCHANGED <<result, app, chain, runs, contexts, fetched, stream>>

\* Mistake: an error of the check is only logged.
InterceptedOpen ==
    /\ app.kind = "middleware" /\ web.pc = "asked" /\ Answered(Ask)
    /\ IF Refusal(Ask) THEN Respond(403) ELSE web' = [web EXCEPT !.pc = "handler"]
    /\ UNCHANGED <<result, app, chain, runs, contexts, fetched, stream>>

\* gate.intercept settled: onError, onBlocked or next().
Intercepted ==
    /\ app.kind = "middleware" /\ web.pc = "asked" /\ Answered(Ask)
    /\ CASE result[Ask].state = "error" -> Respond(result[Ask].error.status)
         [] Refusal(Ask) -> Respond(403)
         [] OTHER -> web' = [web EXCEPT !.pc = "handler"]
    /\ UNCHANGED <<result, app, chain, runs, contexts, fetched, stream>>

\* The application's handler answers, with the wrapped res.json or without:
\* the wrapper sends the answer and lets its classification run by itself.
Handle ==
    /\ web.pc = "handler"
    /\ web' = [web EXCEPT !.pc = "done", !.sent = Append(@, 200), !.handled = TRUE]
    /\ \/ app.audit /\ ~ web.skip /\ Issued(Classify)
       \/ UNCHANGED result
    /\ UNCHANGED <<app, chain, runs, contexts, fetched, stream>>

\* createGateHandler up to its await of gate.query.
GateHandler ==
    /\ app.kind = "handler" /\ web.pc = "context"
    /\ IF web.query = "text"
       THEN web' = [web EXCEPT !.pc = "asked"] /\ Issued(Ask)
       ELSE Respond(400) /\ UNCHANGED result
    /\ UNCHANGED <<app, chain, runs, contexts, fetched, stream>>

\* gate.query settled; formatResponse may throw.
GateAnswered ==
    /\ app.kind = "handler" /\ web.pc = "asked" /\ Answered(Ask)
    /\ IF result[Ask].state = "error"
       THEN Respond(result[Ask].error.status)
       ELSE \E status \in {200, 500} : Respond(status)
    /\ UNCHANGED <<result, app, chain, runs, contexts, fetched, stream>>

-----------------------------------------------------------------------------
(* SecureLensCallbackHandler. *)

Open(r) == contexts' = [contexts EXCEPT ![r].open = TRUE]
Close(r) == [contexts EXCEPT ![r] = [open |-> FALSE, notes |-> {}]]

\* handleChainStart up to its await; without a query there is no context.
ChainStart ==
    /\ app.kind = "langchain" /\ chain.pc = "new"
    /\ \/ chain' = [pc |-> "running", query |-> FALSE] /\ UNCHANGED result
       \/ chain' = [pc |-> "starting", query |-> TRUE] /\ Issued(Ask)
    /\ UNCHANGED <<app, web, runs, contexts, fetched, stream>>

\* The handler throws a policy error, the gateway's own or the one it makes
\* of a refusal; any other failure of the check lets the chain run.
Blocks ==
    \/ result[Ask].state = "error" /\ result[Ask].error.code = SecureLensPolicyError.code
    \/ Refusal(Ask) /\ app.check

\* gate.intercept settled.
ChainStarted ==
    /\ chain.pc = "starting" /\ Answered(Ask)
    /\ IF Blocks
       THEN chain' = [chain EXCEPT !.pc = "refused"] /\ UNCHANGED contexts
       ELSE chain' = [chain EXCEPT !.pc = "running"] /\ Open(Chain)
    /\ UNCHANGED <<result, app, web, runs, fetched, stream>>

\* handleRetrieverStart and handleLLMStart: a retriever whose parent has no
\* context makes one under its own run. LangChain starts the children of a
\* chain that runs; a lone retriever needs no chain.
Parented(r) == r \notin Lone
Lookup(r) == IF Parented(r) THEN Chain ELSE r

RunStart(r) ==
    /\ app.kind = "langchain" /\ runs[r].pc = "new"
    /\ Parented(r) => chain.pc = "running"
    /\ LET own == r # LLM /\ ~ (Parented(r) /\ contexts[Chain].open) IN
       /\ runs' = [runs EXCEPT ![r] = [pc |-> "started", own |-> own]]
       /\ IF own THEN Open(r) ELSE UNCHANGED contexts
    /\ UNCHANGED <<result, app, web, chain, fetched, stream>>

\* handleRetrieverEnd and handleLLMEnd: the context is looked up under the
\* parent, and kept over the await.
RunEnd(r) ==
    /\ runs[r].pc = "started"
    /\ \/ /\ contexts[Lookup(r)].open
          /\ r = LLM => app.audit
          /\ runs' = [runs EXCEPT ![r].pc = "classifying"]
          /\ Issued(ClassifyOf(r))
       \/ \* no context, no documents, or the option is off
          /\ runs' = [runs EXCEPT ![r].pc = "ended"]
          /\ UNCHANGED result
    /\ UNCHANGED <<app, web, chain, contexts, fetched, stream>>

\* Mistake: the notes are written to the map, not to the object held.
RunClassifiedAnew(r) ==
    /\ runs[r].pc = "classifying" /\ Answered(ClassifyOf(r))
    /\ runs' = [runs EXCEPT ![r].pc = "ended"]
    /\ contexts' = IF result[ClassifyOf(r)].state = "ok"
                   THEN [contexts EXCEPT ![Lookup(r)] = [open |-> TRUE, notes |-> @.notes \cup {r}]]
                   ELSE contexts
    /\ UNCHANGED <<result, app, web, chain, fetched, stream>>

\* classifyBatch settled: the classifications go to the object held, which
\* runContexts may have dropped since.
RunClassified(r) ==
    /\ runs[r].pc = "classifying" /\ Answered(ClassifyOf(r))
    /\ runs' = [runs EXCEPT ![r].pc = "ended"]
    /\ contexts' = IF contexts[Lookup(r)].open /\ result[ClassifyOf(r)].state = "ok"
                   THEN [contexts EXCEPT ![Lookup(r)].notes = @ \cup {r}]
                   ELSE contexts
    /\ UNCHANGED <<result, app, web, chain, fetched, stream>>

\* A run fails: handleRetrieverError drops its own context, handleLLMError
\* nothing; handleChainError drops the chain's, other children still running.
RunError(r) ==
    /\ runs[r].pc = "started"
    /\ runs' = [runs EXCEPT ![r].pc = "failed"]
    /\ chain' = IF Parented(r) /\ chain.pc = "running" THEN [chain EXCEPT !.pc = "failed"]
                ELSE chain
    /\ LET gone == (IF r = LLM THEN {} ELSE {r}) \cup (IF Parented(r) THEN {Chain} ELSE {}) IN
       contexts' = [x \in Runs |-> IF x \in gone THEN [open |-> FALSE, notes |-> {}]
                                   ELSE contexts[x]]
    /\ UNCHANGED <<result, app, web, fetched, stream>>

\* handleChainEnd up to its await, once the children LangChain awaited are over.
ChainEnd ==
    /\ chain.pc = "running"
    /\ \A r \in Children \ Lone : runs[r].pc \notin {"started", "classifying"}
    /\ \/ /\ contexts[Chain].open /\ app.audit
          /\ chain' = [chain EXCEPT !.pc = "ending"]
          /\ Issued(Classify)
          /\ UNCHANGED contexts
       \/ \* no response text, no context, or the option is off
          /\ chain' = [chain EXCEPT !.pc = "ended"]
          /\ contexts' = Close(Chain)
          /\ UNCHANGED result
    /\ UNCHANGED <<app, web, runs, fetched, stream>>

\* The response's classification settled: finally, the context is dropped.
ChainEnded ==
    /\ chain.pc = "ending" /\ Answered(Classify)
    /\ chain' = [chain EXCEPT !.pc = "ended"]
    /\ contexts' = Close(Chain)
    /\ UNCHANGED <<result, app, web, runs, fetched, stream>>

-----------------------------------------------------------------------------
(* createSecureLensRetriever. *)

\* check stands for classifyDocuments, audit for filterSensitive.
GetRelevantDocuments ==
    /\ app.kind = "retriever" /\ fetched.pc = "new"
    /\ IF app.check \/ app.audit
       THEN fetched' = [fetched EXCEPT !.pc = "classifying"] /\ Issued(ClassifyOf(LLM))
       ELSE fetched' = [fetched EXCEPT !.pc = "returned", !.out = Docs] /\ UNCHANGED result
    /\ UNCHANGED <<app, web, chain, runs, contexts, stream>>

\* classifyBatch settled: the base retriever's documents are filtered, or the
\* wrapper throws.
Filtered ==
    /\ fetched.pc = "classifying" /\ Answered(ClassifyOf(LLM))
    /\ fetched' =
           IF result[ClassifyOf(LLM)].state = "error"
           THEN [fetched EXCEPT !.pc = "thrown"]
           ELSE [fetched EXCEPT !.pc = "returned",
                    !.out = IF app.audit /\ app.max # "none"
                            THEN {d \in Docs : indexOf(fetched.labels[d]) <= indexOf(app.max)}
                            ELSE Docs]
    /\ UNCHANGED <<result, app, web, chain, runs, contexts, stream>>

-----------------------------------------------------------------------------
(* AIGate.queryStream: no retry and no timeout. *)

StreamStart ==
    /\ app.kind = "stream" /\ stream.pc = "new"
    /\ \/ stream' = [stream EXCEPT !.pc = "open"]
       \/ stream' = [stream EXCEPT !.pc = "rejected"]  \* not ok, no body, fetch rejects
    /\ UNCHANGED <<result, app, web, chain, runs, contexts, fetched>>

\* Mistake: a "done" event counts although its callback threw.
StreamReadFinal ==
    /\ stream.pc = "open" /\ stream.sent < MaxEvents /\ ~ stream.done
    /\ \E whole, last, throws \in BOOLEAN :
           stream' = [stream EXCEPT
               !.sent = @ + 1, !.done = last,
               !.lost = IF whole THEN @ ELSE @ + 1,
               !.threw = @ \/ (whole /\ last /\ throws),
               !.final = @ \/ last]
    /\ UNCHANGED <<result, app, web, chain, runs, contexts, fetched>>

\* An event arrives, whole in one read or split over two: a split one is taken
\* for malformed. What the callback throws is swallowed, and then a "done"
\* event's final response is not kept.
StreamRead ==
    /\ stream.pc = "open" /\ stream.sent < MaxEvents /\ ~ stream.done
    /\ \E whole, last, throws \in BOOLEAN :
           stream' = [stream EXCEPT
               !.sent = @ + 1, !.done = last,
               !.lost = IF whole THEN @ ELSE @ + 1,
               !.threw = @ \/ (whole /\ last /\ throws),
               !.final = @ \/ (whole /\ last /\ ~ throws)]
    /\ UNCHANGED <<result, app, web, chain, runs, contexts, fetched>>

\* The stream ends, or reader.read rejects.
StreamEnd ==
    /\ stream.pc = "open"
    /\ \/ stream' = [stream EXCEPT !.pc = IF stream.final THEN "resolved" ELSE "rejected"]
       \/ stream' = [stream EXCEPT !.pc = "rejected"]
    /\ UNCHANGED <<result, app, web, chain, runs, contexts, fetched>>

-----------------------------------------------------------------------------
(* The whole. *)

\* The client settles a promise (RemoteCall).
ClientSettles == (\E c \in Calls : Settle(c)) /\ UNCHANGED <<app, appVars>>

Express == Arrive \/ Middleware \/ ContextFails \/ Intercepted \/ Handle
               \/ GateHandler \/ GateAnswered

LangChain ==
    \/ ChainStart \/ ChainStarted \/ ChainEnd \/ ChainEnded
    \/ \E r \in Children : RunStart(r) \/ RunEnd(r) \/ RunClassified(r) \/ RunError(r)

Retriever == GetRelevantDocuments \/ Filtered

Stream == StreamStart \/ StreamRead \/ StreamEnd

Next == ClientSettles \/ Express \/ LangChain \/ Retriever \/ Stream

\* Promises settle (SdkClient's Settles) and the event loop resumes the code
\* that awaits them; that a chain goes on after its start is not assumed.
Fairness == /\ \A c \in Calls : WF_vars(Settle(c) /\ UNCHANGED <<app, appVars>>)
            /\ WF_vars(Express)
            /\ WF_vars(ChainStarted) /\ WF_vars(ChainEnded) /\ WF_vars(Filtered)
            /\ \A r \in Children : WF_vars(RunClassified(r))

Spec == Init /\ [][Next]_vars /\ Fairness

-----------------------------------------------------------------------------
(* Properties. *)

\* The middleware fails closed: the application's handler runs with a query
\* only if the check is off or skipped, or the gateway allowed the query; an
\* error of the check, whatever its kind, never lets the request through.
FailsClosed ==
    web.handled /\ web.query # "none" =>
        \/ web.skip \/ ~ app.check
        \/ result[Ask].state = "ok" /\ result[Ask].body = "allowed"

\* Every request is answered exactly once, by the check or by the handler:
\* the fire-and-forget audit neither delays the answer nor sends a second one.
AnsweredOnce ==
    /\ Len(web.sent) <= 1
    /\ web.pc = "done" => Len(web.sent) = 1

EveryRequestAnswered == web.pc # "new" ~> web.sent # <<>>

\* runContexts holds no context of a run that is over, in whichever order
\* children end, fail and are classified: except that of a retriever that made
\* its own context and ended well, which is never dropped.
ContextsReleased == \A r \in Runs : contexts[r].open =>
    IF r = Chain THEN chain.pc \in {"running", "ending"}
    ELSE runs[r].own /\ runs[r].pc # "failed"

\* A streamed query that resolves has delivered its final response to the
\* callback, which took it.
StreamDelivered == stream.pc = "resolved" => stream.done /\ ~ stream.threw

=============================================================================
