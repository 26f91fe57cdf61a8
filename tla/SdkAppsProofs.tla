--------------------------- MODULE SdkAppsProofs ---------------------------
(***************************************************************************)
(* Theorems about the applications of the Node SDK, for any retrievers,     *)
(* documents, error statuses and number of stream events.                   *)
(*                                                                          *)
(* FailsClosed speaks of the end of a request, and the answer it relies on  *)
(* arrived earlier: WebInv says what brought a request to the application's *)
(* handler, and that nobody asks again. ContextsReleased needs that only a  *)
(* run that has started owns a context, StreamDelivered that the callback   *)
(* threw, if it did, on the last event.                                     *)
(***************************************************************************)
EXTENDS SdkApps, SequenceTheorems, TLAPS

-----------------------------------------------------------------------------
(* Types. *)

Web == [pc : {"new", "context", "asked", "handler", "done"},
        query : {"none", "text", "object"}, skip : BOOLEAN,
        sent : Seq(Nat), handled : BOOLEAN]
ChainState == [pc : {"new", "starting", "running", "ending", "ended", "failed", "refused"},
               query : BOOLEAN]
Run == [pc : {"new", "started", "classifying", "ended", "failed"}, own : BOOLEAN]
Context == [open : BOOLEAN, notes : SUBSET Runs]
Fetched == [pc : {"new", "classifying", "returned", "thrown"},
            labels : [Docs -> Labels], out : SUBSET Docs]
StreamState == [pc : {"new", "open", "resolved", "rejected"},
                sent : 0 .. MaxEvents, lost : 0 .. MaxEvents,
                done : BOOLEAN, final : BOOLEAN, threw : BOOLEAN]

\* No more events are lost than were sent.
TypeInv == TypeOK /\ stream.lost <= stream.sent

\* The calls and runs that the integrations name are what they are taken for.
LEMMA Kinds ==
    /\ Ask \in Calls /\ Classify \in Calls /\ Ask # Classify
    /\ LLM \in Children /\ Chain \notin Children /\ Chain \in Runs
    /\ \A r \in Children : r \in Calls /\ r \in Runs /\ r # Ask /\ Lookup(r) \in Runs
BY AppsAssumption DEF Ask, Classify, LLM, Chain, Children, Runs, Lookup, Parented

\* Every error of the client has an HTTP status.
LEMMA Statusful ==
    /\ SecureLensTimeoutError.status \in Nat /\ SecureLensConnectionError.status \in Nat
    /\ SecureLensValidationError.status \in Nat
    /\ \A s \in Statuses : parseApiError(s).status \in Nat
<1>1. \A s \in Statuses : s \in Nat
  BY StatusAssumption
<1> QED BY <1>1 DEF SecureLensTimeoutError, SecureLensConnectionError, SecureLensValidationError,
      parseApiError, SecureLensAuthError, SecureLensPolicyError, SecureLensRateLimitError,
      SecureLensServerError, SecureLensError

\* What a promise holds.
LEMMA Holds ==
    ASSUME NEW p \in Promises
    PROVE  /\ p.state = "error" => p.error.status \in Nat
           /\ p.state = "ok" => p.body \in {"allowed", "refused"}
           /\ p.state \in {"idle", "pending", "ok", "error"}
<1>1. CASE p \in {Unissued, Pending}
  BY <1>1 DEF Unissued, Pending, Promise
<1>2. CASE \E b \in Bodies : p = Resolved(b)
  BY <1>2, AppsAssumption DEF Resolved, Promise
<1>3. CASE \E e \in RequestErrors : p = Rejected(e)
  <2>1. PICK e \in RequestErrors : p = Rejected(e)
    BY <1>3
  <2>2. e.status \in Nat
    BY Statusful DEF RequestErrors
  <2> QED BY <2>1, <2>2 DEF Rejected, Promise
<1> QED BY <1>1, <1>2, <1>3 DEF Promises

\* A call is made, or settles.
LEMMA Issues ==
    ASSUME TypeOK, NEW c \in Calls, Issued(c)
    PROVE  result' \in [Calls -> Promises]
<1>1. Pending \in Promises
  BY DEF Promises
<1> QED BY <1>1 DEF Issued, TypeOK

\* Settling a call changes the promise of that call alone.
LEMMA Settles ==
    ASSUME TypeOK, NEW c \in Calls, Settle(c)
    PROVE  /\ result' \in [Calls -> Promises]
           /\ result[c] = Pending
           /\ \A d \in Calls \ {c} : result'[d] = result[d]
<1>1. PICK p \in Promises : result' = [result EXCEPT ![c] = p]
  BY DEF Settle, Resolve, Reject, Promises
<1>2. result[c] = Pending
  BY DEF Settle, Resolve, Reject
<1> QED BY <1>1, <1>2 DEF TypeOK

\* The answer of a request.
LEMMA Responds ==
    ASSUME TypeOK, NEW status \in Nat, Respond(status)
    PROVE  /\ web' \in Web /\ web'.pc = "done" /\ web'.sent = Append(web.sent, status)
           /\ web'.handled = web.handled /\ web'.query = web.query /\ web'.skip = web.skip
<1>1. web \in Web
  BY DEF TypeOK, Web
<1>2. Append(web.sent, status) \in Seq(Nat)
  BY <1>1 DEF Web
<1> QED BY <1>1, <1>2 DEF Respond, Web

\* The initial values have their types.
LEMMA TypeInit == Init => TypeInv
<1> SUFFICES ASSUME Init
             PROVE  TypeInv
  OBVIOUS
<1>1. result \in [Calls -> Promises]
  BY DEF Init, Idle, Promises
<1>2. "public" \in Labels
  <2>1. 1 \in DOMAIN sensitivityOrder /\ sensitivityOrder[1] = "public"
    BY DEF sensitivityOrder
  <2> QED BY <2>1 DEF Labels
<1>3. fetched \in Fetched
  BY <1>2 DEF Init, Fetched
<1>4. app \in Options /\ web \in Web /\ chain \in ChainState
  BY DEF Init, Web, ChainState
<1>5. runs \in [Children -> Run] /\ ~ runs[LLM].own
  BY Kinds DEF Init, Run
<1>6. contexts \in [Runs -> Context]
  BY DEF Init, Context
<1>7. stream \in StreamState /\ stream.lost <= stream.sent
  BY AppsAssumption DEF Init, StreamState
<1> QED BY <1>1, <1>3, <1>4, <1>5, <1>6, <1>7
     DEF TypeInv, TypeOK, Web, ChainState, Run, Context, Fetched, StreamState

\* The types by name.
LEMMA Types ==
    ASSUME TypeInv
    PROVE  /\ result \in [Calls -> Promises] /\ app \in Options /\ web \in Web
           /\ chain \in ChainState /\ runs \in [Children -> Run] /\ ~ runs[LLM].own
           /\ contexts \in [Runs -> Context] /\ fetched \in Fetched /\ stream \in StreamState
BY DEF TypeInv, TypeOK, Web, ChainState, Run, Context, Fetched, StreamState

\* The types of the variables, one by one.
LEMMA Typed ==
    ASSUME result' \in [Calls -> Promises], app' \in Options, web' \in Web,
           chain' \in ChainState, runs' \in [Children -> Run], ~ runs'[LLM].own,
           contexts' \in [Runs -> Context], fetched' \in Fetched, stream' \in StreamState,
           (stream.lost <= stream.sent)'
    PROVE  TypeInv'
BY DEF TypeInv, TypeOK, Web, ChainState, Run, Context, Fetched, StreamState

\* The middleware keeps the types and leaves the others alone.
LEMMA ExpressTypes ==
    ASSUME TypeInv, Express
    PROVE  TypeInv' /\ UNCHANGED <<app, chain, runs, contexts, fetched, stream>>
<1>1. UNCHANGED <<app, chain, runs, contexts, fetched, stream>>
  BY DEF Express, Arrive, Middleware, ContextFails, Intercepted, Handle, GateHandler, GateAnswered
<1>2. result' \in [Calls -> Promises]
  <2>1. UNCHANGED result \/ Issued(Ask) \/ Issued(Classify)
    BY DEF Express, Arrive, Middleware, ContextFails, Intercepted, Handle, GateHandler,
       GateAnswered
  <2> QED BY <2>1, Types, Issues, Kinds DEF TypeInv
<1>3. web' \in Web
  <2>0. web \in Web /\ result[Ask] \in Promises
    BY Types, Kinds
  <2>1. ASSUME NEW status \in Nat, Respond(status)
        PROVE  web' \in Web
    BY <2>1, Responds DEF TypeInv
  <2>2. CASE Arrive \/ Handle
    <3>1. Append(web.sent, 200) \in Seq(Nat)
      BY <2>0 DEF Web
    <3> QED BY <2>0, <2>2, <3>1 DEF Arrive, Handle, Web
  <2>3. CASE Middleware
    <3>1. SecureLensValidationError.status \in Nat
      BY Statusful
    <3> QED BY <2>0, <2>1, <2>3, <3>1 DEF Middleware, Web
  <2>4. CASE ContextFails
    BY <2>1, <2>4 DEF ContextFails
  <2>5. CASE Intercepted
    <3>1. result[Ask].state = "error" => result[Ask].error.status \in Nat
      BY <2>0, Holds
    <3>2. CASE result[Ask].state = "error"
      BY <2>1, <2>5, <3>1, <3>2 DEF Intercepted
    <3>3. CASE result[Ask].state # "error"
      BY <2>0, <2>1, <2>5, <3>3 DEF Intercepted, Web
    <3> QED BY <3>2, <3>3
  <2>6. CASE GateHandler
    BY <2>0, <2>1, <2>6 DEF GateHandler, Web
  <2>7. CASE GateAnswered
    <3>1. result[Ask].state = "error" => result[Ask].error.status \in Nat
      BY <2>0, Holds
    <3>2. CASE result[Ask].state = "error"
      BY <2>1, <2>7, <3>1, <3>2 DEF GateAnswered
    <3>3. CASE result[Ask].state # "error"
      BY <2>1, <2>7, <3>3 DEF GateAnswered
    <3> QED BY <3>2, <3>3
  <2> QED BY <2>2, <2>3, <2>4, <2>5, <2>6, <2>7 DEF Express
<1>4. /\ app' \in Options /\ chain' \in ChainState /\ runs' \in [Children -> Run]
      /\ ~ runs'[LLM].own /\ contexts' \in [Runs -> Context] /\ fetched' \in Fetched
      /\ stream' \in StreamState /\ stream'.lost <= stream'.sent
  BY <1>1, Types DEF TypeInv
<1> QED BY <1>1, <1>2, <1>3, <1>4, Typed

\* A child's record, and the contexts after Open and Close.
LEMMA RunTypes ==
    ASSUME TypeInv, NEW r \in Children, NEW run \in Run, runs' = [runs EXCEPT ![r] = run],
           r = LLM => ~ run.own
    PROVE  /\ runs' \in [Children -> Run] /\ ~ runs'[LLM].own
           /\ runs'[r] = run /\ \A s \in Children \ {r} : runs'[s] = runs[s]
BY Types, Kinds

\* Opening and closing a run's context.
LEMMA ContextTypes ==
    ASSUME TypeInv, NEW r \in Runs
    PROVE  /\ Open(r) => /\ contexts' \in [Runs -> Context] /\ contexts'[r].open
                         /\ \A s \in Runs \ {r} : contexts'[s] = contexts[s]
           /\ contexts' = Close(r) => /\ contexts' \in [Runs -> Context] /\ ~ contexts'[r].open
                                      /\ \A s \in Runs \ {r} : contexts'[s] = contexts[s]
<1>0. contexts \in [Runs -> Context] /\ contexts[r] \in Context
  BY Types
<1>1. ASSUME NEW context \in Context, contexts' = [contexts EXCEPT ![r] = context]
      PROVE  /\ contexts' \in [Runs -> Context] /\ contexts'[r] = context
             /\ \A s \in Runs \ {r} : contexts'[s] = contexts[s]
  BY <1>0, <1>1
<1>2. [open |-> FALSE, notes |-> {}] \in Context
  BY DEF Context
<1>3. [contexts[r] EXCEPT !.open = TRUE] \in Context /\ [contexts[r] EXCEPT !.open = TRUE].open
  BY <1>0 DEF Context
<1>4. ASSUME Open(r)
      PROVE  contexts' = [contexts EXCEPT ![r] = [contexts[r] EXCEPT !.open = TRUE]]
  BY <1>0, <1>4 DEF Open
<1>5. ASSUME contexts' = Close(r)
      PROVE  contexts' = [contexts EXCEPT ![r] = [open |-> FALSE, notes |-> {}]]
  BY <1>5 DEF Close
<1>6. CASE Open(r)
  <2> HIDE DEF Open
  <2>1. /\ contexts' \in [Runs -> Context]
        /\ contexts'[r] = [contexts[r] EXCEPT !.open = TRUE]
        /\ \A s \in Runs \ {r} : contexts'[s] = contexts[s]
    BY <1>1, <1>3, <1>4, <1>6
  <2>2. contexts'[r].open
    BY <1>3, <2>1
  <2>3. contexts' # Close(r)
    <3>1. ASSUME contexts' = Close(r)
          PROVE  contexts'[r] = [open |-> FALSE, notes |-> {}]
      BY <1>1, <1>2, <1>5, <3>1
    <3> QED BY <2>2, <3>1
  <2> QED BY <2>1, <2>2, <2>3
<1>7. CASE contexts' = Close(r)
  <2>1. /\ contexts' \in [Runs -> Context]
        /\ contexts'[r] = [open |-> FALSE, notes |-> {}]
        /\ \A s \in Runs \ {r} : contexts'[s] = contexts[s]
    BY <1>1, <1>2, <1>5, <1>7
  <2>2. ~ contexts'[r].open
    BY <2>1
  <2> QED BY <1>6, <2>1, <2>2
<1> QED BY <1>6, <1>7

-----------------------------------------------------------------------------
(* LangChain. *)

\* A context is that of a run under way, or was made by a run that ended well;
\* only a run that has started makes one.
ContextInv ==
    /\ ContextsReleased
    /\ \A r \in Children : runs[r].own => runs[r].pc # "new"

\* What the LangChain handlers leave alone.
Beside == UNCHANGED <<app, web, fetched, stream>>

\* What a step of the callbacks has to show.
LEMMA LangChainTypes ==
    ASSUME TypeInv, Beside, result' \in [Calls -> Promises], chain' \in ChainState,
           runs' \in [Children -> Run], ~ runs'[LLM].own, contexts' \in [Runs -> Context]
    PROVE  TypeInv'
<1>1. /\ app' \in Options /\ web' \in Web /\ fetched' \in Fetched
      /\ stream' \in StreamState /\ stream'.lost <= stream'.sent
  BY Types DEF TypeInv, Beside
<1> QED BY <1>1, Typed

\* The chain moves, and its context with it.
LEMMA ChainMoves ==
    ASSUME TypeInv, ContextInv, Beside, UNCHANGED runs,
           chain' \in ChainState, contexts' \in [Runs -> Context],
           UNCHANGED result \/ Issued(Ask) \/ Issued(Classify),
           \A r \in Runs \ {Chain} : contexts'[r] = contexts[r],
           contexts'[Chain].open => chain'.pc \in {"running", "ending"}
    PROVE  TypeInv' /\ ContextInv'
<1>1. result' \in [Calls -> Promises]
  BY Types, Issues, Kinds DEF TypeInv
<1>2. TypeInv'
  BY <1>1, Types, LangChainTypes
<1>3. ContextInv'
  BY Kinds DEF ContextInv, ContextsReleased
<1> QED BY <1>2, <1>3

\* The callbacks of the chain itself.
LEMMA ChainStep ==
    ASSUME TypeInv, ContextInv, ChainStart \/ ChainStarted \/ ChainEnd \/ ChainEnded
    PROVE  TypeInv' /\ ContextInv'
<1>0. /\ chain \in ChainState /\ contexts \in [Runs -> Context] /\ Chain \in Runs
      /\ contexts[Chain].open => chain.pc \in {"running", "ending"}
  BY Types, Kinds DEF ContextInv, ContextsReleased
<1>1. CASE ChainStart
  <2>1. /\ chain' \in ChainState /\ UNCHANGED <<runs, contexts>> /\ Beside
        /\ ~ contexts[Chain].open /\ (UNCHANGED result \/ Issued(Ask))
    <3>1. /\ chain.pc = "new" /\ UNCHANGED <<runs, contexts>> /\ Beside
          /\ \/ chain' = [pc |-> "running", query |-> FALSE] /\ UNCHANGED result
             \/ chain' = [pc |-> "starting", query |-> TRUE] /\ Issued(Ask)
      BY <1>1 DEF ChainStart, Beside
    <3>2. /\ [pc |-> "running", query |-> FALSE] \in ChainState
          /\ [pc |-> "starting", query |-> TRUE] \in ChainState
      BY DEF ChainState
    <3>3. chain' \in ChainState
      BY <3>1, <3>2, Zenon
    <3> QED BY <1>0, <3>1, <3>3
  <2> QED BY <1>0, <2>1, ChainMoves
<1>2. CASE ChainStarted
  <2>1. UNCHANGED <<runs, result>> /\ Beside /\ chain.pc = "starting"
    BY <1>2 DEF ChainStarted, Beside
  <2>2. CASE Blocks
    <3>1. chain' \in ChainState /\ UNCHANGED contexts /\ ~ contexts[Chain].open
      BY <1>0, <1>2, <2>1, <2>2 DEF ChainStarted, ChainState
    <3> QED BY <1>0, <2>1, <3>1, ChainMoves
  <2>3. CASE ~ Blocks
    <3>1. chain' \in ChainState /\ chain'.pc = "running" /\ Open(Chain)
      BY <1>0, <1>2, <2>3 DEF ChainStarted, ChainState
    <3> QED BY <1>0, <2>1, <3>1, ContextTypes, ChainMoves
  <2> QED BY <2>2, <2>3
<1>3. CASE ChainEnd
  <2>1. UNCHANGED runs /\ Beside
    BY <1>3 DEF ChainEnd, Beside
  <2>2. CASE chain' = [chain EXCEPT !.pc = "ending"] /\ Issued(Classify) /\ UNCHANGED contexts
    <3>1. chain' \in ChainState /\ chain'.pc = "ending"
      BY <1>0, <2>2 DEF ChainState
    <3> QED BY <1>0, <2>1, <2>2, <3>1, ChainMoves
  <2>3. CASE chain' = [chain EXCEPT !.pc = "ended"] /\ contexts' = Close(Chain) /\ UNCHANGED result
    <3>1. chain' \in ChainState
      BY <1>0, <2>3 DEF ChainState
    <3> QED BY <1>0, <2>1, <2>3, <3>1, ContextTypes, ChainMoves
  <2> QED BY <1>3, <2>2, <2>3 DEF ChainEnd
<1>4. CASE ChainEnded
  <2>1. /\ UNCHANGED <<runs, result>> /\ Beside /\ contexts' = Close(Chain)
        /\ chain' \in ChainState
    BY <1>0, <1>4 DEF ChainEnded, Beside, ChainState
  <2> QED BY <1>0, <2>1, ContextTypes, ChainMoves
<1> QED BY <1>1, <1>2, <1>3, <1>4

\* The callbacks of a run in the chain.
LEMMA RunStep ==
    ASSUME TypeInv, ContextInv, NEW r \in Children,
           RunStart(r) \/ RunEnd(r) \/ RunClassified(r) \/ RunError(r)
    PROVE  TypeInv' /\ ContextInv'
<1>0. /\ chain \in ChainState /\ contexts \in [Runs -> Context] /\ runs \in [Children -> Run]
      /\ result \in [Calls -> Promises] /\ runs[r] \in Run /\ (r = LLM => ~ runs[r].own)
      /\ r \in Runs /\ r # Chain /\ r \in Calls
  BY Types, Kinds
<1> PICK old : old = runs[r]
  OBVIOUS
<1>1. CASE RunStart(r)
  <2> PICK own : own = (r # LLM /\ ~ (Parented(r) /\ contexts[Chain].open))
    OBVIOUS
  <2> PICK run : run = [pc |-> "started", own |-> own]
    OBVIOUS
  <2>1. /\ runs' = [runs EXCEPT ![r] = run] /\ old.pc = "new"
        /\ IF own THEN Open(r) ELSE UNCHANGED contexts
        /\ UNCHANGED <<result, chain>> /\ Beside
    BY <1>1 DEF RunStart, Beside
  <2>2. run \in Run /\ (r = LLM => ~ run.own) /\ run.own = own /\ run.pc = "started"
    BY DEF Run
  <2>3. /\ runs' \in [Children -> Run] /\ ~ runs'[LLM].own
        /\ runs'[r] = run /\ \A s \in Children \ {r} : runs'[s] = runs[s]
    BY <2>1, <2>2, RunTypes
  <2>4. ~ contexts[r].open
    BY <1>0, <2>1 DEF ContextInv, ContextsReleased
  <2>5. /\ contexts' \in [Runs -> Context]
        /\ \A s \in Runs \ {r} : contexts'[s] = contexts[s]
        /\ contexts'[r].open => own
    BY <1>0, <2>1, <2>4, ContextTypes
  <2>6. ContextInv'
    <3>1. \A s \in Runs : s = Chain \/ s \in Children
      BY DEF Runs
    <3> QED BY <1>0, <2>1, <2>2, <2>3, <2>5, <3>1 DEF ContextInv, ContextsReleased
  <2> QED BY <1>0, <2>1, <2>3, <2>5, <2>6, LangChainTypes
<1>2. CASE RunEnd(r) \/ RunClassified(r)
  <2>1. PICK pc \in {"classifying", "ended"} :
          /\ runs' = [runs EXCEPT ![r].pc = pc]
          /\ old.pc \in {"started", "classifying"}
          /\ UNCHANGED chain /\ Beside
          /\ UNCHANGED result \/ Issued(ClassifyOf(r))
    BY <1>2 DEF RunEnd, RunClassified, Beside
  <2> PICK run : run = [old EXCEPT !.pc = pc]
    OBVIOUS
  <2>2. run \in Run /\ run.own = old.own /\ run.pc = pc /\ runs' = [runs EXCEPT ![r] = run]
    BY <1>0, <2>1 DEF Run
  <2>3. /\ runs' \in [Children -> Run] /\ ~ runs'[LLM].own
        /\ runs'[r] = run /\ \A s \in Children \ {r} : runs'[s] = runs[s]
    BY <1>0, <2>2, RunTypes
  <2>4. result' \in [Calls -> Promises]
    BY <1>0, <2>1, Issues DEF ClassifyOf, TypeInv
  <2>5. contexts' \in [Runs -> Context] /\ \A s \in Runs : contexts'[s].open = contexts[s].open
    <3>1. Lookup(r) \in Runs
      BY Kinds
    <3> QED BY <1>0, <1>2, <3>1 DEF RunEnd, RunClassified, Context
  <2>6. ContextInv'
    <3>1. \A s \in Runs : s = Chain \/ s \in Children
      BY DEF Runs
    <3> QED BY <1>0, <2>1, <2>2, <2>3, <2>5, <3>1 DEF ContextInv, ContextsReleased
  <2> QED BY <1>0, <2>1, <2>3, <2>4, <2>5, <2>6, LangChainTypes
<1>3. CASE RunError(r)
  <2> PICK gone : gone = (IF r = LLM THEN {} ELSE {r}) \cup (IF Parented(r) THEN {Chain} ELSE {})
    OBVIOUS
  <2> PICK run : run = [old EXCEPT !.pc = "failed"]
    OBVIOUS
  <2>1. /\ runs' = [runs EXCEPT ![r] = run] /\ UNCHANGED result /\ Beside
        /\ chain' = (IF Parented(r) /\ chain.pc = "running" THEN [chain EXCEPT !.pc = "failed"]
                      ELSE chain)
        /\ contexts' = [x \in Runs |-> IF x \in gone THEN [open |-> FALSE, notes |-> {}]
                                        ELSE contexts[x]]
    BY <1>0, <1>3 DEF RunError, Beside
  <2>2. run \in Run /\ run.own = old.own /\ run.pc = "failed"
    BY <1>0 DEF Run
  <2>3. /\ runs' \in [Children -> Run] /\ ~ runs'[LLM].own
        /\ runs'[r] = run /\ \A s \in Children \ {r} : runs'[s] = runs[s]
    BY <1>0, <2>1, <2>2, RunTypes
  <2>4. /\ contexts' \in [Runs -> Context]
        /\ \A s \in Runs : contexts'[s].open => s \notin gone /\ contexts[s].open
    BY <1>0, <2>1 DEF Context
  <2>5. chain' \in ChainState /\ (Parented(r) \/ chain' = chain)
    BY <1>0, <2>1 DEF ChainState
  <2>6. ContextInv'
    <3>1. \A s \in Runs : s = Chain \/ s \in Children
      BY DEF Runs
    <3>2. ~ contexts'[r].open
      BY <1>0, <2>4 DEF ContextInv, ContextsReleased
    <3>3. contexts'[Chain].open => chain' = chain
      BY <2>4, <2>5, Kinds
    <3>4. \A s \in Runs \ {Chain} : contexts'[s].open => runs'[s].own /\ runs'[s].pc # "failed"
      BY <1>0, <2>3, <2>4, <3>1, <3>2 DEF ContextInv, ContextsReleased
    <3>5. contexts'[Chain].open => chain'.pc \in {"running", "ending"}
      BY <2>4, <3>3, Kinds DEF ContextInv, ContextsReleased
    <3>6. \A s \in Children : runs'[s].own => runs'[s].pc # "new"
      BY <2>2, <2>3 DEF ContextInv
    <3> QED BY <3>4, <3>5, <3>6 DEF ContextInv, ContextsReleased
  <2> QED BY <1>0, <2>1, <2>3, <2>4, <2>5, <2>6, LangChainTypes
<1> QED BY <1>1, <1>2, <1>3

\* Initially no context is open.
LEMMA ContextInit == Init => ContextInv
BY Kinds DEF Init, ContextInv, ContextsReleased

-----------------------------------------------------------------------------
(* The retriever and the stream. *)

\* The retriever keeps the types and leaves the others alone.
LEMMA RetrieverTypes ==
    ASSUME TypeInv, Retriever
    PROVE  TypeInv' /\ UNCHANGED <<app, web, chain, runs, contexts, stream>>
<1>0. fetched \in Fetched
  BY Types
<1>1. UNCHANGED <<app, web, chain, runs, contexts, stream>>
  BY DEF Retriever, GetRelevantDocuments, Filtered
<1>2. result' \in [Calls -> Promises]
  <2>1. UNCHANGED result \/ Issued(LLM)
    BY DEF Retriever, GetRelevantDocuments, Filtered, ClassifyOf
  <2> QED BY <2>1, Types, Issues, Kinds DEF TypeInv
<1>3. fetched' \in Fetched
  <2>1. PICK pc \in {"classifying", "returned", "thrown"}, out \in SUBSET Docs :
           fetched' = [fetched EXCEPT !.pc = pc, !.out = out]
    <3>1. CASE GetRelevantDocuments
      <4>1. CASE fetched' = [fetched EXCEPT !.pc = "classifying"]
        <5>1. fetched' = [fetched EXCEPT !.pc = "classifying", !.out = fetched.out]
          BY <1>0, <4>1 DEF Fetched
        <5>2. fetched.out \in SUBSET Docs
          BY <1>0 DEF Fetched
        <5> QED BY <5>1, <5>2
      <4>2. CASE fetched' = [fetched EXCEPT !.pc = "returned", !.out = Docs]
        BY <4>2
      <4> QED BY <3>1, <4>1, <4>2 DEF GetRelevantDocuments
    <3>2. CASE Filtered
      <4>1. CASE fetched' = [fetched EXCEPT !.pc = "thrown"]
        <5>1. fetched' = [fetched EXCEPT !.pc = "thrown", !.out = fetched.out]
          BY <1>0, <4>1 DEF Fetched
        <5>2. fetched.out \in SUBSET Docs
          BY <1>0 DEF Fetched
        <5> QED BY <5>1, <5>2
      <4>2. CASE result[ClassifyOf(LLM)].state # "error"
        <5> PICK out : out = IF app.audit /\ app.max # "none"
                             THEN {d \in Docs : indexOf(fetched.labels[d]) <= indexOf(app.max)}
                             ELSE Docs
          OBVIOUS
        <5>1. fetched' = [fetched EXCEPT !.pc = "returned", !.out = out]
          BY <3>2, <4>2 DEF Filtered
        <5>2. out \in SUBSET Docs
          OBVIOUS
        <5> QED BY <5>1, <5>2
      <4> QED BY <3>2, <4>1, <4>2 DEF Filtered
    <3> QED BY <3>1, <3>2 DEF Retriever
  <2> QED BY <1>0, <2>1 DEF Fetched
<1>4. /\ app' \in Options /\ web' \in Web /\ chain' \in ChainState
      /\ runs' \in [Children -> Run] /\ ~ runs'[LLM].own /\ contexts' \in [Runs -> Context]
      /\ stream' \in StreamState /\ stream'.lost <= stream'.sent
  BY <1>1, Types DEF TypeInv
<1> QED BY <1>1, <1>2, <1>3, <1>4, Typed

\* The final response is kept only from a last event that was whole and that
\* the callback took; nothing is read after the last event.
StreamInv ==
    /\ stream.final => stream.done /\ ~ stream.threw
    /\ stream.threw => stream.done
    /\ stream.pc = "resolved" => stream.final

\* The stream keeps count of what it sent, delivered and lost.
LEMMA StreamStep ==
    ASSUME TypeInv, StreamInv, Stream
    PROVE  TypeInv' /\ StreamInv' /\ UNCHANGED <<app, web, chain, runs, contexts, fetched>>
<1>0. stream \in StreamState /\ stream.lost <= stream.sent /\ MaxEvents \in Nat
  BY Types, AppsAssumption DEF TypeInv
<1>1. UNCHANGED <<app, web, chain, runs, contexts, fetched, result>>
  BY DEF Stream, StreamStart, StreamRead, StreamEnd
<1>2. /\ stream' \in StreamState /\ stream'.lost <= stream'.sent /\ StreamInv'
  <2>1. CASE StreamStart
    <3>1. PICK pc \in {"open", "rejected"} : stream' = [stream EXCEPT !.pc = pc]
      BY <2>1 DEF StreamStart
    <3> QED BY <1>0, <3>1 DEF StreamState, StreamInv
  <2>2. CASE StreamRead
    <3>1. PICK whole \in BOOLEAN, last \in BOOLEAN, throws \in BOOLEAN :
            stream' = [stream EXCEPT
               !.sent = @ + 1, !.done = last,
               !.lost = IF whole THEN @ ELSE @ + 1,
               !.threw = @ \/ (whole /\ last /\ throws),
               !.final = @ \/ (whole /\ last /\ ~ throws)]
      BY <2>2 DEF StreamRead
    <3>2. stream.pc = "open" /\ stream.sent < MaxEvents /\ ~ stream.done
      BY <2>2 DEF StreamRead
    <3>3. ~ stream.threw /\ ~ stream.final
      BY <3>2 DEF StreamInv
    <3>4. /\ stream'.pc = stream.pc /\ stream'.done = last
          /\ stream'.threw = (whole /\ last /\ throws)
          /\ stream'.final = (whole /\ last /\ ~ throws)
          /\ stream'.sent = stream.sent + 1
          /\ stream'.lost = IF whole THEN stream.lost ELSE stream.lost + 1
      BY <1>0, <3>1, <3>3 DEF StreamState
    <3>5. stream'.sent \in 0 .. MaxEvents /\ stream'.lost \in 0 .. MaxEvents
          /\ stream'.lost <= stream'.sent
      BY <1>0, <3>2, <3>4 DEF StreamState
    <3>6. stream' \in StreamState
      BY <1>0, <3>1, <3>4, <3>5 DEF StreamState
    <3>7. StreamInv'
      BY <3>2, <3>4 DEF StreamInv
    <3> QED BY <3>5, <3>6, <3>7
  <2>3. CASE StreamEnd
    <3>1. PICK pc \in {"resolved", "rejected"} :
            stream' = [stream EXCEPT !.pc = pc] /\ (pc = "resolved" => stream.final)
      BY <2>3 DEF StreamEnd
    <3> QED BY <1>0, <3>1 DEF StreamState, StreamInv
  <2> QED BY <2>1, <2>2, <2>3 DEF Stream
<1>3. /\ app' \in Options /\ web' \in Web /\ chain' \in ChainState
      /\ runs' \in [Children -> Run] /\ ~ runs'[LLM].own /\ contexts' \in [Runs -> Context]
      /\ fetched' \in Fetched /\ result' \in [Calls -> Promises]
  BY <1>1, Types
<1> QED BY <1>1, <1>2, <1>3, Typed

-----------------------------------------------------------------------------
(* Requests of the middleware and the gate handler. *)

\* What lets a request through to the application's handler.
Passed == \/ web.query = "none" \/ web.skip \/ ~ app.check
          \/ result[Ask].state = "ok" /\ result[Ask].body = "allowed"

WebInv ==
    /\ web.pc # "new" => app.kind \in {"middleware", "handler"}
    /\ web.pc # "done" => web.sent = <<>> /\ ~ web.handled
    /\ web.pc = "done" => Len(web.sent) = 1
    /\ web.pc = "handler" \/ web.handled => Passed

\* Initially nothing has been answered.
LEMMA WebInit == Init => WebInv
BY DEF Init, WebInv

\* The first answer is the only one.
LEMMA AnswersOnce ==
    ASSUME TypeInv, WebInv, web.pc # "done", NEW status \in Nat
    PROVE  Len(Append(web.sent, status)) = 1
BY AppendProperties DEF WebInv

\* A response to a request that was waiting for one.
LEMMA RespondStep ==
    ASSUME TypeInv, WebInv, web.pc # "done", NEW status \in Nat, Respond(status), UNCHANGED app,
           web.pc # "new"
    PROVE  WebInv'
<1>1. /\ web'.pc = "done" /\ web'.sent = Append(web.sent, status) /\ ~ web'.handled
  BY Responds DEF WebInv, TypeInv
<1>2. Len(web'.sent) = 1
  BY <1>1, AnswersOnce
<1> QED BY <1>1, <1>2 DEF WebInv

\* Every step of the middleware keeps its invariant.
LEMMA ExpressStep ==
    ASSUME TypeInv, WebInv, Express
    PROVE  WebInv'
<1>0. web \in Web /\ result[Ask] \in Promises /\ app \in Options
  BY Types, Kinds
<1>1. UNCHANGED app
  BY ExpressTypes
<1>2. CASE Arrive
  <2>1. PICK q \in {"none", "text", "object"}, skip \in BOOLEAN :
          web' = [web EXCEPT !.query = q, !.skip = skip,
                             !.pc = IF skip THEN "handler" ELSE "context"]
    BY <1>2 DEF Arrive
  <2>2. /\ web.pc = "new" /\ app.kind \in {"middleware", "handler"} /\ UNCHANGED result
    BY <1>2 DEF Arrive
  <2>3. /\ web'.pc = (IF skip THEN "handler" ELSE "context") /\ web'.skip = skip
        /\ web'.sent = web.sent /\ web'.handled = web.handled
    BY <1>0, <2>1 DEF Web
  <2> QED BY <1>1, <2>2, <2>3 DEF WebInv, Passed
<1>3. CASE Middleware
  <2>1. web.pc = "context"
    BY <1>3 DEF Middleware
  <2>2. CASE Respond(SecureLensValidationError.status)
    BY <1>1, <2>1, <2>2, Statusful, RespondStep
  <2>3. CASE web' = [web EXCEPT !.pc = "asked"]
    <3>1. web'.pc = "asked" /\ web'.sent = web.sent /\ web'.handled = web.handled
      BY <1>0, <2>3 DEF Web
    <3> QED BY <1>1, <2>1, <3>1 DEF WebInv
  <2>4. CASE web' = [web EXCEPT !.pc = "handler"] /\ ~ (app.check /\ web.query # "none")
    <3>1. /\ web'.pc = "handler" /\ web'.sent = web.sent /\ web'.handled = web.handled
          /\ web'.query = web.query
      BY <1>0, <2>4 DEF Web
    <3> QED BY <1>1, <2>1, <2>4, <3>1 DEF WebInv, Passed
  <2> QED BY <1>3, <2>2, <2>3, <2>4 DEF Middleware
<1>4. CASE ContextFails
  BY <1>1, <1>4, RespondStep DEF ContextFails
<1>5. CASE Intercepted
  <2>1. web.pc = "asked" /\ UNCHANGED result /\ Answered(Ask)
    BY <1>5 DEF Intercepted
  <2>2. CASE result[Ask].state = "error"
    <3>1. Respond(result[Ask].error.status)
      BY <1>5, <2>2 DEF Intercepted, Refusal
    <3>2. result[Ask].error.status \in Nat
      BY <1>0, <2>2, Holds
    <3> QED BY <1>1, <2>1, <3>1, <3>2, RespondStep
  <2>3. CASE result[Ask].state # "error" /\ Refusal(Ask)
    <3>1. Respond(403)
      BY <1>5, <2>3 DEF Intercepted
    <3> QED BY <1>1, <2>1, <3>1, RespondStep
  <2>4. CASE result[Ask].state # "error" /\ ~ Refusal(Ask)
    <3>1. web' = [web EXCEPT !.pc = "handler"]
      BY <1>5, <2>4 DEF Intercepted
    <3>2. web'.pc = "handler" /\ web'.sent = web.sent /\ web'.handled = web.handled
      BY <1>0, <3>1 DEF Web
    <3>3. result[Ask].state = "ok"
      BY <2>1, <2>4 DEF Answered
    <3>4. result[Ask].body \in {"allowed", "refused"}
      BY <1>0, <3>3, Holds
    <3>5. result[Ask].body = "allowed"
      BY <2>4, <3>3, <3>4 DEF Refusal
    <3> QED BY <1>1, <2>1, <3>2, <3>3, <3>5 DEF WebInv, Passed
  <2> QED BY <2>2, <2>3, <2>4
<1>6. CASE Handle
  <2>1. web.pc = "handler" /\ web' = [web EXCEPT !.pc = "done", !.sent = Append(@, 200),
                                                 !.handled = TRUE]
    BY <1>6 DEF Handle
  <2>2. /\ web'.pc = "done" /\ web'.sent = Append(web.sent, 200)
        /\ web'.query = web.query /\ web'.skip = web.skip
    BY <1>0, <2>1 DEF Web
  <2>3. Len(web'.sent) = 1
    BY <2>1, <2>2, AnswersOnce
  <2>4. result'[Ask] = result[Ask]
    BY <1>6, Types, Kinds DEF Handle, Issued
  <2>5. Passed'
    BY <1>1, <2>1, <2>2, <2>4 DEF WebInv, Passed
  <2> QED BY <1>1, <2>1, <2>2, <2>3, <2>5 DEF WebInv
<1>7. CASE GateHandler
  <2>1. web.pc = "context"
    BY <1>7 DEF GateHandler
  <2>2. CASE Respond(400)
    BY <1>1, <2>1, <2>2, RespondStep
  <2>3. CASE web' = [web EXCEPT !.pc = "asked"]
    <3>1. web'.pc = "asked" /\ web'.sent = web.sent /\ web'.handled = web.handled
      BY <1>0, <2>3 DEF Web
    <3> QED BY <1>1, <2>1, <3>1 DEF WebInv
  <2> QED BY <1>7, <2>2, <2>3 DEF GateHandler
<1>8. CASE GateAnswered
  <2>1. web.pc = "asked"
    BY <1>8 DEF GateAnswered
  <2>2. CASE result[Ask].state = "error"
    <3>1. Respond(result[Ask].error.status)
      BY <1>8, <2>2 DEF GateAnswered
    <3>2. result[Ask].error.status \in Nat
      BY <1>0, <2>2, Holds
    <3> QED BY <1>1, <2>1, <3>1, <3>2, RespondStep
  <2>3. CASE result[Ask].state # "error"
    <3>1. PICK status \in {200, 500} : Respond(status)
      BY <1>8, <2>3 DEF GateAnswered
    <3> QED BY <1>1, <2>1, <3>1, RespondStep
  <2> QED BY <2>2, <2>3
<1> QED BY <1>2, <1>3, <1>4, <1>5, <1>6, <1>7, <1>8 DEF Express

\* Nothing else asks again for a request, nor changes the answer.
LEMMA WebKept ==
    ASSUME TypeInv, WebInv, UNCHANGED <<web, app>>,
           web.pc = "new" \/ result[Ask].state # "ok" \/ result'[Ask] = result[Ask]
    PROVE  WebInv'
BY DEF WebInv, Passed

\* Nobody else touches the request or its response.
LEMMA OthersStep ==
    ASSUME TypeInv, WebInv, LangChain \/ Retriever \/ Stream
    PROVE  WebInv'
<1>1. UNCHANGED <<web, app>>
  BY DEF LangChain, ChainStart, ChainStarted, ChainEnd, ChainEnded, RunStart, RunEnd,
     RunClassified, RunError, Retriever, GetRelevantDocuments, Filtered, Stream, StreamStart,
     StreamRead, StreamEnd
<1>2. CASE ChainStart
  BY <1>1, <1>2, WebKept DEF ChainStart, WebInv
<1>3. CASE ~ ChainStart
  <2>1. \/ UNCHANGED result
        \/ \E c \in Calls \ {Ask} : Issued(c)
    BY <1>3, Kinds
    DEF LangChain, ChainStarted, ChainEnd, ChainEnded, RunStart, RunEnd, RunClassified, RunError,
        Retriever, GetRelevantDocuments, Filtered, Stream, StreamStart, StreamRead, StreamEnd,
        ClassifyOf
  <2>2. result'[Ask] = result[Ask]
    BY <2>1, Types, Kinds DEF Issued
  <2> QED BY <1>1, <2>2, WebKept
<1> QED BY <1>2, <1>3

-----------------------------------------------------------------------------
(* The whole. *)

Inv == TypeInv /\ WebInv /\ ContextInv /\ StreamInv

\* The invariant holds initially.
LEMMA InvInit == Init => Inv
<1>1. Init => StreamInv
  BY DEF Init, StreamInv
<1> QED BY <1>1, TypeInit, WebInit, ContextInit DEF Inv

\* Every step keeps the invariant.
LEMMA InvStep == Inv /\ [Next]_vars => Inv'
<1> SUFFICES ASSUME Inv, [Next]_vars
             PROVE  Inv'
  OBVIOUS
<1>0. TypeInv /\ WebInv /\ ContextInv /\ StreamInv
  BY DEF Inv
<1>1. ASSUME UNCHANGED <<chain, runs, contexts>>
      PROVE  ContextInv'
  BY <1>0, <1>1 DEF ContextInv, ContextsReleased
<1>2. ASSUME UNCHANGED stream
      PROVE  StreamInv'
  BY <1>0, <1>2 DEF StreamInv
<1>3. CASE ClientSettles
  <2>1. PICK c \in Calls : Settle(c)
    BY <1>3 DEF ClientSettles
  <2>2. UNCHANGED <<app, web, chain, runs, contexts, fetched, stream>>
    BY <1>3 DEF ClientSettles, appVars
  <2>3. /\ result' \in [Calls -> Promises] /\ result[c] = Pending
        /\ \A d \in Calls \ {c} : result'[d] = result[d]
    BY <1>0, <2>1, Settles DEF TypeInv
  <2>4. TypeInv'
    <3>1. /\ app' \in Options /\ web' \in Web /\ chain' \in ChainState
          /\ runs' \in [Children -> Run] /\ ~ runs'[LLM].own /\ contexts' \in [Runs -> Context]
          /\ fetched' \in Fetched /\ stream' \in StreamState /\ stream'.lost <= stream'.sent
      BY <1>0, <2>2, Types DEF TypeInv
    <3> QED BY <2>3, <3>1, Typed
  <2>5. result[Ask].state # "ok" \/ result'[Ask] = result[Ask]
    BY <2>3, Kinds DEF Pending, Promise
  <2>6. WebInv'
    BY <1>0, <2>2, <2>5, WebKept
  <2> QED BY <1>1, <1>2, <2>2, <2>4, <2>6 DEF Inv
<1>4. CASE Express
  BY <1>0, <1>1, <1>2, <1>4, ExpressTypes, ExpressStep DEF Inv
<1>5. CASE LangChain
  <2>1. TypeInv' /\ ContextInv'
    BY <1>0, <1>5, ChainStep, RunStep DEF LangChain
  <2>2. UNCHANGED stream
    BY <1>5 DEF LangChain, ChainStart, ChainStarted, ChainEnd, ChainEnded, RunStart, RunEnd,
       RunClassified, RunError
  <2> QED BY <1>0, <1>2, <1>5, <2>1, <2>2, OthersStep DEF Inv
<1>6. CASE Retriever
  BY <1>0, <1>1, <1>2, <1>6, RetrieverTypes, OthersStep DEF Inv
<1>7. CASE Stream
  BY <1>0, <1>1, <1>7, StreamStep, OthersStep DEF Inv
<1>8. CASE UNCHANGED vars
  <2>1. UNCHANGED <<result, app, web, chain, runs, contexts, fetched, stream>>
    BY <1>8 DEF vars, appVars
  <2>2. TypeInv'
    <3>1. /\ app' \in Options /\ web' \in Web /\ chain' \in ChainState
          /\ runs' \in [Children -> Run] /\ ~ runs'[LLM].own /\ contexts' \in [Runs -> Context]
          /\ fetched' \in Fetched /\ stream' \in StreamState /\ stream'.lost <= stream'.sent
          /\ result' \in [Calls -> Promises]
      BY <1>0, <2>1, Types DEF TypeInv
    <3> QED BY <3>1, Typed
  <2> QED BY <1>0, <1>1, <1>2, <2>1, <2>2, WebKept DEF Inv
<1> QED BY <1>3, <1>4, <1>5, <1>6, <1>7, <1>8 DEF Next

\* The invariant of the integrations.
LEMMA Invariantly == Spec => []Inv
<1> QED BY InvInit, InvStep, PTL DEF Spec

\* Every variable stays within its type, for any statuses of the gateway and
\* any documents: in particular a status that is sent is a number, whichever
\* error the check ended with.
THEOREM TypeCorrect == Spec => []TypeOK
<1>1. Inv => TypeOK
  BY DEF Inv, TypeInv
<1> QED BY <1>1, Invariantly, PTL

\* The middleware fails closed: secureLensMiddleware hands a request with a
\* query on only when the check is off or skipped or said "allowed", and no
\* later answer takes the place of that one.
THEOREM FailsClosedHolds == Spec => []FailsClosed
<1>1. Inv => FailsClosed
  BY DEF Inv, WebInv, Passed, FailsClosed
<1> QED BY <1>1, Invariantly, PTL

\* secureLensMiddleware and createGateHandler answer a request once: an error
\* or a refusal ends it, and the audit of the response sends nothing.
THEOREM AnsweredOnceHolds == Spec => []AnsweredOnce
<1>1. Inv => AnsweredOnce
  <2> SUFFICES ASSUME Inv
               PROVE  AnsweredOnce
    OBVIOUS
  <2>1. CASE web.pc = "done"
    <3>1. Len(web.sent) = 1
      BY <2>1 DEF Inv, WebInv
    <3> QED BY <3>1 DEF AnsweredOnce
  <2>2. CASE web.pc # "done"
    <3>1. web.sent = <<>>
      BY <2>2 DEF Inv, WebInv
    <3>2. Len(web.sent) = 0
      BY <3>1
    <3> QED BY <2>2, <3>2 DEF AnsweredOnce
  <2> QED BY <2>1, <2>2
<1> QED BY <1>1, Invariantly, PTL

\* SecureLensCallbackHandler.runContexts holds no context of a run that is over,
\* for any number of children that end, fail and are classified in any order.
THEOREM ContextsReleasedHolds == Spec => []ContextsReleased
<1>1. Inv => ContextsReleased
  BY DEF Inv, ContextInv
<1> QED BY <1>1, Invariantly, PTL

\* AIGate.queryStream resolves only after its callback took the final response,
\* for a stream of any length, split in any way.
THEOREM StreamDeliveredHolds == Spec => []StreamDelivered
<1>1. Inv => StreamDelivered
  BY DEF Inv, StreamInv, StreamDelivered
<1> QED BY <1>1, Invariantly, PTL
=============================================================================
