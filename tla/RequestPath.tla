---------------------------- MODULE RequestPath ----------------------------
(***************************************************************************)
(* A request from the socket to its answer: HttpServer's rate limit and    *)
(* key check, the OpenAI, Anthropic and native handlers, the preprocessor  *)
(* chain, the generators, the tool loop of a completion, and the calls     *)
(* that plugin code makes back into the host (src/server/,                 *)
(* src/plugin_bridge/plugin_bridge.cpp and hooks/).                        *)
(*                                                                         *)
(* Each request has a thread.  A step is what that thread does between two *)
(* calls into the engine, a plugin or a shared structure.  Requests meet   *)
(* in the rate limiter, in the tool registry, which sidecars change while  *)
(* requests run, and in the outcome counters.                              *)
(*                                                                         *)
(* Plugins and the engine are external: a plugin passes, answers, fails,   *)
(* claims or not, and calls back; the engine fails, or returns a text with *)
(* any calls in it, readable or not.  A conversation is the schemas and    *)
(* the directive in its system message, how many tool results, small and   *)
(* big, follow, and the notice that one was left out.  Of a context's      *)
(* metadata, three keys are kept: the allow-list, the mode and the counter *)
(* of subcalls (its int64 overflow is left out).                           *)
(***************************************************************************)
EXTENDS RateLimiter, ToolRegistry, Integers, FiniteSetsExt

CONSTANTS
    Requests,
    Mixes,         \* the requests clients send, together
    Native,        \* tools registered at start-up
    Announced,     \* tools a sidecar may announce
    Any,           \* the wildcard of an allow-list
    AllowLists,    \* lists plugins may set as agent.allowed_tools
    Written,       \* numbers plugins may set as research.subcall_count
    Called,        \* sequences of names that a text of the model may call
    NPre, NGen,    \* preprocessors and generators registered
    MaxRounds,     \* plugins.tool_max_rounds
    MaxHierarchy,  \* inference.rlm.max_hierarchy_depth
    ContextSize,   \* inference.context_size
    Reserve,       \* max_tokens of a request
    Budgets,       \* what get_token_budget() may return
    SchemaSize, BigSize,
    MaxHost,       \* bound: calls plugins make back for one request
    MaxRemote      \* bound: remote tools registered at a time

ASSUME PathAssumption ==
    /\ Any \notin Tools
    /\ \A c \in Called : c \in Seq(Names)
    /\ NPre \in Nat /\ NGen \in Nat /\ MaxRounds \in Nat /\ MaxHierarchy \in Nat
    /\ ContextSize \in Nat /\ Reserve \in Nat /\ Budgets \subseteq Nat
    /\ SchemaSize \in Nat /\ BigSize \in Nat
    /\ MaxHost \in Nat /\ MaxRemote \in Nat /\ Written \subseteq Int
    /\ Native \in Seq(Entry)
    /\ Announced \subseteq Entry
    /\ IsFiniteSet(Requests)

Tokens == Names \cup (Plugins \X {Any})

Chats == {"chat", "research", "messages"}
Loops == Chats \cup {"completions"}

Shape ==
    [api : Loops \cup {"health", "status", "count_tokens", "debug"},
     client : Clients,
     keyOk : BOOLEAN,
     body : {"ok", "broken", "mistyped"},
     stream : BOOLEAN,
     tools : {"none", "kept", "gated"},  \* "gated": a skill permits none of them
     choice : {"auto", "required", "any", "object", "forced",
               "odd"},               \* "odd": an object with fields of the wrong type
     delegates : BOOLEAN,                \* extra_body.truellm.client_tools
     allow : SUBSET Tokens,          \* the metadata of the request
     research : BOOLEAN,             \* its mode is research; /v1/research asks for
     count : Int,                    \*   it, and a header may take it back
     size : Nat]

ASSUME MixesAssumption ==
    /\ Mixes \subseteq [Requests -> Shape]
    /\ \A l \in AllowLists : l \subseteq Tokens

VARIABLES
    shape,   \* per request, what the client sent
    rq,      \* per request, its handler's state
    loaded,  \* is_model_loaded()
    totals   \* what chat_outcomes_ and research_outcomes_ count

requestVars == <<shape, rq, totals>>
vars == <<limiterVars, registryVars, shape, rq, loaded, totals>>

Frame == [kind : {"prep", "gen", "engine", "tool", "remote"}, nth : Nat,
          name : Qualified \cup {<<>>}]

\* What the prompt of a conversation is rendered from.
Rendering(c) == [offer |-> c.offer, must |-> c.must, small |-> c.small, big |-> c.big,
                 notice |-> c.notice]

Blank == [offer |-> "none", must |-> "no", small |-> 0, big |-> 0, notice |-> FALSE,
          lastBig |-> FALSE]

\* History: ctx.made counts the engine calls of plugins that generated, and
\* ctx.written says that somebody wrote their counter; loop.given counts the
\* results that tools gave.
Fresh ==
    [at |-> "idle",
     out |-> [status |-> 0, by |-> "none", finish |-> "none"],
     ctx |-> [held |-> "none", allow |-> {}, research |-> FALSE, sub |-> 0, made |-> 0,
              written |-> FALSE],
     conv |-> Blank,
     prompt |-> Rendering(Blank),
     loop |-> [ok |-> FALSE, calls |-> <<>>, given |-> 0, shown |-> 0, round |-> 0],
     stack |-> <<>>,
     host |-> 0]

Init ==
    /\ LimiterInit
    /\ entries = Native /\ remote = <<>> /\ schemas = NamesOf(Native)
    /\ shape \in Mixes
    /\ rq = [r \in Requests |-> Fresh]
    /\ loaded \in BOOLEAN
    /\ totals = [chat |-> 0, research |-> 0, subcalls |-> 0]

Put(r, q) == rq' = [rq EXCEPT ![r] = q]

\* translate_request: the chat handler never streams to it, and what a skill
\* permits narrows the tools; without tools there is no choice either.
HasClientTools(r) == shape[r].tools = "kept"
Streams(r) == shape[r].stream /\ shape[r].api # "messages"
Choice(r) ==
    LET c == shape[r].choice IN
    IF shape[r].api # "messages" THEN c
    ELSE CASE HasClientTools(r) /\ c = "any"    -> "required"
           [] HasClientTools(r) /\ c = "forced" -> c
           [] OTHER                             -> "auto"
Delegates(r) == shape[r].delegates \/ HasClientTools(r) \/ shape[r].api = "messages"

\* A choice given as an object is not looked at here.
Requested(r) == HasClientTools(r) \/ Choice(r) \in {"required", "any"}

-----------------------------------------------------------------------------
(* The end of a request *)

IsChat(r) == shape[r].api \in Chats

\* The recorder counts a chat whose context it still holds, as research when
\* the metadata says so by then.
Record(r, q) ==
    LET inc == IF q.ctx.research THEN 1 ELSE 0 IN
    totals' = IF IsChat(r) /\ q.ctx.held \in {"held", "stream"}
              THEN [chat |-> totals.chat + 1, research |-> totals.research + inc,
                    subcalls |-> totals.subcalls + inc * q.ctx.sub]
              ELSE totals

Dropped(q) == [q EXCEPT !.ctx.held = IF @ = "none" THEN "none" ELSE "gone"]

End(r, q, status) ==
    /\ Put(r, [Dropped(q) EXCEPT !.at = "done", !.out.status = status])
    /\ Record(r, q)

EndOk(r, q, by) == End(r, [q EXCEPT !.out.by = by], 200)

-----------------------------------------------------------------------------
(* HttpServer and the first lines of each handler *)

Goto(r, at) == Put(r, [rq[r] EXCEPT !.at = at]) /\ UNCHANGED totals

\* The pre-routing handler: the health probe is not limited.
Arrive(r) ==
    /\ rq[r].at = "idle"
    /\ IF shape[r].api = "health"
       THEN EndOk(r, rq[r], "direct") /\ UNCHANGED limiterVars
       ELSE /\ TryAcquire(shape[r].client)
            /\ IF Grants(shape[r].client) THEN Goto(r, "auth") ELSE End(r, rq[r], 429)
    /\ UNCHANGED <<registryVars, shape, loaded>>

CheckAuth(r) ==
    /\ rq[r].at = "auth"
    /\ IF shape[r].keyOk THEN Goto(r, "parse") ELSE End(r, rq[r], 401)
    /\ UNCHANGED <<limiterVars, registryVars, shape, loaded>>

\* The body is parsed before the model is asked for, and a field of the wrong
\* type is an exception; /v1/messages reads fields before it asks.
Verdict(s) ==
    IF s.api = "status" THEN 200
    ELSE IF s.body = "broken" THEN 400
    ELSE IF s.api \in {"messages", "debug"} /\ s.body = "mistyped" THEN 500
    ELSE IF s.api # "debug" /\ ~loaded THEN 503
    ELSE IF s.body = "mistyped" THEN 500
    ELSE 200

\* The status endpoints and count_tokens read, and change nothing.
IsStatus(s) == s.api = "status"
CountsTokens(s) == s.api = "count_tokens"
Reports(s) == IsStatus(s) \/ CountsTokens(s)
Report(r) == EndOk(r, rq[r], "direct")

\* The context of a request, with the metadata the client sent.
Opened(q, s) == [q EXCEPT !.at = IF s.api = "debug" THEN "debug" ELSE "prepare",
                          !.ctx = [held |-> "held", allow |-> s.allow,
                                   research |-> s.research, sub |-> s.count, made |-> 0,
                                   written |-> s.count # 0]]

\* The handler of a completion or of a debug dispatch makes a context.
Parse(r) ==
    LET s == shape[r] IN
    /\ rq[r].at = "parse"
    /\ IF Verdict(s) # 200 THEN End(r, rq[r], Verdict(s))
       ELSE IF Reports(s) THEN Report(r)
       ELSE Put(r, Opened(rq[r], s)) /\ UNCHANGED totals
    /\ UNCHANGED <<limiterVars, registryVars, shape, loaded>>

-----------------------------------------------------------------------------
(* Plugin frames *)

Push(q, kind, nth, name) ==
    [q EXCEPT !.stack = Append(@, [kind |-> kind, nth |-> nth, name |-> name])]

Top(q) == q.stack[Len(q.stack)]
Pop(q) == [q EXCEPT !.stack = SubSeq(@, 1, Len(@) - 1)]

\* PreprocessorChain::run, from the n-th on; what follows a chain that passes
\* is the router's next step.
RunChain(q, n) ==
    IF n <= NPre THEN Push(q, "prep", n, <<>>)
    ELSE [q EXCEPT !.at = "inject"]

Prepare(r) ==
    /\ rq[r].at = "prepare"
    /\ Put(r, RunChain([rq[r] EXCEPT !.at = "prep"], 1))
    /\ UNCHANGED <<totals, limiterVars, registryVars, shape, loaded>>

\* An engine call of a plugin ends: one that generated is added to the
\* context's usage, one that failed is not.
SubCall(q, ok) == IF ok THEN [q EXCEPT !.ctx.sub = @ + 1, !.ctx.made = @ + 1] ELSE q

\* Bug: a chain that answers a call_engine itself does not return to its caller.
BugPrepReturn(r) ==
    LET q == Pop(rq[r])
        n == Top(rq[r]).nth
    IN
    /\ rq[r].stack # <<>> /\ Top(rq[r]).kind = "prep"
    /\ IF q.stack = <<>>
       THEN \/ Put(r, RunChain(q, n + 1)) /\ UNCHANGED totals
            \/ EndOk(r, q, "prep")
            \/ End(r, q, 400)
       ELSE /\ \/ n < NPre /\ Put(r, Push(q, "prep", n + 1, <<>>))
               \/ n = NPre /\ \E ok \in BOOLEAN : Put(r, SubCall(Pop(q), ok))
               \/ Put(r, q)
            /\ UNCHANGED totals
    /\ UNCHANGED <<limiterVars, registryVars, shape, loaded>>

\* The chain runs for the router, or for a call_engine that asked for it.  A
\* preprocessor passes on, answers itself or aborts.
PrepReturn(r) ==
    LET q == Pop(rq[r])
        n == Top(rq[r]).nth
    IN
    /\ rq[r].stack # <<>> /\ Top(rq[r]).kind = "prep"
    /\ IF q.stack = <<>>
       THEN \/ Put(r, RunChain(q, n + 1)) /\ UNCHANGED totals
            \/ EndOk(r, q, "prep")
            \/ End(r, q, 400)
       ELSE /\ \/ n < NPre /\ Put(r, Push(q, "prep", n + 1, <<>>))
               \/ n = NPre /\ \E ok \in BOOLEAN : Put(r, SubCall(Pop(q), ok))
               \/ Put(r, Pop(q))
            /\ UNCHANGED totals
    /\ UNCHANGED <<limiterVars, registryVars, shape, loaded>>

\* Plugin code of this process can call the host.
CallsHost(r) ==
    /\ rq[r].stack # <<>>
    /\ Top(rq[r]).kind \in {"prep", "gen", "tool"}
    /\ rq[r].host < MaxHost

HostCalled(q) == [q EXCEPT !.host = @ + 1]

\* set_context_metadata writes any key.
SetMetadata(r) ==
    LET q == HostCalled(rq[r]) IN
    /\ CallsHost(r)
    /\ \/ \E l \in AllowLists : Put(r, [q EXCEPT !.ctx.allow = l])
       \/ \E b \in BOOLEAN : Put(r, [q EXCEPT !.ctx.research = b])
       \/ \E n \in Written : Put(r, [q EXCEPT !.ctx.sub = n, !.ctx.written = TRUE])
    /\ UNCHANGED <<totals, limiterVars, registryVars, shape, loaded>>

\* call_engine: a context's recursion_depth is 0 and stays 0, so it is only a
\* limit of 0 that refuses.
CallEngine(r) ==
    LET q == HostCalled(rq[r]) IN
    /\ CallsHost(r)
    /\ IF 0 + 1 > MaxHierarchy
       THEN Put(r, q)
       ELSE \/ \E ok \in BOOLEAN : Put(r, SubCall(q, ok))
            \/ NPre > 0 /\ Put(r, Push(Push(q, "engine", 0, <<>>), "prep", 1, <<>>))
    /\ UNCHANGED <<totals, limiterVars, registryVars, shape, loaded>>

\* Bug: a short name is allowed when some listed tool has it.
BugIsToolAllowed(name, allow) ==
    \/ allow = {}
    \/ \E token \in allow : token[2] = name[2]

\* is_tool_allowed: the name as it was called, or its short form, or the
\* plugin of a qualified name.
IsToolAllowed(name, allow) ==
    \/ allow = {}
    \/ name \in allow
    \/ ShortOf(name) \in allow
    \/ <<name[1], Any>> \in allow

\* ToolRegistry::dispatch looks the name up under the lock and calls outside it.
Started(q, name) ==
    Push(q, IF Index(name) <= Len(entries) THEN "tool" ELSE "remote", 0, Lookup(name).name)

\* call_tool
CallTool(r) ==
    LET q == HostCalled(rq[r]) IN
    /\ CallsHost(r)
    /\ \E name \in Names :
           Put(r, IF IsToolAllowed(name, q.ctx.allow) /\ Index(name) # NotFound
                  THEN Started(q, name) ELSE q)
    /\ UNCHANGED <<totals, limiterVars, registryVars, shape, loaded>>

-----------------------------------------------------------------------------
(* Tool schemas and generators *)

Base(r) == shape[r].size

Size(r, p) ==
    Base(r) + (IF p.offer = "none" THEN 0 ELSE SchemaSize) + p.small + p.big * BigSize
        + (IF p.notice THEN 1 ELSE 0)

Render(q) == [q EXCEPT !.prompt = Rendering(q.conv)]

\* The client's schemas go before the registry's.
Offered(r) == IF IsChat(r) /\ HasClientTools(r) THEN "client"
              ELSE IF HasTools THEN "server" ELSE "none"

Injected(r) ==
    LET offer == Offered(r) IN
    Render([rq[r] EXCEPT
        !.conv.offer = offer,
        !.conv.must = IF offer = "none" \/ ~IsChat(r) THEN "no"
                 ELSE CASE Choice(r) \in {"required", "object"} -> "any"
                        [] Choice(r) = "forced" -> "that"
                        [] OTHER -> "no"])

UsesGenerators(r) == IsChat(r) /\ ~Requested(r) /\ NGen > 0

\* Bug: the tokens of the bloated prompt are kept.
BugReverted(q) == [q EXCEPT !.conv.offer = "none", !.conv.must = "no"]

\* When the schemas make it overflow, the conversation goes back to what it was.
Reverted(q) == Render([q EXCEPT !.conv.offer = "none", !.conv.must = "no"])

\* A stream without tools in play is written as it is generated, after the
\* handler has returned.
Dispatching(r, q) ==
    IF Streams(r) /\ (~IsChat(r) \/ (~Requested(r) /\ ~HasTools))
    THEN Put(r, [Dropped(q) EXCEPT !.at = "live"]) /\ Record(r, q)
    ELSE Put(r, [q EXCEPT !.at = "infer"]) /\ UNCHANGED totals

\* An exception leaves the handler, and the recorder runs.
Inject(r) ==
    LET q == Injected(r)
        over == UsesGenerators(r) /\ ContextSize > 0
                    /\ Size(r, q.prompt) + Reserve > ContextSize
        p == IF over /\ q.conv.offer # "none" THEN Reverted(q) ELSE q
    IN
    /\ rq[r].at = "inject"
    /\ IF IsChat(r) /\ Choice(r) = "odd"
       THEN End(r, rq[r], 500)
       ELSE IF UsesGenerators(r)
       THEN Put(r, [p EXCEPT !.at = "claim"]) /\ UNCHANGED totals
       ELSE Dispatching(r, p)
    /\ UNCHANGED <<limiterVars, registryVars, shape, loaded>>

\* Bug: the recorder keeps the context the stream has taken.
BugClaimed(r, q) ==
    IF Streams(r)
    THEN Put(r, [q EXCEPT !.at = "stream", !.ctx.held = "stream"]) /\ Record(r, q)
    ELSE Put(r, Push([q EXCEPT !.at = "gen"], "gen", 0, <<>>)) /\ UNCHANGED totals

\* Bug: the outcome is recorded when the stream takes over, before it runs.
BugEarlyRecord(r, q) ==
    IF Streams(r)
    THEN Put(r, [Dropped(q) EXCEPT !.at = "stream"]) /\ Record(r, q)
    ELSE Put(r, Push([q EXCEPT !.at = "gen"], "gen", 0, <<>>)) /\ UNCHANGED totals

\* A claimed stream takes the context with it and runs after the handler.
Claimed(r, q) ==
    /\ IF Streams(r)
       THEN Put(r, [q EXCEPT !.at = "stream", !.ctx.held = "stream"])
       ELSE Put(r, Push([q EXCEPT !.at = "gen"], "gen", 0, <<>>))
    /\ UNCHANGED totals

Claim(r) ==
    /\ rq[r].at = "claim"
    /\ Claimed(r, rq[r]) \/ Dispatching(r, rq[r])
    /\ UNCHANGED <<limiterVars, registryVars, shape, loaded>>

\* The stream asks the generators again whether they claim the request.
GenStream(r) ==
    /\ rq[r].at = "stream"
    /\ \/ Put(r, Push([rq[r] EXCEPT !.at = "gen"], "gen", 0, <<>>)) /\ UNCHANGED totals
       \/ EndOk(r, rq[r], "gen")
    /\ UNCHANGED <<limiterVars, registryVars, shape, loaded>>

\* A stream has its status before its generator can fail.
GenReturn(r) ==
    LET q == [Pop(rq[r]) EXCEPT !.out.finish = "stop"] IN
    /\ rq[r].stack # <<>> /\ Top(rq[r]).kind = "gen"
    /\ \E ok \in BOOLEAN : IF ok \/ Streams(r) THEN EndOk(r, q, "gen")
                                               ELSE End(r, q, 503)
    /\ UNCHANGED <<limiterVars, registryVars, shape, loaded>>

Live(r) ==
    /\ rq[r].at = "live"
    /\ EndOk(r, rq[r], "live")
    /\ UNCHANGED <<limiterVars, registryVars, shape, loaded>>

\* The client is gone, or the server stops, before the stream is asked for its
\* first part: nothing of it runs, and a context it has taken is not recorded.
Hangup(r) ==
    /\ rq[r].at \in {"stream", "live"}
    /\ Put(r, [rq[r] EXCEPT !.at = "done", !.ctx.held = IF @ = "stream" THEN "lost" ELSE @])
    /\ UNCHANGED <<totals, limiterVars, registryVars, shape, loaded>>

-----------------------------------------------------------------------------
(* The tool loop *)

Generated(q, calls) ==
    [q EXCEPT !.loop.ok = TRUE, !.loop.calls = calls,
              !.loop.shown = q.prompt.small + q.prompt.big]

\* What the handler does with a text: answer with it, hand its calls to the
\* client, or run them.
Considered(r, q) ==
    CASE q.loop.calls = <<>> \/ (~IsChat(r) /\ ~HasTools) -> [q EXCEPT !.at = "answer"]
      [] q.loop.calls # <<>> /\ IsChat(r) /\ Delegates(r) ->
             [q EXCEPT !.at = "answer", !.out.finish = "tool_calls"]
      [] q.loop.calls # <<>> /\ IsChat(r) /\ ~Delegates(r) /\ ~HasTools ->
             [q EXCEPT !.at = "answer"]
      [] OTHER -> [q EXCEPT !.at = "tool"]

\* Bug: an error ends the loop like a plain text.
BugInfer(r) ==
    /\ rq[r].at = "infer"
    /\ \/ /\ Size(r, rq[r].prompt) <= ContextSize
          /\ \E calls \in Called : Put(r, Considered(r, Generated(rq[r], calls)))
       \/ Put(r, [rq[r] EXCEPT !.loop.ok = FALSE, !.at = "answer"])
    /\ UNCHANGED <<totals, limiterVars, registryVars, shape, loaded>>

\* A text holds calls or none; calls that cannot be read are an exception.
ParseToolCalls(r) ==
    \/ /\ \E calls \in Called : Put(r, Considered(r, Generated(rq[r], calls)))
       /\ UNCHANGED totals
    \/ End(r, rq[r], 500)

\* The engine refuses a prompt longer than its context.
Infer(r) ==
    /\ rq[r].at = "infer"
    /\ \/ Size(r, rq[r].prompt) <= ContextSize /\ ParseToolCalls(r)
       \/ End(r, [rq[r] EXCEPT !.loop.ok = FALSE], 503)
    /\ UNCHANGED <<limiterVars, registryVars, shape, loaded>>

WithMessage(c, isBig) ==
    [c EXCEPT !.small = IF isBig THEN @ ELSE @ + 1, !.big = IF isBig THEN @ + 1 ELSE @,
              !.lastBig = isBig]

\* A result becomes the last tool message of the conversation.
WithResult(q, isBig) ==
    [q EXCEPT !.loop.calls = Tail(@), !.loop.given = @ + 1, !.conv = WithMessage(@, isBig)]

\* The next call of the round: a refusal or a missing tool is its result, and a
\* call that is no object an exception.
Tool(r) ==
    LET q == rq[r]
        name == Head(q.loop.calls)
    IN
    /\ q.at = "tool" /\ q.stack = <<>> /\ q.loop.calls # <<>>
    /\ \/ /\ Put(r, IF IsToolAllowed(name, q.ctx.allow) /\ Index(name) # NotFound
                    THEN Started(q, name) ELSE WithResult(q, FALSE))
          /\ UNCHANGED totals
       \/ End(r, q, 500)
    /\ UNCHANGED <<limiterVars, registryVars, shape, loaded>>

\* tools_dispatch, for tests: no allow-list is looked at.
DebugDispatch(r) ==
    /\ rq[r].at = "debug" /\ rq[r].stack = <<>>
    /\ \E name \in Names :
           IF Index(name) # NotFound
           THEN Put(r, Started(rq[r], name)) /\ UNCHANGED totals
           ELSE EndOk(r, rq[r], "direct")
    /\ UNCHANGED <<limiterVars, registryVars, shape, loaded>>

\* The tool returns to the loop, to the debug handler or to the plugin that
\* called it.
ToolReturn(r) ==
    LET q == Pop(rq[r]) IN
    /\ rq[r].stack # <<>> /\ Top(rq[r]).kind \in {"tool", "remote"}
    /\ IF q.stack = <<>> /\ q.at = "debug"
       THEN EndOk(r, q, "direct")
       ELSE /\ \E isBig \in BOOLEAN : Put(r, IF q.stack = <<>> THEN WithResult(q, isBig) ELSE q)
            /\ UNCHANGED totals
    /\ UNCHANGED <<limiterVars, registryVars, shape, loaded>>

\* The context splitter reduces big results, to a summary or by cutting; it may
\* leave them big.
Split(c, left, last) ==
    [c EXCEPT !.small = @ + (c.big - left), !.big = left, !.lastBig = last]

\* Bug: the loop ends one round early.
BugNextRound(q) ==
    [q EXCEPT !.loop.round = @ + 1,
              !.at = IF q.loop.round + 1 < MaxRounds THEN "infer" ELSE "answer"]

\* Bug: the limit is not looked at.
BugRounds(q) == [q EXCEPT !.loop.round = @ + 1, !.at = "infer"]

NextRound(q) ==
    [q EXCEPT !.loop.round = @ + 1,
              !.at = IF q.loop.round + 1 <= MaxRounds THEN "infer" ELSE "answer"]

\* Over budget: a notice replaces the last result, and one more text is
\* generated.
Notice(c) ==
    [c EXCEPT !.small = IF c.lastBig THEN @ ELSE @ - 1,
              !.big = IF c.lastBig THEN @ - 1 ELSE @,
              !.notice = TRUE, !.lastBig = FALSE]

Trimmed(q) == Render([q EXCEPT !.at = "final", !.conv = Notice(@)])

\* All calls of the round are answered.  The directive to call one of the
\* tools is taken out; the one to call a given tool has another text, and stays.
EndRound(r) ==
    LET q == [rq[r] EXCEPT !.conv.must = IF @ = "any" THEN "no" ELSE @] IN
    /\ rq[r].at = "tool" /\ rq[r].stack = <<>> /\ rq[r].loop.calls = <<>>
    /\ IF ~IsChat(r)
       THEN Put(r, NextRound(Render(rq[r])))
       ELSE \E left \in 0 .. q.conv.big : \E last \in BOOLEAN :
                LET s == Render([q EXCEPT !.conv = Split(@, left, last)]) IN
                /\ last => q.conv.lastBig /\ left > 0
                /\ left = q.conv.big => last = q.conv.lastBig
                /\ \E budget \in Budgets :
                       Put(r, IF budget > 0 /\ Size(r, s.prompt) >= budget
                              THEN Trimmed(s) ELSE NextRound(s))
    /\ UNCHANGED <<totals, limiterVars, registryVars, shape, loaded>>

\* The error of this last inference is not looked at.
Final(r) ==
    /\ rq[r].at = "final"
    /\ \/ /\ Size(r, rq[r].prompt) <= ContextSize
          /\ \E calls \in Called :
                 Put(r, [Generated(rq[r], calls) EXCEPT !.loop.round = @ + 1, !.at = "answer"])
       \/ Put(r, [rq[r] EXCEPT !.loop.ok = FALSE, !.loop.round = @ + 1, !.at = "answer"])
    /\ UNCHANGED <<totals, limiterVars, registryVars, shape, loaded>>

\* The answer, with the usage of the engine calls plugins made, as one document
\* or replayed as a stream.
Answer(r) ==
    /\ rq[r].at = "answer"
    /\ EndOk(r, [rq[r] EXCEPT !.out.finish = IF @ = "none" THEN "stop" ELSE @], "loop")
    /\ UNCHANGED <<limiterVars, registryVars, shape, loaded>>

-----------------------------------------------------------------------------
(* Sidecars announce tools, and lose them when they are restarted *)

Announce ==
    /\ Len(remote) < MaxRemote
    /\ \E e \in Announced : RegisterRemote(e)
    /\ UNCHANGED <<limiterVars, requestVars, loaded>>

Withdraw ==
    /\ \E p \in Plugins : UnregisterRemotePlugin(p)
    /\ UNCHANGED <<limiterVars, requestVars, loaded>>

Pass == Tick /\ UNCHANGED <<registryVars, requestVars, loaded>>

Serve(r) ==
    \/ Arrive(r) \/ CheckAuth(r) \/ Parse(r) \/ Prepare(r) \/ PrepReturn(r)
    \/ SetMetadata(r) \/ CallEngine(r) \/ CallTool(r)
    \/ Inject(r) \/ Claim(r) \/ GenStream(r) \/ GenReturn(r) \/ Live(r) \/ Hangup(r)
    \/ Infer(r) \/ Tool(r) \/ DebugDispatch(r) \/ ToolReturn(r) \/ EndRound(r)
    \/ Final(r) \/ Answer(r)

Next ==
    \/ \E r \in Requests : Serve(r)
    \/ Announce \/ Withdraw \/ Pass

\* Each request has its thread, the engine and plugins return.
Spec == Init /\ [][Next]_vars /\ \A r \in Requests : WF_vars(Serve(r))

-----------------------------------------------------------------------------
(* Properties *)

Prompt == [offer : {"none", "client", "server"}, must : {"no", "any", "that"},
           small : Nat, big : Nat, notice : BOOLEAN]
Conversation == [offer : {"none", "client", "server"}, must : {"no", "any", "that"},
                 small : Nat, big : Nat, notice : BOOLEAN, lastBig : BOOLEAN]
Context == [held : {"none", "held", "stream", "gone", "lost"}, allow : SUBSET Tokens,
            research : BOOLEAN, sub : Int, made : Nat, written : BOOLEAN]
Outcome == [status : {0, 200, 400, 401, 429, 500, 503},
            by : {"none", "direct", "prep", "gen", "live", "loop"},
            finish : {"none", "stop", "tool_calls"}]
Loop == [ok : BOOLEAN, calls : Seq(Names), given : Nat, shown : Nat,
         round : 0 .. MaxRounds + 1]
Stage == {"idle", "auth", "parse", "prepare", "prep", "inject", "claim", "stream", "gen",
          "live", "infer", "tool", "debug", "final", "answer", "done"}

State ==
    [at : Stage, out : Outcome, ctx : Context, conv : Conversation, prompt : Prompt,
     loop : Loop, stack : Seq(Frame), host : Nat]

\* The tool loop never passes its limit by more than the round it ends with.
TypeOK ==
    /\ LimiterTypeOK
    /\ RegistryTypeOK
    /\ shape \in [Requests -> Shape]
    /\ rq \in [Requests -> State]
    /\ loaded \in BOOLEAN
    /\ totals \in [chat : Nat, research : Nat, subcalls : Int]

InScope(name, allow) ==
    \/ allow = {}
    \/ name \in allow \/ ShortOf(name) \in allow
    \/ <<name[1], Any>> \in allow

Runs(q) == q.stack # <<>> /\ Top(q).kind \in {"tool", "remote"}

\* A tool that runs for a request is one its allow-list names, by its own name,
\* by its short name or by its plugin, whatever name it was called by, whoever
\* called it, and whatever the sidecars announced in between.  Only the debug
\* endpoint itself looks at no list.
DispatchInScope ==
    [][\A r \in Requests :
           /\ Runs(rq'[r]) /\ Len(rq'[r].stack) > Len(rq[r].stack)
           /\ rq[r].at # "debug" \/ rq[r].stack # <<>>
           => InScope(Top(rq'[r]).name, rq[r].ctx.allow)]_vars

\* What is sent to the engine or shown to a generator is the conversation as it
\* stands, after injection, its reversal, new results, splitting and trimming.
\* Once a tool has answered, the demand to call one of the tools is not in it;
\* the demand to call a given tool may be.
PromptFresh ==
    \A r \in Requests :
        LET q == rq[r] IN
        q.at \in {"claim", "infer", "final", "answer"} =>
            /\ q.prompt = Rendering(q.conv)
            /\ IsChat(r) /\ q.loop.round > 0 => q.conv.must # "any"

\* An answer of the tool loop was generated from every result that tools gave
\* the request, or, when the prompt was trimmed, from all but the one that the
\* notice replaced; unless the rounds ran out before, or the inference on the
\* trimmed prompt failed.
ResultsReachModel ==
    \A r \in Requests :
        LET q == rq[r] IN
        q.out.by = "loop" =>
            \/ q.loop.shown = IF q.conv.notice THEN q.loop.given - 1 ELSE q.loop.given
            \/ ~q.conv.notice /\ q.loop.round = MaxRounds + 1
            \/ q.conv.notice /\ ~q.loop.ok

\* A success of the tool loop stands on a text the engine generated, but for
\* the trimmed prompt.  Calls are handed to the client exactly when it asked for
\* them, and then none was run for it.
AnswersAreBacked ==
    \A r \in Requests :
        LET q == rq[r] IN
        q.out.by = "loop" =>
            /\ q.loop.ok \/ q.conv.notice
            /\ q.out.finish = "tool_calls" <=>
                   IsChat(r) /\ Delegates(r) /\ q.loop.calls # <<>>
            /\ IsChat(r) /\ Delegates(r) => q.loop.round = 0 /\ q.loop.given = 0

Counted == {r \in Requests : IsChat(r) /\ rq[r].ctx.held = "gone"}
Researched == {r \in Counted : rq[r].ctx.research}

\* Every chat that made a context is counted once when it ends, however it ends
\* and whoever holds the context by then, and as research when its metadata
\* says so at that time.  The one exception is a stream that a generator had
\* claimed and that was never run: it is not counted at all.
OutcomesExact ==
    /\ totals.chat = Cardinality(Counted)
    /\ totals.research = Cardinality(Researched)
    /\ \A r \in Requests :
           /\ rq[r].at = "done" => rq[r].ctx.held \in {"none", "gone", "lost"}
           /\ rq[r].ctx.held = "lost" => Streams(r) /\ rq[r].out.by = "none"

\* The total is what the contexts of the counted research requests hold at
\* their end, a generator's whose stream outlived its handler too; and where
\* neither the client nor a plugin wrote the counter, that is the number of
\* engine calls that plugins made for the request and that generated.
SubcallsCounted ==
    /\ totals.subcalls = MapThenSumSet(LAMBDA r : rq[r].ctx.sub, Researched)
    /\ \A r \in Researched : ~rq[r].ctx.written => rq[r].ctx.sub = rq[r].ctx.made

\* Every request that arrives is answered, or its stream is given up before it
\* ran.
Answered == \A r \in Requests : rq[r].at # "idle" ~> rq[r].at = "done"
=============================================================================
