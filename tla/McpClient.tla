------------------------------ MODULE McpClient ------------------------------
(***************************************************************************)
(* One MCPClient (mcp/client.py) shared by several tasks, and the server   *)
(* it talks to (mcp/server.py, mcp/tools.py, api/v1/endpoints/mcp.py), over*)
(* HTTP or over the pipes of a child process.  Every call is of a tool that*)
(* acts (the emergency panic, the kill switch reset); `effects' counts how *)
(* often the server carried each request out.                              *)
(*                                                                         *)
(* A stdio answer is the next line of the pipe: _send_rpc never compares   *)
(* its id with the request's.  An HTTP answer belongs to its request.      *)
(***************************************************************************)
EXTENDS Integers, Sequences, FiniteSets

CONSTANTS
  McpCallers,   \* tasks that share the client
  MaxCalls,     \* bound: request ids
  MaxServers,   \* bound: child processes
  PipeRoom,     \* requests a child may leave unread before drain() waits
  MaxExpiries   \* bound: how often the tokens issued so far expire

ASSUME McpAssumption ==
  /\ {MaxCalls, MaxServers} \subseteq Nat \ {0}
  /\ {PipeRoom, MaxExpiries} \subseteq Nat
  /\ IsFiniteSet(McpCallers)

VARIABLES
  setup,     \* what the constructor was given: transport, credentials, admin role
  nextId,    \* _request_id
  request,   \* of each task: stage, id, the token or process it uses, outcome
  servers,   \* child processes: alive, requests and answers in their pipes
  process,   \* _process: an index into servers, 0 for None
  closing,   \* the process close() is waiting for, 0 when none
  session,   \* HTTP: whether the httpx client exists, and _token
  effects    \* how often each request was carried out

(* History.                                                                *)
VARIABLES
  expiries,
  shifted,   \* processes on which some call gave up, on which two calls overlapped,
             \* or which a call wrote to or read from, but not both
  crossed    \* a spawn overlapped another spawn or a close

mcpVars == <<setup, nextId, request, servers, process, closing, session, effects, expiries, shifted, crossed>>

Quiet == [stage |-> "idle", id |-> 0, token |-> "none", on |-> 0, got |-> 0, outcome |-> "none"]
NewServer == [alive |-> TRUE, in |-> <<>>, out |-> <<>>]

McpInit ==
  /\ setup \in [transport : {"http"}, credentials : BOOLEAN, admin : BOOLEAN]
            \cup [transport : {"stdio"}, credentials : {FALSE}, admin : {TRUE}]
  /\ nextId = 0 /\ request = [c \in McpCallers |-> Quiet]
  /\ servers = <<>> /\ process = 0 /\ closing = 0
  /\ session \in [open : {FALSE}, token : {"none"} \cup (IF setup.transport = "http" THEN {"valid"} ELSE {})]
  /\ effects = [i \in 1..MaxCalls |-> 0]
  /\ expiries = 0 /\ shifted = {} /\ crossed = FALSE

Http == setup.transport = "http"
Alive(p) == p # 0 /\ servers[p].alive
IsConnected == IF Http THEN session.open ELSE Alive(process)
At(stage) == {c \in McpCallers : request[c].stage = stage}
Free(c) == request[c].stage \in {"idle", "ended"}

Ends(r, outcome) == [r EXCEPT !.stage = "ended", !.outcome = outcome]
End(c, outcome) == request' = [request EXCEPT ![c] = Ends(@, outcome)]

(* execute_tool: the stdio server runs every call as ADMIN, the HTTP       *)
(* endpoint under the role of the token.                                   *)
Permitted == ~Http \/ setup.admin
Executed(i) == [effects EXCEPT ![i] = @ + (IF Permitted THEN 1 ELSE 0)]

-----------------------------------------------------------------------------
(* _send_rpc_stdio on process p: write, drain and the start of readline   *)
(* are one step, unless drain has to wait, because p leaves too much unread*)
(* or its stdin is closed by now.  asyncio refuses a second task that would*)
(* wait on the same pipe.                                                  *)
Readers(p) == {c \in At("reading") : request[c].on = p}
Waiting(p) == Readers(p) \cup {c \in At("draining") : request[c].on = p}

ReadsFrom(r, p, now) ==
  IF now[p].out = <<>> /\ Readers(p) # {} THEN Ends([r EXCEPT !.on = p], "runtime")
  ELSE [r EXCEPT !.stage = "reading", !.on = p]

Writes(c, r, p, now) ==
  /\ request' = [request EXCEPT ![c] =
       IF p = closing \/ Len(now[p].in) >= PipeRoom THEN [r EXCEPT !.stage = "draining", !.on = p]
       ELSE ReadsFrom(r, p, now)]
  /\ servers' = IF p = closing THEN now ELSE [now EXCEPT ![p].in = Append(@, r.id)]
  /\ shifted' = IF Waiting(p) = {} THEN shifted ELSE shifted \cup {p}

(* The rest of _send_rpc once connected.                                   *)
Dispatch(c, r) ==
  IF Http
  THEN /\ request' = [request EXCEPT ![c] = [r EXCEPT !.stage = "posting", !.token = session.token]]
       /\ UNCHANGED <<servers, shifted>>
  ELSE Writes(c, r, process, servers)

(* connect(), from __aenter__ (id 0) or from _send_rpc.                    *)
Connect(c, r) ==
  IF Http
  THEN /\ session' = [session EXCEPT !.open = TRUE]
       /\ request' = [request EXCEPT ![c] =
            IF session.token = "none" /\ setup.credentials THEN [r EXCEPT !.stage = "login"]
            ELSE IF r.id = 0 THEN Ends(r, "connected")
            ELSE [r EXCEPT !.stage = "posting", !.token = session.token]]
       /\ UNCHANGED crossed
  ELSE /\ request' = [request EXCEPT ![c] = [r EXCEPT !.stage = "spawning"]]
       /\ crossed' = (crossed \/ closing # 0 \/ At("spawning") # {})
       /\ UNCHANGED session

(* __aenter__ calls connect(), which does nothing on a live connection.    *)
Enter(c) ==
  /\ Free(c)
  /\ ~Alive(process)
  /\ Connect(c, Quiet)
  /\ UNCHANGED <<setup, nextId, servers, process, closing, effects, expiries, shifted>>

(* call_tool whose arguments _validate_tool_call refuses: nothing is sent. *)
CallRefused(c) ==
  /\ Free(c)
  /\ request' = [request EXCEPT ![c] = Ends(Quiet, "schema")]
  /\ UNCHANGED <<setup, nextId, servers, process, closing, session, effects, expiries,
                 shifted, crossed>>

SendRpc(c) ==
  /\ Free(c)
  /\ nextId < MaxCalls
  /\ nextId' = nextId + 1
  /\ LET r == [Quiet EXCEPT !.id = nextId + 1] IN
       IF IsConnected
       THEN Dispatch(c, r) /\ UNCHANGED <<session, crossed>>
       ELSE Connect(c, r) /\ UNCHANGED <<servers, shifted>>
  /\ UNCHANGED <<setup, process, closing, effects, expiries>>

(* create_subprocess_exec returns: the new process replaces whatever       *)
(* _process holds by now.                                                  *)
Spawned(c) ==
  /\ request[c].stage = "spawning"
  /\ Len(servers) < MaxServers
  /\ process' = Len(servers) + 1
  /\ LET now == Append(servers, NewServer) IN
       IF request[c].id = 0
       THEN servers' = now /\ End(c, "connected") /\ UNCHANGED shifted
       ELSE Writes(c, request[c], Len(servers) + 1, now)
  /\ UNCHANGED <<setup, nextId, closing, session, effects, expiries, crossed>>

SpawnFails(c) ==
  /\ request[c].stage = "spawning"
  /\ End(c, "transport")
  /\ UNCHANGED <<setup, nextId, servers, process, closing, session, effects, expiries,
                 shifted, crossed>>

(* drain(), which no timeout bounds, raises or returns; _process is read   *)
(* again, and may be None (an AttributeError) or another child by now.     *)
DrainFails(c) ==
  /\ request[c].stage = "draining"
  /\ request[c].on = closing \/ ~servers[request[c].on].alive
  /\ End(c, "transport")
  /\ shifted' = shifted \cup {request[c].on}
  /\ UNCHANGED <<setup, nextId, servers, process, closing, session, effects, expiries, crossed>>

Drained(c) ==
  /\ request[c].stage = "draining"
  /\ Len(servers[request[c].on].in) <= PipeRoom
  /\ request' = [request EXCEPT ![c] = IF process = 0 THEN Ends(@, "runtime")
                                      ELSE ReadsFrom(@, process, servers)]
  /\ shifted' = IF process = request[c].on THEN shifted
                ELSE shifted \cup {request[c].on, process}
  /\ UNCHANGED <<setup, nextId, servers, process, closing, session, effects, expiries, crossed>>

(* readline() returns a line, or the empty line of a closed pipe.          *)
Reads(c) ==
  /\ request[c].stage = "reading"
  /\ LET p == request[c].on IN
     /\ servers[p].out # <<>>
     /\ request' = [request EXCEPT ![c] = Ends([@ EXCEPT !.got = Head(servers[p].out)], "answered")]
     /\ servers' = [servers EXCEPT ![p].out = Tail(@)]
  /\ UNCHANGED <<setup, nextId, process, closing, session, effects, expiries, shifted, crossed>>

ReadsEof(c) ==
  /\ request[c].stage = "reading"
  /\ ~servers[request[c].on].alive /\ servers[request[c].on].out = <<>>
  /\ End(c, "transport")
  /\ UNCHANGED <<setup, nextId, servers, process, closing, session, effects, expiries,
                 shifted, crossed>>

(* readline() without wait_for.                                            *)
TimesOutOnlyWhenDead(c) ==
  /\ request[c].stage = "reading" /\ ~servers[request[c].on].alive
  /\ End(c, "transport")
  /\ UNCHANGED <<setup, nextId, servers, process, closing, session, effects, expiries,
                 shifted, crossed>>

(* wait_for gives up; the request stays with the server and its answer in  *)
(* the pipe.                                                               *)
TimesOut(c) ==
  /\ request[c].stage = "reading"
  /\ End(c, "transport")
  /\ shifted' = shifted \cup {request[c].on}
  /\ UNCHANGED <<setup, nextId, servers, process, closing, session, effects, expiries, crossed>>

-----------------------------------------------------------------------------
(* handle_mcp_request answers every request once, under its id.            *)
HandleMcpRequest(i) == i

(* run_stdio: one line at a time.  The process may die at any moment, also *)
(* between the tool and the answer; terminate() makes it die.              *)
ServerAnswers(p) ==
  /\ servers[p].alive /\ servers[p].in # <<>>
  /\ effects' = Executed(Head(servers[p].in))
  /\ servers' = [servers EXCEPT ![p].in = Tail(@), ![p].out = Append(@, HandleMcpRequest(Head(servers[p].in)))]
  /\ UNCHANGED <<setup, nextId, request, process, closing, session, expiries, shifted, crossed>>

ServerDies(p) ==
  /\ servers[p].alive
  /\ \/ effects' = effects
     \/ servers[p].in # <<>> /\ effects' = Executed(Head(servers[p].in))
  /\ servers' = [servers EXCEPT ![p].alive = FALSE, ![p].in = <<>>]
  /\ UNCHANGED <<setup, nextId, request, process, closing, session, expiries, shifted, crossed>>

(* close(): stdin is closed, the process terminated and waited for.        *)
Close ==
  /\ closing = 0
  /\ session.open \/ process # 0
  /\ closing' = IF Alive(process) THEN process ELSE 0
  /\ process' = IF Alive(process) THEN process ELSE 0
  /\ session' = [session EXCEPT !.open = FALSE]
  /\ crossed' = (crossed \/ (Alive(process) /\ At("spawning") # {}))
  /\ UNCHANGED <<setup, nextId, request, servers, effects, expiries, shifted>>

(* wait() returns.  _process is cleared, whatever it holds by now.         *)
CloseReturns ==
  /\ closing # 0 /\ ~servers[closing].alive
  /\ process' = 0 /\ closing' = 0
  /\ UNCHANGED <<setup, nextId, request, servers, session, effects, expiries, shifted, crossed>>

-----------------------------------------------------------------------------
(* HTTP.  get_current_user refuses before the handler runs.                *)
PostRefused(c) ==
  /\ request[c].stage \in {"posting", "reposting"} /\ request[c].token # "valid"
  /\ IF request[c].stage = "posting" /\ setup.credentials
     THEN request' = [request EXCEPT ![c].stage = "renewing"]
     ELSE End(c, "auth")
  /\ UNCHANGED <<setup, nextId, servers, process, closing, session, effects, expiries,
                 shifted, crossed>>

PostAnswered(c) ==
  /\ request[c].stage \in {"posting", "reposting"} /\ request[c].token = "valid"
  /\ effects' = Executed(request[c].id)
  /\ request' = [request EXCEPT ![c] = Ends([@ EXCEPT !.got = HandleMcpRequest(request[c].id)], "answered")]
  /\ UNCHANGED <<setup, nextId, servers, process, closing, session, expiries, shifted, crossed>>

(* A client that renews its token after any failed first attempt.          *)
PostLostRenews(c) ==
  /\ request[c].stage \in {"posting", "reposting"}
  /\ \/ effects' = effects
     \/ request[c].token = "valid" /\ effects' = Executed(request[c].id)
  /\ IF request[c].stage = "posting" /\ setup.credentials
     THEN request' = [request EXCEPT ![c].stage = "renewing"]
     ELSE End(c, "transport")
  /\ UNCHANGED <<setup, nextId, servers, process, closing, session, expiries, shifted, crossed>>

(* The connection or the answer is lost, or the status is 400 or more; the *)
(* tool may have run.                                                      *)
PostLost(c) ==
  /\ request[c].stage \in {"posting", "reposting"}
  /\ \/ effects' = effects
     \/ request[c].token = "valid" /\ effects' = Executed(request[c].id)
  /\ End(c, "transport")
  /\ UNCHANGED <<setup, nextId, servers, process, closing, session, expiries, shifted, crossed>>

(* login(), from connect() or after a 401.                                 *)
LoggedIn(c) ==
  /\ request[c].stage \in {"login", "renewing"}
  /\ session' = [open |-> TRUE, token |-> "valid"]
  /\ request' = [request EXCEPT ![c] =
       CASE @.stage = "renewing" -> [@ EXCEPT !.stage = "reposting", !.token = "valid"]
         [] @.id = 0 -> Ends(@, "connected")
         [] OTHER -> [@ EXCEPT !.stage = "posting", !.token = "valid"]]
  /\ UNCHANGED <<setup, nextId, servers, process, closing, effects, expiries, shifted, crossed>>

LoginFails(c) ==
  /\ request[c].stage \in {"login", "renewing"}
  /\ \E outcome \in {"auth", "transport"} : End(c, outcome)
  /\ UNCHANGED <<setup, nextId, servers, process, closing, session, effects, expiries,
                 shifted, crossed>>

(* Every token issued so far expires.                                      *)
TokensExpire ==
  /\ Http /\ expiries < MaxExpiries
  /\ expiries' = expiries + 1
  /\ session' = [session EXCEPT !.token = IF @ = "valid" THEN "expired" ELSE @]
  /\ request' = [c \in McpCallers |->
       [request[c] EXCEPT !.token = IF @ = "valid" THEN "expired" ELSE @]]
  /\ UNCHANGED <<setup, nextId, servers, process, closing, effects, shifted, crossed>>

Proceeds(c) ==
  \/ Spawned(c) \/ SpawnFails(c) \/ DrainFails(c) \/ Drained(c)
  \/ Reads(c) \/ ReadsEof(c) \/ TimesOut(c)
  \/ PostRefused(c) \/ PostAnswered(c) \/ PostLost(c) \/ LoggedIn(c) \/ LoginFails(c)

McpNext ==
  \/ \E c \in McpCallers : Enter(c) \/ CallRefused(c) \/ SendRpc(c) \/ Proceeds(c)
  \/ \E p \in DOMAIN servers : ServerAnswers(p) \/ ServerDies(p)
  \/ Close \/ CloseReturns \/ TokensExpire

(* A task that awaits is resumed: by an answer, or by its timeout; in      *)
(* drain() only once the child read or died.  The child owes nothing.      *)
McpFairness == \A c \in McpCallers : WF_mcpVars(Proceeds(c))

McpSpec == McpInit /\ [][McpNext]_mcpVars /\ McpFairness

-----------------------------------------------------------------------------
(* A call that returns a result returns its own, unless it read it from a  *)
(* child process on which a call had given up on its answer, on which two  *)
(* calls had overlapped, or which was not the one a call had written to.   *)
(* Over HTTP there is no exception.                                        *)
AnswerIsOwn ==
  \A c \in McpCallers :
    request[c].outcome = "answered" /\ request[c].got # request[c].id => request[c].on \in shifted

(* However often the token is renewed, a request is carried out at most    *)
(* once, never without the role, and not at all when the client raises     *)
(* MCPAuthFailureException.                                                *)
CarriedOutOnce ==
  /\ \A i \in 1..MaxCalls : effects[i] <= (IF Permitted THEN 1 ELSE 0)
  /\ \A c \in McpCallers :
       request[c].outcome = "auth" /\ request[c].id # 0 => effects[request[c].id] = 0

(* close() leaves no child behind, and connect() no second one, unless a   *)
(* spawn overlapped another spawn or a close.                              *)
ChildrenAreOwned ==
  \A p \in DOMAIN servers : servers[p].alive /\ p # process => crossed

(* A call gets its own answer, is carried out once, and leaves no child    *)
(* process behind, but for the give-ups and overlaps the parts name.       *)
CallsSafe ==
  /\ AnswerIsOwn
  /\ CarriedOutOnce
  /\ ChildrenAreOwned

(* Every call ends, whatever the server does, but for one: the call whose *)
(* drain() waits for a child that lives, that nobody closes, and that never*)
(* reads on.                                                               *)
Stalled(c) ==
  /\ request[c].stage = "draining" /\ request[c].on # closing
  /\ servers[request[c].on].alive /\ Len(servers[request[c].on].in) > PipeRoom

CallsEnd == \A c \in McpCallers : []<>Free(c) \/ <>[]Stalled(c)
=============================================================================
