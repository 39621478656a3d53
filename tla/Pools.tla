-------------------------------- MODULE Pools --------------------------------
(* What an attempt borrows from the worker process before it can submit: an     *)
(* exit (a local Mihomo process or a native node, app/proxy_manager.py), an     *)
(* endpoint of the proxy API (app/api_proxy_pool.py) and a context of a pooled  *)
(* browser (app/browser_runtime.py).  An operator takes the slots of a pool to  *)
(* the slots after one critical section of the pool's condition.                *)
EXTENDS Naturals, FiniteSets

CONSTANTS
  Node,          \* nodes of the proxy subscription
  NativeNode,    \* the ones a browser can use without a Mihomo process
  Entry,         \* authenticated SOCKS entries (account proxies)
  Endpoint,      \* endpoints the proxy API hands out
  NoNode,
  Address,       \* public addresses of exits
  ExitSlot,      \* TASK_MIHOMO_MAX_SLOTS of them
  ApiSlot,       \* max_endpoints of them
  BrowserSlot,   \* max_processes of them
  NoSlot,
  PerEndpoint    \* contexts_per_endpoint

ASSUME PoolConstants ==
  /\ NativeNode \subseteq Node
  /\ \A S \in {ExitSlot, ApiSlot, BrowserSlot} : IsFiniteSet(S) /\ S # {} /\ NoSlot \notin S
  /\ ExitSlot \cap ApiSlot = {} /\ (ExitSlot \cup ApiSlot) \cap BrowserSlot = {}
  /\ Address \cap (Node \cup Entry \cup {NoNode}) = {}
  /\ (Node \cup Entry \cup Endpoint) \cap (ExitSlot \cup {NoNode, "direct", "old"}) = {}
  /\ ExitSlot \cap {NoNode, "direct", "old"} = {}
  /\ Node \cap Entry = {} /\ (Node \cup Entry) \cap Endpoint = {}
  /\ PerEndpoint \in Nat \ {0}

Present(p) == {s \in DOMAIN p : p[s].use # "free"}
Vacant(p) == DOMAIN p \ Present(p)

-----------------------------------------------------------------------------
(* Exits.  _TaskMihomoSlot: use tells a slot of the subscription from a bridge  *)
(* for a SOCKS entry, fresh that the subscription is still the one of the slot, *)
(* exit is exit_id: an address, or the node when the address is not known.  An  *)
(* exit serves one context (TASK_MIHOMO_CONTEXTS_PER_EXIT is 1).                *)
Exit == [use       : {"free", "subscription", "bridge"},
         node      : Node \cup Entry \cup {NoNode},
         active    : 0..1,
         launching : BOOLEAN,
         retiring  : BOOLEAN,
         fresh     : BOOLEAN,
         up        : BOOLEAN,
         exit      : Address \cup Node \cup Entry \cup {NoNode}]

NoExit == [use |-> "free", node |-> NoNode, active |-> 0, launching |-> FALSE,
           retiring |-> FALSE, fresh |-> TRUE, up |-> TRUE, exit |-> NoNode]

\* A new slot: already leased to the one that launches it.
NewExit(use, node, launching, exit) ==
  [NoExit EXCEPT !.use = use, !.node = node, !.active = 1, !.launching = launching,
                 !.exit = exit]

Remove(p, S, none) == [s \in DOMAIN p |-> IF s \in S THEN none ELSE p[s]]

\* Mutant: a retired slot is dropped though its lease has not come back.
RetireLeased(e, gone) == Remove(e, {s \in Present(e) : s \in gone /\ ~e[s].launching}, NoExit)

\* The first loop of both acquire functions: the slots of gone are retired, and a
\* retired slot that nobody uses is dropped.
Retire(e, gone) ==
  LET m == [s \in DOMAIN e |-> IF s \in gone THEN [e[s] EXCEPT !.retiring = TRUE] ELSE e[s]]
  IN Remove(m, {s \in Present(m) : m[s].retiring /\ m[s].active = 0 /\ ~m[s].launching}, NoExit)

\* _acquire_task_mihomo_proxy retires whatever is not of its subscription and
\* selection, the bridges too.
SweepForNode(e, allowed, cooling) ==
  Retire(e, {s \in Present(e) : \/ e[s].use = "bridge" \/ ~e[s].fresh
                                \/ e[s].node \in cooling \/ e[s].node \notin allowed
                                \/ ~e[s].up})

\* acquire_authenticated_socks_proxy retires what cools down or has died.
SweepForEntry(e, cooling) ==
  Retire(e, {s \in Present(e) : e[s].node \in cooling \/ ~e[s].up})

\* The slots that can be leased as they are.
ReadyExits(e, nodes) ==
  {s \in Present(e) : /\ ~e[s].launching /\ ~e[s].retiring /\ e[s].active = 0
                      /\ e[s].up /\ e[s].node \in nodes}

NodesInUse(e) == {e[s].node : s \in Present(e)}

\* A slot of the subscription that is not retired; the first acquirer of a fixed
\* node launches it, the others wait for it.
Matching(e) == {s \in Present(e) : e[s].use = "subscription" /\ e[s].fresh /\ ~e[s].retiring}

\* The slots that already leave through this exit.
Duplicates(e, own, exit) ==
  {s \in Present(e) \ {own} : ~e[s].retiring /\ ~e[s].launching /\ e[s].exit = exit}

LeaseExit(e, s) == [e EXCEPT ![s].active = 1]

\* release_task_mihomo_proxy.
ReleaseExit(e, s, cooling) ==
  LET k == [e[s] EXCEPT !.active = 0, !.retiring = @ \/ e[s].node \in cooling]
  IN [e EXCEPT ![s] = IF k.retiring THEN NoExit ELSE k]

-----------------------------------------------------------------------------
(* Endpoints of the proxy API.  An endpoint whose slot was invalidated may be   *)
(* fetched again, so a slot is not its endpoint.                                *)
Api == [use     : {"free", "api"},
        node    : Endpoint \cup {NoNode},
        active  : 0..PerEndpoint,
        invalid : BOOLEAN,
        cooling : BOOLEAN]

NoApi == [use |-> "free", node |-> NoNode, active |-> 0, invalid |-> FALSE, cooling |-> FALSE]

\* The first statement of acquire.
DropInvalid(p) == Remove(p, {s \in Present(p) : p[s].invalid /\ p[s].active = 0}, NoApi)

Free(p, avoid) ==
  {s \in Present(p) : ~p[s].invalid /\ p[s].node \notin avoid /\ p[s].active < PerEndpoint}

\* The candidates of acquire, and among them the ones with the fewest leases.
Candidates(p, avoid) == {s \in Free(p, avoid) : ~p[s].cooling}
LeastActive(p, S) == {s \in S : \A u \in S : p[s].active <= p[u].active}

LeaseEndpoint(p, s) == [p EXCEPT ![s].active = @ + 1]
AddEndpoint(p, s, node) == [p EXCEPT ![s] = [NoApi EXCEPT !.use = "api", !.node = node, !.active = 1]]

\* ReusableApiProxyPool.release.
ReleaseEndpoint(p, s) ==
  LET k == [p[s] EXCEPT !.active = @ - 1]
  IN [p EXCEPT ![s] = IF k.invalid /\ k.active = 0 THEN NoApi ELSE k]

-----------------------------------------------------------------------------
(* Browsers.  _BrowserSlot: key stands for the proxy a browser was started with *)
(* (the slot of an exit for its local port, "old" for a port that no exit       *)
(* listens on any more); closing counts the contexts that are being closed.  A  *)
(* process has one context (BROWSER_CONTEXTS_PER_PROCESS is 1).                 *)
Browser == [use       : {"free", "browser"},
            key       : ExitSlot \cup Node \cup Entry \cup Endpoint \cup {NoNode, "direct", "old"},
            active    : 0..1,
            launching : BOOLEAN,
            retiring  : BOOLEAN,
            requested : BOOLEAN,
            closing   : 0..1,
            up        : BOOLEAN]

NoBrowser == [use |-> "free", key |-> NoNode, active |-> 0, launching |-> FALSE,
              retiring |-> FALSE, requested |-> FALSE, closing |-> 0, up |-> FALSE]

\* The head of acquire_context: one idle process that has died is dropped.
IdleDead(b) == {s \in Present(b) : ~b[s].launching /\ b[s].active = 0 /\ ~b[s].up}

Usable(b, key) ==
  {s \in Present(b) : /\ b[s].key = key /\ ~b[s].launching /\ ~b[s].retiring /\ b[s].up
                      /\ b[s].active = 0}

\* Another acquirer is starting the same browser.
Starting(b, key) ==
  \E s \in Present(b) : b[s].key = key /\ b[s].launching /\ ~b[s].retiring

Idle(b) == {s \in Present(b) : ~b[s].launching /\ b[s].active = 0}

LeaseBrowser(b, s) == [b EXCEPT ![s].active = 1]
LaunchBrowser(b, s, key) ==
  [b EXCEPT ![s] = [NoBrowser EXCEPT !.use = "browser", !.key = key, !.active = 1,
                                     !.launching = TRUE]]
BrowserStarted(b, s) == [b EXCEPT ![s].launching = FALSE, ![s].up = TRUE]

\* The end of _release_slot and of _finish_release: retiring follows the request
\* and the contexts that still close, and a process without either goes.
Settle(k) ==
  LET m == [k EXCEPT !.retiring = k.requested \/ k.closing > 0]
  IN IF m.active = 0 /\ m.closing = 0 /\ m.requested THEN NoBrowser ELSE m

\* _release_slot without a context: the launch or new_context failed.
ReleaseFailed(b, s) == [b EXCEPT ![s] = Settle([b[s] EXCEPT !.active = 0, !.requested = TRUE])]

\* _release_slot with a context: the slot is given back and the context closes.
\* worn: it has served its 80 contexts or its 30 minutes.
StartClosing(b, s, worn) ==
  [b EXCEPT ![s] = Settle([b[s] EXCEPT !.active = 0, !.closing = @ + 1,
                                       !.requested = @ \/ worn \/ ~b[s].up])]

\* _finish_release, when the slot is still in the pool.
FinishClosing(b, s, failed) ==
  [b EXCEPT ![s] = Settle([b[s] EXCEPT !.closing = @ - 1, !.requested = @ \/ failed])]
=============================================================================
