------------------------------- MODULE Attempt -------------------------------
(* One attempt at a task, from the claim to the outcome the worker acts on:     *)
(* DolaFetchAutomation (app/automation.py), DoubaoVideoAutomation               *)
(* (app/doubao_automation.py), QianwenVideoAutomation (app/qianwen_automation.py) *)
(* and the AI Studio client (app/qianwen_ai_studio.py).  The attempts of a       *)
(* worker process share the pools of Pools.  Each runner has one task; what the  *)
(* platform does with a request is decided by the platform, not by the program.  *)
EXTENDS Pools, TaskStore

CONSTANTS
  NoRunner,
  Scenes,       \* what the runners work on, the addresses of the nodes, and as bounds the
                \* attempts that are started and the failures, refusals and interruptions
  UploadSlots,  \* IMAGE_SUBMISSION_CONCURRENCY
  MaxFetches    \* max_concurrent_refreshes

Sources == {"direct", "subscription", "account", "api"}
Plan == [platform : {"dola", "doubao", "qianwen", "studio"}, source : Sources, images : BOOLEAN]

ASSUME AttemptConstants ==
  /\ IsFiniteSet(Worker) /\ NoRunner \notin Worker
  /\ \A scene \in Scenes :
       /\ DOMAIN scene = {"plan", "address", "starts", "faults"}
       /\ scene.plan \in [Worker -> Plan] /\ scene.starts \in Nat /\ scene.faults \in Nat
       /\ DOMAIN scene.address \subseteq Node /\ scene.address \in [DOMAIN scene.address -> Address]
  /\ UploadSlots \in Nat /\ MaxFetches \in Nat \ {0}

VARIABLES
  plan,      \* the plans of this behaviour
  meta,      \* task records
  run,       \* what each runner does
  exits, lock,            \* exit slots, and who holds their condition across an await
  apis, fetching, backoff,\* endpoint slots, _launching, _refresh_not_before lies ahead
  browsers,  \* browser slots
  uploading, \* runners with a reservation of an upload slot
  asleep,    \* the condition a runner waits on
  cooling,   \* nodes and entries in _NODE_COOLDOWNS
  down,      \* proxy sources in _PROXY_SOURCE_FAILURES
  pin, avoid,\* pinned_proxy_node_id of the account, proxy_retry_avoid_node_id
  address,   \* the address each node of the subscription is seen from
  found,     \* the evidence of a submission in the result part
  heard,     \* ghost: what the platform did with the request of the attempt
  unsure,    \* ghost: the attempt did not learn the answer, or was contradicted
  lost,      \* ghost: how many leases of a slot were never given back
  lostFetch, \* ghost: fetches that were canceled under way
  starts, faults   \* how many attempts and faults the bounds still leave

taskVars == <<meta, found, heard, unsure>>
exitVars == <<exits, lock>>
apiVars == <<apis, fetching, backoff>>
marks == <<cooling, down, pin, avoid>>
lostVars == <<lost, lostFetch>>
fixed == <<plan, address>>
vars == <<fixed, taskVars, run, exitVars, apiVars, browsers, uploading, asleep, marks, lostVars,
          starts, faults>>

Slot == ExitSlot \cup ApiSlot \cup BrowserSlot

Place == {"idle", "proxy", "exit", "exitLaunch", "entry", "entryLaunch", "entryNotify", "api",
          "fetch", "browser", "browserLaunch", "context", "page", "mode", "model", "settings",
          "upload", "uploading", "form", "credit", "pace", "begin", "send", "answer", "record",
          "close", "closing", "unproxy", "return"}

\* What run() returns, and what it still does after the finally blocks: "transport",
\* "gateway" and "uploadFailed" are exceptions of dola's attempt that run() charges to
\* the proxy, "raised" one of doubao's or qianwen's that _run_profile charges to it
\* ("spared": not while references are uploaded).
Outcome == {"", "retry", "infra", "defer", "submitted", "done", "failed", "raised", "spared",
            "transport", "gateway", "uploadFailed", "timeout", "stopped"}

Answer == {"", "conversation", "awaiting", "slider", "login", "frequent", "restricted", "http",
           "gateway"}

\* slot, node: the proxy that is held or being launched; tried and also are the
\* failed_launch_ids and additions to allowed_node_ids of an acquisition (tried
\* also holds the endpoints known before a fetch); browser: the pooled browser;
\* again: the request was sent a second time; answer: what dola's page reported.
Run == [pc : Place, slot : ExitSlot \cup ApiSlot \cup {NoSlot},
        node : Node \cup Entry \cup Endpoint \cup {NoNode},
        tried : SUBSET (Node \cup Endpoint), also : SUBSET Node,
        browser : BrowserSlot \cup {NoSlot}, again : BOOLEAN,
        answer : Answer, out : Outcome]

Idling == [pc |-> "idle", slot |-> NoSlot, node |-> NoNode, tried |-> {}, also |-> {},
           browser |-> NoSlot, again |-> FALSE, answer |-> "", out |-> ""]

Subscribed == DOMAIN address
platform(r) == plan[r].platform
source(r) == plan[r].source
At(r, pc) == run[r].pc = pc
Goto(r, pc) == run' = [run EXCEPT ![r].pc = pc]

\* The attempt is over but for its finally blocks.
EndWith(r, out) == run' = [run EXCEPT ![r].pc = "close", ![r].out = out]

Fault == faults > 0 /\ faults' = faults - 1
NoFault == UNCHANGED faults

\* Mutant: nobody is woken.
WakeNone(pool) == asleep

\* notify_all of a pool's condition.
Wake(pool) == [r \in Worker |-> IF asleep[r] = pool THEN "" ELSE asleep[r]]
Sleep(r, pool) == [asleep EXCEPT ![r] = pool]
Awake(r) == asleep[r] = ""

-----------------------------------------------------------------------------
(* What a failure does to the proxy of the attempt.                            *)

\* _clear_doubao_pinned_proxy_node.
Unpinned(r) == IF platform(r) = "doubao" /\ source(r) = "subscription"
               THEN [pin EXCEPT ![r] = NoNode] ELSE pin

\* _remember_failed_proxy_node.
Avoided(r) == IF run[r].node = NoNode THEN avoid ELSE [avoid EXCEPT ![r] = run[r].node]

Cooled(r) == IF run[r].node \in Node \cup Entry THEN cooling \cup {run[r].node} ELSE cooling

\* _mark_active_proxy_unavailable: an endpoint is invalidated, a node cools down.
\* (A source cools down only when it could not give a proxy at all.)
MarkActiveProxyUnavailable(r) ==
  /\ pin' = Unpinned(r) /\ avoid' = Avoided(r) /\ cooling' = Cooled(r)
  /\ apis' = IF source(r) = "api" /\ run[r].slot # NoSlot
             THEN [apis EXCEPT ![run[r].slot].invalid = TRUE] ELSE apis
  /\ UNCHANGED down

\* _cooldown_active_proxy_transport: an endpoint stays and cools down.
CooldownActiveProxyTransport(r) ==
  /\ pin' = Unpinned(r) /\ avoid' = Avoided(r) /\ cooling' = Cooled(r)
  /\ apis' = IF source(r) = "api" /\ run[r].slot # NoSlot
             THEN [apis EXCEPT ![run[r].slot].cooling = TRUE] ELSE apis
  /\ UNCHANGED down

\* The same for reason doubao_service_frequent: the node cools down for half an
\* hour and the account keeps it.
CooldownServiceFrequent(r) ==
  /\ cooling' = Cooled(r) /\ UNCHANGED <<pin, avoid, apis, down>>

\* _record_active_gateway_failure: the second failure of a node within the window
\* (cools) takes it out.
RecordActiveGatewayFailure(r, cools) ==
  /\ avoid' = Avoided(r) /\ cooling' = IF cools THEN Cooled(r) ELSE cooling
  /\ apis' = IF source(r) = "api" /\ run[r].slot # NoSlot
             THEN [apis EXCEPT ![run[r].slot].invalid = TRUE] ELSE apis
  /\ UNCHANGED <<pin, down>>

\* mark_doubao_verification_proxy: a node that two accounts saw a captcha on (or
\* that has a strike) cools down.
MarkDoubaoVerificationProxy(r, cools) ==
  /\ cooling' = IF cools THEN Cooled(r) ELSE cooling
  /\ apis' = IF source(r) = "api" /\ run[r].slot # NoSlot
             THEN [apis EXCEPT ![run[r].slot].cooling = TRUE] ELSE apis
  /\ UNCHANGED <<pin, avoid, down>>

\* record_doubao_proxy_success, with the pin that follows it.
RecordDoubaoProxySuccess(r) ==
  /\ cooling' = IF source(r) = "subscription" THEN cooling \ {run[r].node} ELSE cooling
  /\ pin' = IF source(r) = "subscription" THEN [pin EXCEPT ![r] = run[r].node] ELSE pin
  /\ UNCHANGED <<avoid, apis, down>>

Unharmed == UNCHANGED <<marks, apis>>

\* _active_proxy_cooldown_outcome: somebody else's failure cools the node down.
Overheated(r) == source(r) # "api" /\ run[r].node \in cooling

-----------------------------------------------------------------------------
(* _browser_proxy_config: the proxy of the configured source.                  *)

\* A doubao account with a pinned node asks for that node and avoids none.
Pinned(r) == platform(r) = "doubao" /\ source(r) = "subscription" /\ pin[r] # NoNode
Excluded(r) == IF Pinned(r) THEN {} ELSE {avoid[r]} \ {NoNode}
Allowed(r) == (IF Pinned(r) THEN {pin[r]} ELSE Subscribed) \cup run[r].also

\* Where the attempt goes on once its proxy is known.
AfterProxy(r) == CASE platform(r) = "dola" -> "browser"
                   [] platform(r) = "studio" -> "credit"
                   [] OTHER -> "page"

\* What run() makes of a ProxyCoolingDownError: only the handlers of dola and doubao
\* look for one, the others see a failure of the infrastructure.
CoolingDown(r) == IF platform(r) \in {"dola", "doubao"} THEN "defer" ELSE "infra"

\* A proxy was obtained.
Acquired(r, slot, node) ==
  /\ run' = [run EXCEPT ![r].pc = AfterProxy(r), ![r].slot = slot, ![r].node = node,
                        ![r].tried = {}, ![r].also = {}]
  /\ down' = down \ {source(r)}
  /\ avoid' = IF ~Pinned(r) /\ avoid[r] # node THEN [avoid EXCEPT ![r] = NoNode] ELSE avoid
  /\ pin' = IF platform(r) = "doubao" /\ source(r) = "subscription"
            THEN [pin EXCEPT ![r] = node] ELSE pin

\* The acquisition raised.  The pin of an account is meant to be dropped here, but
\* _clear_doubao_pinned_proxy_node finds neither a source nor a node yet and returns.
AcquireFailed(r) ==
  /\ run' = [run EXCEPT ![r].pc = "close", ![r].out = "infra", ![r].slot = NoSlot,
                        ![r].node = NoNode, ![r].tried = {}, ![r].also = {}]
  /\ down' = IF Pinned(r) THEN down ELSE down \cup {source(r)}
  /\ UNCHANGED <<pin, avoid>>

ChooseSource(r) ==
  /\ At(r, "proxy")
  /\ pin' = IF pin[r] # NoNode /\ pin[r] = avoid[r] THEN [pin EXCEPT ![r] = NoNode] ELSE pin
  /\ \/ /\ source(r) = "direct" /\ Goto(r, AfterProxy(r)) /\ NoFault
     \/ /\ source(r) # "direct" /\ source(r) \in down /\ EndWith(r, CoolingDown(r)) /\ NoFault
     \/ /\ source(r) = "subscription" /\ source(r) \notin down /\ Goto(r, "exit") /\ NoFault
     \/ /\ source(r) = "api" /\ source(r) \notin down /\ Goto(r, "api") /\ NoFault
     \/ /\ source(r) = "account" /\ source(r) \notin down
        /\ \E n \in Entry \ (cooling \cup {avoid[r]}) :
              run' = [run EXCEPT ![r].pc = "entry", ![r].node = n]
        /\ NoFault
  /\ UNCHANGED <<taskVars, exitVars, apiVars, browsers, uploading, asleep, cooling, down, avoid,
                 lostVars, starts>>

\* No entry could be used: the ones not avoided cool down or do not answer.
NoEntry(r) ==
  /\ At(r, "proxy") /\ source(r) = "account" /\ source(r) \notin down
  /\ IF Entry \subseteq cooling \cup {avoid[r]} THEN NoFault ELSE Fault
  /\ IF (Entry \ {avoid[r]}) \cap cooling # {}
       THEN EndWith(r, CoolingDown(r)) /\ UNCHANGED <<down, pin, avoid>>
       ELSE AcquireFailed(r)
  /\ UNCHANGED <<taskVars, exitVars, apiVars, browsers, uploading, asleep, cooling, lostVars, starts>>

-----------------------------------------------------------------------------
(* An exit of the subscription: _acquire_task_mihomo_proxy.  The condition of   *)
(* the exits stays locked while a node is chosen and its process started.       *)

\* _choose_subscription_node; a pinned node wins, and any other serves without it.
Choices(r, e) ==
  LET C == Subscribed \ (cooling \cup Excluded(r) \cup run[r].tried \cup NodesInUse(e))
  IN IF Pinned(r) /\ pin[r] \in C THEN {pin[r]} ELSE C

CanLaunch(r, e) ==
  /\ Vacant(e) # {}
  /\ \/ ~Pinned(r)
     \/ \A s \in Matching(e) : e[s].node \notin Allowed(r)

\* The port of a new process is a new one: what an old browser was started with is gone.
OldKeys(b, slot) == [s \in DOMAIN b |-> IF b[s].key = slot THEN [b[s] EXCEPT !.key = "old"] ELSE b[s]]

ScanExits(r) ==
  /\ At(r, "exit") /\ Awake(r) /\ lock = NoRunner
  /\ LET e == SweepForNode(exits, Allowed(r), cooling)
         ready == ReadyExits(e, Allowed(r) \ Excluded(r))
         choices == IF CanLaunch(r, e) THEN Choices(r, e) ELSE {}
     IN \/ \E n \in choices \ NativeNode :
             LET s == CHOOSE v \in Vacant(e) : TRUE
             IN /\ exits' = [e EXCEPT ![s] = NewExit("subscription", n, TRUE, NoNode)]
                /\ browsers' = OldKeys(browsers, s)
                /\ run' = [run EXCEPT ![r].pc = "exitLaunch", ![r].slot = s, ![r].node = n]
                /\ lock' = r /\ UNCHANGED <<asleep, down, pin, avoid>> /\ NoFault
        \/ \E n \in choices \cap NativeNode :
             /\ run' = [run EXCEPT ![r].pc = "exitLaunch", ![r].node = n]
             /\ exits' = e /\ lock' = r
             /\ UNCHANGED <<browsers, asleep, down, pin, avoid>> /\ NoFault
        \/ /\ IF choices = {} THEN NoFault ELSE Fault   \* or no node is fast enough
           /\ UNCHANGED <<lock, browsers>>
           /\ \/ \E s \in ready : /\ exits' = LeaseExit(e, s) /\ asleep' = Wake("exit")
                                  /\ Acquired(r, s, e[s].node)
              \/ /\ ready = {} /\ CanLaunch(r, e) /\ Present(e) = {}
                 /\ exits' = e /\ AcquireFailed(r) /\ UNCHANGED asleep
              \/ /\ ready = {} /\ ~(CanLaunch(r, e) /\ Present(e) = {})
                 /\ exits' = e /\ asleep' = Sleep(r, "exit") /\ UNCHANGED <<run, down, pin, avoid>>
  /\ UNCHANGED <<taskVars, apiVars, uploading, cooling, lostVars, starts>>

\* The process runs and its address x is known, or the node stands for it.  An exit
\* that leaves through the address of another is dropped for the next node, and
\* when there is none the other exit is taken or waited for.
ExitLaunched(r) ==
  /\ At(r, "exitLaunch") /\ lock' = NoRunner
  /\ LET n == run[r].node
         native == n \in NativeNode
         s == IF native THEN CHOOSE v \in Vacant(exits) : TRUE ELSE run[r].slot
     IN \E x \in {address[n], n} :
          LET twins == Duplicates(exits, s, x)
              e == Remove(exits, {s}, NoExit)
              tried == run[r].tried \cup {n}
          IN /\ IF x = n THEN Fault ELSE NoFault
             /\ \/ /\ twins = {}
                   /\ exits' = [exits EXCEPT ![s] = NewExit("subscription", n, FALSE, x)]
                   /\ asleep' = Wake("exit") /\ Acquired(r, s, n)
                \/ \E d \in twins :
                     LET also == run[r].also \cup {e[d].node}
                         left == (Allowed(r) \cup also) \ (NodesInUse(e) \cup Excluded(r) \cup tried)
                         \* without a lease of the twin
                         rescan == /\ exits' = e /\ UNCHANGED <<down, pin, avoid>>
                                   /\ run' = [run EXCEPT ![r] = [@ EXCEPT !.pc = "exit",
                                        !.slot = NoSlot, !.node = NoNode, !.tried = tried,
                                        !.also = also]]
                     IN \/ left # {} /\ rescan /\ asleep' = Wake("exit")
                        \/ /\ left = {} /\ e[d].active = 1 /\ rescan
                           /\ asleep' = [(IF native THEN asleep ELSE Wake("exit")) EXCEPT ![r] = "exit"]
                        \/ /\ left = {} /\ e[d].active = 0
                           /\ exits' = LeaseExit(e, d) /\ asleep' = Wake("exit")
                           /\ Acquired(r, d, e[d].node)
  /\ UNCHANGED <<taskVars, apiVars, browsers, uploading, cooling, lostVars, starts>>

\* The process does not start, or the native node does not reach the platform.
ExitLaunchFails(r) ==
  /\ At(r, "exitLaunch") /\ Fault
  /\ lock' = NoRunner /\ cooling' = cooling \cup {run[r].node}
  /\ LET n == run[r].node
         tried == run[r].tried \cup {n}
     IN \/ /\ n \in NativeNode
           /\ run' = [run EXCEPT ![r].pc = "exit", ![r].node = NoNode]
           /\ UNCHANGED <<exits, asleep, down, pin, avoid>>
        \/ /\ n \notin NativeNode
           /\ exits' = Remove(exits, {run[r].slot}, NoExit) /\ asleep' = Wake("exit")
           /\ IF Subscribed \subseteq tried \cup Excluded(r)
                THEN AcquireFailed(r)
                ELSE /\ run' = [run EXCEPT ![r].pc = "exit", ![r].slot = NoSlot,
                                           ![r].node = NoNode, ![r].tried = tried]
                     /\ UNCHANGED <<down, pin, avoid>>
  /\ UNCHANGED <<taskVars, apiVars, browsers, uploading, lostVars, starts>>

-----------------------------------------------------------------------------
(* A bridge for an authenticated SOCKS entry: acquire_authenticated_socks_proxy. *)
(* The condition is free while the process starts.                              *)

ScanEntries(r) ==
  /\ At(r, "entry") /\ Awake(r) /\ lock = NoRunner
  /\ LET n == run[r].node
         e == SweepForEntry(exits, cooling)
         ready == ReadyExits(e, {n})
         launch(f) == \E s \in Vacant(f) :
                        /\ s = CHOOSE v \in Vacant(f) : TRUE
                        /\ exits' = [f EXCEPT ![s] = NewExit("bridge", n, TRUE, NoNode)]
                        /\ browsers' = OldKeys(browsers, s)
                        /\ run' = [run EXCEPT ![r].pc = "entryLaunch", ![r].slot = s]
                        /\ UNCHANGED <<asleep, down, pin, avoid>>
         idle == {s \in Present(e) : ~e[s].launching /\ e[s].active = 0}
     IN \/ \E s \in ready : /\ exits' = LeaseExit(e, s) /\ asleep' = Wake("exit")
                            /\ Acquired(r, s, n) /\ UNCHANGED browsers
        \/ ready = {} /\ launch(e)
        \/ /\ ready = {} /\ Vacant(e) = {}
           /\ \/ \E s \in idle : launch(Remove(e, {s}, NoExit))
              \/ /\ idle = {} /\ exits' = e /\ asleep' = Sleep(r, "exit")
                 /\ UNCHANGED <<run, browsers, down, pin, avoid>>
  /\ UNCHANGED <<taskVars, lock, apiVars, uploading, cooling, lostVars, starts, faults>>

EntryLaunched(r) ==
  /\ At(r, "entryLaunch") /\ Goto(r, "entryNotify")
  /\ exits' = [exits EXCEPT ![run[r].slot].launching = FALSE, ![run[r].slot].exit = run[r].node]
  /\ UNCHANGED <<taskVars, lock, apiVars, browsers, uploading, asleep, marks, lostVars, starts, faults>>

EntryReady(r) ==
  /\ At(r, "entryNotify") /\ lock = NoRunner
  /\ asleep' = Wake("exit") /\ Acquired(r, run[r].slot, run[r].node)
  /\ UNCHANGED <<taskVars, exitVars, apiVars, browsers, uploading, cooling, lostVars, starts, faults>>

EntryLaunchFails(r) ==
  /\ At(r, "entryLaunch") /\ lock = NoRunner /\ Fault
  /\ exits' = Remove(exits, {run[r].slot}, NoExit) /\ asleep' = Wake("exit") /\ AcquireFailed(r)
  /\ UNCHANGED <<taskVars, lock, apiVars, browsers, uploading, cooling, lostVars, starts>>

-----------------------------------------------------------------------------
(* An endpoint of the proxy API: ReusableApiProxyPool.acquire.  Whoever finds   *)
(* the fetches backing off, or only endpoints that cool down, looks again after *)
(* a moment.                                                                    *)
ScanApis(r) ==
  /\ At(r, "api") /\ Awake(r)
  /\ LET p == DropInvalid(apis)
         candidates == Candidates(p, Excluded(r))
         room == Cardinality(Present(p)) + fetching < Cardinality(ApiSlot) /\ fetching < MaxFetches
     IN \/ /\ \E s \in LeastActive(p, candidates) :
                   apis' = LeaseEndpoint(p, s) /\ Acquired(r, s, p[s].node)
              /\ UNCHANGED <<fetching, asleep>>
        \/ /\ candidates = {} /\ ~backoff /\ room
           /\ apis' = p /\ fetching' = fetching + 1
           /\ run' = [run EXCEPT ![r].pc = "fetch", ![r].tried = {p[s].node : s \in Present(p)}]
           /\ UNCHANGED <<asleep, down, pin, avoid>>
        \/ /\ candidates = {} /\ ~backoff /\ ~room /\ Free(p, Excluded(r)) = {}
           /\ apis' = p /\ asleep' = Sleep(r, "api")
           /\ UNCHANGED <<run, fetching, down, pin, avoid>>
  /\ UNCHANGED <<taskVars, exitVars, backoff, browsers, uploading, cooling, lostVars, starts, faults>>

\* An endpoint answers the probe; it may have come into the pool meanwhile.
Fetched(r) ==
  /\ At(r, "fetch") /\ fetching' = fetching - 1 /\ asleep' = Wake("api")
  /\ \E n \in Endpoint \ (Excluded(r) \cup run[r].tried) :
       LET twins == {s \in Present(apis) : apis[s].node = n /\ ~apis[s].invalid}
       IN \/ /\ twins = {} /\ backoff' = FALSE
             /\ \E s \in Vacant(apis) : /\ s = CHOOSE v \in Vacant(apis) : TRUE
                                        /\ apis' = AddEndpoint(apis, s, n) /\ Acquired(r, s, n)
          \/ \E s \in twins :
               IF apis[s].active < PerEndpoint
               THEN /\ apis' = LeaseEndpoint(apis, s) /\ backoff' = FALSE
                    /\ Acquired(r, s, n)
               ELSE /\ Goto(r, "api") /\ UNCHANGED <<apis, backoff, down, pin, avoid>>
  /\ UNCHANGED <<taskVars, exitVars, browsers, uploading, cooling, lostVars, starts, faults>>

\* Nothing usable was fetched: nobody fetches for a while, and the task waits.
FetchFails(r) ==
  /\ At(r, "fetch")
  /\ IF Endpoint \subseteq Excluded(r) \cup run[r].tried THEN NoFault ELSE Fault
  /\ fetching' = fetching - 1 /\ backoff' = TRUE /\ asleep' = Wake("api")
  /\ EndWith(r, CoolingDown(r))
  /\ UNCHANGED <<taskVars, exitVars, apis, browsers, uploading, marks, lostVars, starts>>

-----------------------------------------------------------------------------
(* A context of a pooled browser, for dola's attempts:                         *)
(* BrowserPool.acquire_context.                                                *)

\* The address of a native node or an endpoint, or the local port of the exit.
Key(r) == IF run[r].node = NoNode THEN "direct"
          ELSE IF run[r].slot \in ExitSlot /\ run[r].node \notin NativeNode THEN run[r].slot
          ELSE run[r].node

\* gone: evicting a browser whose context still closes leaves its closer without a slot.
AcquireBrowser(r) ==
  /\ At(r, "browser") /\ Awake(r)
  /\ \E dead \in IF IdleDead(browsers) = {} THEN {{}} ELSE {{s} : s \in IdleDead(browsers)} :
       LET gone(S) == [x \in Worker |-> IF run[x].browser \in S
                                        THEN [run[x] EXCEPT !.browser = NoSlot] ELSE run[x]]
           b == Remove(browsers, dead, NoBrowser)
           launch(f, S) == LET s == CHOOSE v \in Vacant(f) : TRUE
                           IN /\ browsers' = LaunchBrowser(f, s, Key(r))
                              /\ run' = [gone(S) EXCEPT ![r].pc = "browserLaunch", ![r].browser = s]
                              /\ UNCHANGED asleep
           asks == Usable(b, Key(r)) = {} /\ ~Starting(b, Key(r))
       IN \/ \E s \in Usable(b, Key(r)) :
               /\ browsers' = LeaseBrowser(b, s) /\ UNCHANGED asleep
               /\ run' = [gone(dead) EXCEPT ![r].pc = "context", ![r].browser = s]
          \/ asks /\ Vacant(b) # {} /\ launch(b, dead)
          \/ asks /\ Vacant(b) = {} /\ \E s \in Idle(b) : launch(Remove(b, {s}, NoBrowser), dead \cup {s})
          \/ /\ Usable(b, Key(r)) = {}
             /\ Starting(b, Key(r)) \/ (Vacant(b) = {} /\ Idle(b) = {})
             /\ browsers' = b /\ asleep' = Sleep(r, "browser") /\ run' = gone(dead)
  /\ UNCHANGED <<taskVars, exitVars, apiVars, uploading, marks, lostVars, starts, faults>>

BrowserLaunched(r) ==
  /\ At(r, "browserLaunch") /\ Goto(r, "context")
  /\ browsers' = BrowserStarted(browsers, run[r].browser) /\ asleep' = Wake("browser")
  /\ UNCHANGED <<taskVars, exitVars, apiVars, uploading, marks, lostVars, starts, faults>>

\* new_context answers, and the account's cookies are put into the context.
ContextOpens(r) ==
  /\ At(r, "context") /\ browsers[run[r].browser].up /\ Goto(r, "page")
  /\ UNCHANGED <<taskVars, exitVars, apiVars, browsers, uploading, asleep, marks, lostVars, starts, faults>>

\* The browser does not start or does not open a context.
BrowserFails(r) ==
  /\ run[r].pc \in {"browserLaunch", "context"}
  /\ IF At(r, "context") /\ ~browsers[run[r].browser].up THEN NoFault ELSE Fault
  /\ browsers' = ReleaseFailed(browsers, run[r].browser) /\ asleep' = Wake("browser")
  /\ \E out \in {"retry", "infra", "transport"} :
        run' = [run EXCEPT ![r].pc = "close", ![r].out = out, ![r].browser = NoSlot]
  /\ UNCHANGED <<taskVars, exitVars, apiVars, uploading, marks, lostVars, starts>>

-----------------------------------------------------------------------------
(* What an attempt gives back: the finally blocks.                             *)

Lose(s) == IF s = NoSlot THEN lost ELSE [lost EXCEPT ![s] = @ + 1]

\* BrowserContextLease.release: first the slot, then the context.
StartRelease(r) ==
  /\ At(r, "close") /\ NoFault
  /\ LET s == run[r].browser
     IN \/ /\ s = NoSlot /\ Goto(r, "unproxy") /\ UNCHANGED <<browsers, asleep>>
        \/ /\ s # NoSlot /\ Goto(r, "closing") /\ asleep' = Wake("browser")
           /\ \E worn \in BOOLEAN : browsers' = StartClosing(browsers, s, worn)
  /\ UNCHANGED <<taskVars, exitVars, apiVars, uploading, marks, lostVars, starts>>

\* _finish_release; the context may fail to close.
FinishRelease(r, failed) ==
  /\ asleep' = Wake("browser")
  /\ browsers' = IF run[r].browser = NoSlot THEN browsers
                 ELSE FinishClosing(browsers, run[r].browser, failed)

ContextCloses(r) ==
  /\ At(r, "closing")
  /\ \E failed \in BOOLEAN : FinishRelease(r, failed) /\ (IF failed THEN Fault ELSE NoFault)
  /\ run' = [run EXCEPT ![r].pc = "unproxy", ![r].browser = NoSlot]
  /\ UNCHANGED <<taskVars, exitVars, apiVars, uploading, marks, lostVars, starts>>

Unleased(r) == run' = [run EXCEPT ![r].pc = "return", ![r].slot = NoSlot]

\* release_browser_proxy.  An exception of a doubao or qianwen attempt is charged to
\* the proxy before.
ReleaseProxy(r) ==
  /\ At(r, "unproxy") /\ Unleased(r)
  /\ IF run[r].out = "raised" THEN pin' = Unpinned(r) /\ avoid' = Avoided(r) /\ cooling' = Cooled(r)
                              ELSE UNCHANGED <<pin, avoid, cooling>>
  /\ LET s == run[r].slot
         spoil == [apis EXCEPT ![s].invalid = @ \/ run[r].out = "raised"]
     IN \/ s = NoSlot /\ UNCHANGED <<exits, apis, asleep>>
        \/ /\ s \in ExitSlot /\ lock = NoRunner
           /\ exits' = ReleaseExit(exits, s, cooling') /\ asleep' = Wake("exit") /\ UNCHANGED apis
        \/ /\ s \in ApiSlot
           /\ apis' = ReleaseEndpoint(spoil, s) /\ asleep' = Wake("api") /\ UNCHANGED exits
  /\ UNCHANGED <<taskVars, lock, fetching, backoff, browsers, uploading, down, lostVars, starts, faults>>

\* _bounded_cleanup gives release_task_mihomo_proxy twelve seconds, and the condition
\* may stay locked longer: nobody gives the exit back any more.
LoseRelease(r) ==
  /\ At(r, "unproxy") /\ run[r].slot \in ExitSlot /\ lock # NoRunner
  /\ Unleased(r) /\ lost' = Lose(run[r].slot)
  /\ IF run[r].out = "raised" THEN pin' = Unpinned(r) /\ avoid' = Avoided(r) /\ cooling' = Cooled(r)
                              ELSE UNCHANGED <<pin, avoid, cooling>>
  /\ UNCHANGED <<taskVars, exitVars, apiVars, browsers, uploading, asleep, down, lostFetch, starts, faults>>

\* The attempt's time is over or its coroutine is canceled: what it was launching or
\* fetching is given up as it is, and a condition it held is free.
Interruptions(r) == IF platform(r) = "studio" THEN {"stopped"} ELSE {"timeout", "stopped"}

\* The attempt does not learn what became of its request.
Contradicted(r) == [unsure EXCEPT ![r] = @ \/ heard[r] = "accepted"]

Interrupt(r) ==
  /\ run[r].pc \notin {"idle", "close", "closing", "unproxy", "return"} /\ Fault
  /\ \E kind \in Interruptions(r) :
       LET k == run[r]
           exitLost == k.pc \in {"entryLaunch", "entryNotify"}
                       \/ (k.pc = "exitLaunch" /\ k.slot # NoSlot)
           browserLost == k.pc \in {"browserLaunch", "context"}
       IN /\ run' = [run EXCEPT ![r] = [k EXCEPT !.pc = "close", !.out = kind,
                                          !.slot = IF exitLost THEN NoSlot ELSE @,
                                          !.browser = IF browserLost THEN NoSlot ELSE @]]
          /\ lost' = IF exitLost THEN Lose(k.slot) ELSE IF browserLost THEN Lose(k.browser) ELSE lost
          /\ lostFetch' = IF k.pc = "fetch" THEN lostFetch + 1 ELSE lostFetch
          /\ uploading' = uploading \ {r}
          /\ asleep' = IF r \in uploading THEN Wake("upload") ELSE Sleep(r, "")
  /\ lock' = IF lock = r THEN NoRunner ELSE lock
  /\ unsure' = Contradicted(r)
  /\ UNCHANGED <<meta, found, heard, exits, apiVars, browsers, marks, starts>>

\* The same during the finally blocks.  Dola's attempt has one such block, and what
\* comes after the point of interruption is skipped; the others give their proxy
\* back in an outer one.
InterruptCleanup(r) ==
  /\ run[r].pc \in {"close", "closing", "unproxy"} /\ run[r].out \notin {"timeout", "stopped"} /\ Fault
  /\ \E kind \in Interruptions(r) :
       LET k == run[r]
           skipped == platform(r) = "dola" \/ k.pc = "unproxy"
           browser == IF k.pc = "closing" THEN NoSlot ELSE k.browser
       IN /\ run' = [run EXCEPT ![r] = [k EXCEPT !.pc = IF skipped THEN "return" ELSE "unproxy",
                                          !.slot = IF skipped THEN NoSlot ELSE @,
                                          !.browser = NoSlot, !.out = kind]]
          /\ lost' = [s \in DOMAIN lost |-> lost[s]
                        + (IF s = browser \/ (skipped /\ s = k.slot) THEN 1 ELSE 0)]
          /\ IF k.pc = "closing" THEN FinishRelease(r, TRUE) ELSE UNCHANGED <<browsers, asleep>>
  /\ unsure' = IF platform(r) = "dola" THEN unsure ELSE Contradicted(r)
  /\ UNCHANGED <<meta, found, heard, exitVars, apiVars, uploading, marks, lostFetch, starts>>

-----------------------------------------------------------------------------
(* What the pools and the marks do by themselves.                              *)
Environment ==
  /\ \/ \E n \in cooling : cooling' = cooling \ {n} /\ UNCHANGED <<down, exits, apis, browsers, backoff>> /\ NoFault
     \/ \E s \in down : down' = down \ {s} /\ UNCHANGED <<cooling, exits, apis, browsers, backoff>> /\ NoFault
     \/ /\ backoff /\ backoff' = FALSE
        /\ UNCHANGED <<cooling, down, exits, apis, browsers>> /\ NoFault
     \/ \E s \in Present(apis) : /\ apis[s].cooling /\ apis' = [apis EXCEPT ![s].cooling = FALSE]
                                 /\ UNCHANGED <<cooling, down, exits, browsers, backoff>> /\ NoFault
     \/ \E s \in Present(exits) : /\ exits[s].up /\ ~exits[s].launching
                                  /\ exits[s].node \notin NativeNode
                                  /\ exits' = [exits EXCEPT ![s].up = FALSE]
                                  /\ UNCHANGED <<cooling, down, apis, browsers, backoff>> /\ Fault
     \/ \E s \in Present(browsers) : /\ browsers[s].up /\ browsers' = [browsers EXCEPT ![s].up = FALSE]
                                     /\ UNCHANGED <<cooling, down, exits, apis, backoff>> /\ Fault
     \* the subscription is read again and has changed
     \/ /\ \E s \in Present(exits) : exits[s].use = "subscription" /\ exits[s].fresh
        /\ exits' = [s \in ExitSlot |-> IF exits[s].use = "subscription"
                                        THEN [exits[s] EXCEPT !.fresh = FALSE] ELSE exits[s]]
        /\ UNCHANGED <<cooling, down, apis, browsers, backoff>> /\ Fault
  /\ UNCHANGED <<taskVars, run, lock, fetching, uploading, asleep, pin, avoid, lostVars, starts>>
=============================================================================
