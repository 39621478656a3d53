---------------------------- MODULE SubmissionInv ----------------------------
(* What the proofs about Submission speak of: the inductive invariant Inv,       *)
(* NodesFit and SleepersShut, and the relations between a state and the next one *)
(* that the steps of a runner and of the pools satisfy.                          *)
EXTENDS Submission

-----------------------------------------------------------------------------
(* The inductive invariant.                                                    *)

\* What a slot of each pool looks like: a bridge serves an account's entry and is
\* seen under its name, an endpoint is known, and a browser whose context closes is
\* not lent.
ExitWell(k) == /\ k.use = "subscription" => k.node \in Node
               /\ k.use = "bridge" => k.exit \in Entry \cup {NoNode}
ApiWell(k) == k.use = "api" => k.node \in Endpoint
BrowserWell(k) == k.closing > 0 => k.use # "free" /\ k.active = 0 /\ k.retiring
SlotsMadeWell ==
  /\ \A s \in ExitSlot : ExitWell(exits[s])
  /\ \A s \in ApiSlot : ApiWell(apis[s])
  /\ \A s \in BrowserSlot : BrowserWell(browsers[s])

\* What a runner holds and waits for, by the place it is at.
Located(r) ==
  LET k == run[r]
  IN /\ k.pc = "idle" => k = Idling
     /\ k.pc \in {"proxy", "exit", "entry", "api", "fetch", "return"} => k.slot = NoSlot
     /\ k.pc \in {"proxy", "exit", "exitLaunch", "entry", "entryLaunch", "entryNotify", "api", "fetch",
                  "browser", "unproxy", "return"} => k.browser = NoSlot
     /\ k.pc = "exitLaunch" =>
          /\ lock = r /\ k.node \in Subscribed
          /\ IF k.node \in NativeNode THEN k.slot = NoSlot /\ Vacant(exits) # {} ELSE k.slot \in ExitSlot
     /\ k.pc \in {"entry", "entryLaunch", "entryNotify"} => k.node \in Entry /\ source(r) = "account"
     /\ k.pc \in {"api", "fetch"} => source(r) = "api"
     /\ k.pc \in {"entryLaunch", "entryNotify"} => k.slot \in ExitSlot
     /\ k.pc \in {"browserLaunch", "context"} => k.browser \in BrowserSlot
     /\ lock = r => k.pc = "exitLaunch"
     /\ r \in uploading => k.pc = "uploading"

\* LeasesStand without what Located says of a runner that has ended.
Closers(s) == {r \in Worker : run[r].browser = s /\ At(r, "closing")}
Fetchers == {r \in Worker : At(r, "fetch")}
ExitsHeld ==
  \A s \in ExitSlot : exits[s].active = Leases(s) /\ (Leases(s) > 0 => exits[s].use # "free")
ApisHeld ==
  \A s \in ApiSlot : apis[s].active = Leases(s) /\ (Leases(s) > 0 => apis[s].use # "free")
BrowsersHeld ==
  \A s \in BrowserSlot :
    /\ browsers[s].active = Leases(s) /\ (Leases(s) > 0 => browsers[s].use # "free")
    /\ browsers[s].closing = Cardinality(Closers(s))
FetchesCounted ==
  /\ fetching = Cardinality(Fetchers) + lostFetch
  /\ Cardinality(Present(apis)) + fetching <= Cardinality(ApiSlot)

\* What the record of a task, the platform and the outcome of its attempt have to do
\* with each other, by the place the attempt is at.
Leaving == {"close", "closing", "unproxy", "return"}
Known == {"conversation", "awaiting"}
Told(r) ==
  LET m == meta[r]
      k == run[r]
  IN /\ k.pc = "idle" =>
          /\ m.status \in {"pending", "submitted", "failed", "canceled"}
          /\ m.status # "canceled" /\ ~unsure[r] => (m.status = "submitted" <=> heard[r] = "accepted")
     /\ k.pc # "idle" => m.status \in {"running", "submitted", "canceled"}
     /\ k.pc \notin Leaving \cup {"idle"} => m.status # "submitted" /\ found[r] \notin Known
     /\ k.pc \notin Leaving \cup {"idle", "answer", "record"} /\ ~unsure[r] => heard[r] # "accepted"
     /\ k.pc = "record" /\ platform(r) = "dola" =>
          /\ k.answer = "awaiting" => unsure[r]
          /\ ~unsure[r] => (k.answer = "conversation" <=> heard[r] = "accepted")
     /\ k.pc = "record" /\ platform(r) # "dola" => heard[r] = "accepted"
     /\ k.pc \in Leaving =>
          /\ k.out # ""
          /\ m.status = "submitted" =>
               /\ k.out \in {"done", "timeout", "stopped"}
               /\ ~unsure[r] => heard[r] = "accepted" /\ ~(platform(r) = "doubao" /\ k.out = "timeout")
          /\ m.status = "running" => k.out # "done"
          /\ m.status = "running" /\ ~unsure[r] =>
               /\ k.out = "submitted" => heard[r] = "accepted" /\ platform(r) # "dola"
               /\ k.out # "submitted" => heard[r] # "accepted"
               /\ platform(r) = "dola" => found[r] \notin Known

Inv ==
  /\ TypeOK /\ SlotsMadeWell
  /\ \A r \in Worker : Located(r) /\ Told(r)
  /\ ExitsHeld /\ ApisHeld /\ BrowsersHeld /\ FetchesCounted

-----------------------------------------------------------------------------
(* Counting the runners that hold a slot.                                      *)

\* What a runner holds of the exits and endpoints, of the browsers, and the browser
\* whose context it closes.
Held(r) == run[r].slot
Lent(r) == IF run[r].pc = "closing" THEN NoSlot ELSE run[r].browser
Closes(r) == IF run[r].pc = "closing" THEN run[r].browser ELSE NoSlot
One(b) == IF b THEN 1 ELSE 0

-----------------------------------------------------------------------------
(* Steps of one runner.                                                        *)

Others(r) == \A x \in Worker \ {r} : run'[x] = run[x]

\* What is told of the other tasks stands when neither they nor their runners change.
OthersTold(r) ==
  \A x \in Worker \ {r} :
    /\ run'[x].pc = run[x].pc /\ run'[x].out = run[x].out /\ run'[x].answer = run[x].answer
    /\ meta'[x] = meta[x] /\ found'[x] = found[x] /\ heard'[x] = heard[x] /\ unsure'[x] = unsure[x]

\* An attempt that has not sent its request goes on, or ends without it.
Asking == Place \ (Leaving \cup {"idle", "answer", "record"})

-----------------------------------------------------------------------------
(* The exits.                                                                  *)

\* What the marks may become, and the sleepers.
MarksTyped ==
  /\ cooling \subseteq Node \cup Entry /\ down \subseteq Sources
  /\ pin \in [Worker -> Node \cup {NoNode}]
  /\ avoid \in [Worker -> Node \cup Entry \cup Endpoint \cup {NoNode}]
Pool == {"exit", "api", "browser", "upload"}
SleepersTyped == asleep \in [Worker -> {"", "exit", "api", "browser", "upload"}]

\* A step that looks for an exit or gets one: the slot it takes or drops is counted
\* and everything else stands.
ExitsMove(r) ==
  \A s \in ExitSlot :
    /\ exits'[s].active = exits[s].active + One(run'[r].slot = s) - One(run[r].slot = s)
    /\ exits'[s].active > 0 => exits'[s].use # "free"
    /\ ExitWell(exits'[s])
Rekeyed ==
  \A s \in BrowserSlot :
    /\ browsers'[s].active = browsers[s].active
    /\ browsers'[s].use = browsers[s].use
    /\ browsers'[s].closing = browsers[s].closing
    /\ browsers'[s].retiring = browsers[s].retiring
LockKept(r) ==
  \A x \in Worker \ {r} :
    /\ lock' = x <=> lock = x
    /\ lock = x /\ Vacant(exits) # {} => Vacant(exits)' # {}
GoesOn(r) ==
  \/ run'[r].pc \in Asking \ {"fetch"}
  \/ run'[r].pc = "close" /\ run'[r].out \notin {"", "done", "submitted"}
Unpooled(k) == k.browser = NoSlot /\ k.slot \notin ApiSlot

\* The exits as an acquirer finds them after its sweep.
Swept(e) ==
  /\ e \in [ExitSlot -> Exit]
  /\ \A s \in ExitSlot : /\ e[s].active = exits[s].active /\ ExitWell(e[s])
                         /\ e[s].active > 0 => e[s].use # "free"

-----------------------------------------------------------------------------
(* The endpoints.                                                              *)

\* A step that looks for an endpoint, fetches one or gets one.
ApisMove(r) ==
  \A s \in ApiSlot :
    /\ apis'[s].active = apis[s].active + One(run'[r].slot = s) - One(run[r].slot = s)
    /\ apis'[s].active > 0 => apis'[s].use # "free"
    /\ ApiWell(apis'[s])
Fetching(r) ==
  /\ fetching' = fetching + One(run'[r].pc = "fetch") - One(run[r].pc = "fetch")
  /\ Cardinality(Present(apis)') + fetching' <= Cardinality(ApiSlot)

ApisTyped == apis \in [ApiSlot -> Api] /\ fetching \in Nat /\ backoff \in BOOLEAN
Fetches(r) ==
  /\ run[r].pc \in {"api", "fetch"}
  /\ \/ run'[r].pc \in {"api", "fetch", "browser", "page", "credit"}
     \/ run'[r].pc = "close" /\ run'[r].out \notin {"", "done", "submitted"}

\* The endpoints after the invalid ones without a lease were dropped.
SweptApis(p) ==
  /\ p \in [ApiSlot -> Api]
  /\ \A s \in ApiSlot : /\ p[s].active = apis[s].active /\ ApiWell(p[s])
                        /\ p[s].active > 0 => p[s].use # "free"
  /\ Present(p) \subseteq Present(apis)

-----------------------------------------------------------------------------
(* Any step of one runner.                                                     *)

\* What is held of a pool follows the runner and the leases that are lost.
CountsExits(r) ==
  \A s \in ExitSlot :
    /\ exits'[s].active
         = exits[s].active + (lost'[s] - lost[s]) + One(Held(r)' = s) - One(Held(r) = s)
    /\ exits'[s].active > 0 => exits'[s].use # "free"
CountsApis(r) ==
  \A s \in ApiSlot :
    /\ apis'[s].active
         = apis[s].active + (lost'[s] - lost[s]) + One(Held(r)' = s) - One(Held(r) = s)
    /\ apis'[s].active > 0 => apis'[s].use # "free"
CountsBrowsers(r) ==
  \A s \in BrowserSlot :
    /\ browsers'[s].active
         = browsers[s].active + (lost'[s] - lost[s]) + One(Lent(r)' = s) - One(Lent(r) = s)
    /\ browsers'[s].active > 0 => browsers'[s].use # "free"
    /\ browsers'[s].closing = browsers[s].closing + One(Closes(r)' = s) - One(Closes(r) = s)
CountsFetches(r) ==
  /\ fetching' = fetching + (lostFetch' - lostFetch)
                   + One(run'[r].pc = "fetch") - One(run[r].pc = "fetch")
  /\ Cardinality(Present(apis)') + fetching' <= Cardinality(ApiSlot)
UploadsKept(r) == \A x \in Worker \ {r} : x \in uploading' => x \in uploading

\* A mark on an endpoint changes neither its leases nor what it is.
Marked(p) ==
  /\ p \in [ApiSlot -> Api]
  /\ \A s \in ApiSlot : p[s].active = apis[s].active /\ p[s].use = apis[s].use /\ p[s].node = apis[s].node

-----------------------------------------------------------------------------
(* The browsers.                                                               *)

\* Dropping an idle browser takes it from the runner that still closes a context of it.
Evicted(S) == [x \in Worker |-> IF run[x].browser \in S THEN [run[x] EXCEPT !.browser = NoSlot] ELSE run[x]]
IdleSlots(S) == \A s \in S : s \in BrowserSlot /\ browsers[s].active = 0

\* The browsers once those of S are dropped.
Dropped(f, S) ==
  /\ f \in [BrowserSlot -> Browser]
  /\ \A s \in BrowserSlot : f[s] = IF s \in S THEN NoBrowser ELSE browsers[s]

\* The runner waits, or has the browser s; a dropped browser has no context left.
BrowsersMove(S, s) ==
  \A t \in BrowserSlot :
    /\ browsers'[t].active = IF t = s THEN 1 ELSE browsers[t].active
    /\ browsers'[t].active > 0 => browsers'[t].use # "free"
    /\ browsers'[t].closing = IF t \in S THEN 0 ELSE browsers[t].closing
    /\ BrowserWell(browsers'[t])

\* What the runner has then.
Taking(r, S, pc, s) == run' = [Evicted(S) EXCEPT ![r].pc = pc, ![r].browser = s]

\* What AcquireBrowser leaves alone.
Looking == UNCHANGED <<fixed, taskVars, exitVars, apiVars, uploading, marks, lostVars, starts, faults>>
Launches(r, f, S) ==
  LET s == CHOOSE v \in Vacant(f) : TRUE
  IN /\ browsers' = LaunchBrowser(f, s, Key(r))
     /\ run' = [Evicted(S) EXCEPT ![r].pc = "browserLaunch", ![r].browser = s]
     /\ UNCHANGED asleep

-----------------------------------------------------------------------------
(* What the finally blocks give back, and what an interruption loses.          *)

\* What is told of a task whose attempt goes on, or gives up without a submission.
Quits(r) ==
  /\ run'[r].pc \in Asking \/ (run'[r].pc = "close" /\ run'[r].out \notin {"", "done", "submitted"})
  /\ ~unsure'[r] => heard'[r] # "accepted"

-----------------------------------------------------------------------------
(* The pools and the marks by themselves.                                      *)

\* Nobody moves, and every slot keeps its leases.
Weathered ==
  /\ exits' \in [ExitSlot -> Exit] /\ browsers' \in [BrowserSlot -> Browser] /\ Marked(apis')
  /\ \A s \in ExitSlot : /\ exits'[s].active = exits[s].active /\ exits'[s].use = exits[s].use
                         /\ exits'[s].node = exits[s].node /\ exits'[s].exit = exits[s].exit
  /\ \A s \in BrowserSlot :
       /\ browsers'[s].active = browsers[s].active /\ browsers'[s].use = browsers[s].use
       /\ browsers'[s].closing = browsers[s].closing /\ browsers'[s].retiring = browsers[s].retiring

-----------------------------------------------------------------------------
(* Steps that only talk to the platform.                                       *)

TasksTyped ==
  /\ meta \in [Worker -> Meta] /\ unsure \in [Worker -> BOOLEAN]
  /\ found \in [Worker -> {"", "awaiting", "conversation", "rejected"}]
  /\ heard \in [Worker -> {"", "accepted", "refused", "lost"}]

\* What such a step may do to what the runners hold.
Works(r) ==
  /\ run' \in [Worker -> Run] /\ Others(r)
  /\ run'[r].slot = run[r].slot /\ run'[r].browser = run[r].browser
  /\ run'[r].pc = "fetch" <=> run[r].pc = "fetch"
  /\ run'[r].pc = "closing" <=> run[r].pc = "closing"

-----------------------------------------------------------------------------
(* An attempt that has its proxy and talks to the platform.                    *)

Page == {"page", "mode", "model", "settings", "upload", "uploading", "form", "credit", "pace",
         "begin", "send", "answer", "record"}
Charging == Marked(apis') /\ MarksTyped'

\* The upload slots and the conditions a runner waits on.
Rests(r) ==
  /\ SleepersTyped' /\ uploading' \subseteq Worker /\ UploadsKept(r)
  /\ r \in uploading' => run'[r].pc = "uploading"

\* The record of the task changes in what concerns its submission only.
MetaKept(r) ==
  /\ meta' \in [Worker -> Meta] /\ meta'[r].status = meta[r].status
  /\ \A x \in Worker \ {r} : meta'[x] = meta[x]

\* The attempt asks on, or it ends without a submission.
Submitless == Outcome \ {"", "done", "submitted"}
AsksOn(r) ==
  \/ run'[r].pc \in Page \ {"answer", "record"}
  \/ run'[r].pc = "close" /\ run'[r].out \in Submitless

-----------------------------------------------------------------------------
(* Dola.                                                                       *)

\* The attempt ends with what the record and the outcome say of its submission.
Concludes(r, out) ==
  /\ meta' \in [Worker -> Meta] /\ \A x \in Worker \ {r} : meta'[x] = meta[x]
  /\ found' \in [Worker -> {"", "awaiting", "conversation", "rejected"}]
  /\ \A x \in Worker \ {r} : found'[x] = found[x]
  /\ unsure' \in [Worker -> BOOLEAN] /\ \A x \in Worker \ {r} : unsure'[x] = unsure[x]
  /\ heard' = heard /\ EndWith(r, out)

-----------------------------------------------------------------------------
(* Doubao.                                                                     *)

\* An attempt with a subscription has one of its nodes.
NodeFits(r) == source(r) = "subscription" => run[r].node \in Node \cup {NoNode}

-----------------------------------------------------------------------------
(* The outcome.                                                                *)

\* What the worker makes of an outcome: a task that ran is submitted exactly by the
\* outcomes that say so, one that was submitted stays so unless doubao's attempt ran
\* out of time, and one that was canceled stays canceled.
Outcomed(r, m, out, n) ==
  /\ m.status = "running" /\ out # "done" =>
       /\ n \in Meta /\ n.status \in {"pending", "failed", "submitted"}
       /\ n.status = "submitted" => \/ out = "submitted"
                                    \/ platform(r) = "dola" /\ found[r] \in Known
       /\ out = "submitted" => n.status = "submitted"
  /\ m.status = "submitted" /\ out \in {"done", "timeout", "stopped"} =>
       /\ n \in Meta /\ n.status \in {"submitted", "failed"}
       /\ ~(platform(r) = "doubao" /\ out = "timeout") => n.status = "submitted"
  /\ m.status = "canceled" => n \in Meta /\ n.status = "canceled"

-----------------------------------------------------------------------------
(* The node of an attempt with a subscription.                                 *)

NodesFit == \A r \in Worker : NodeFits(r)

\* What a step may do to the places and the proxies of the runners.
Aside(x) == /\ run'[x].pc = run[x].pc /\ run'[x].slot = run[x].slot
            /\ run'[x].node = run[x].node /\ run'[x].also = run[x].also
NodesKeep(r) ==
  /\ \A x \in Worker \ {r} : Aside(x)
  /\ \/ run'[r].node = run[r].node
     \/ source(r) = "subscription" => run'[r].node \in Node \cup {NoNode}

\* A step of the runner to another place, to its end, or nowhere.
Moved(r) == \/ \E pc : Goto(r, pc)
            \/ \E out : EndWith(r, out)
            \/ UNCHANGED run

-----------------------------------------------------------------------------
(* Who sleeps, sleeps for a reason.                                            *)

\* An endpoint that was invalidated stays for the attempts that use it.
IdleValid == \A s \in ApiSlot : apis[s].invalid => apis[s].active > 0

\* A slot that can be leased as it is, one that somebody uses or starts, and one
\* that may be dropped for another.
Ready(k) == k.use # "free" /\ ~k.launching /\ ~k.retiring /\ k.active = 0 /\ k.up
Busy(k) == k.use # "free" /\ (k.active > 0 \/ k.launching)
Open(k) == k.use # "free" /\ ~k.invalid /\ k.active < PerEndpoint
Rising(k) == k.use # "free" /\ k.launching /\ ~k.retiring
Spare(k) == k.use # "free" /\ ~k.launching /\ k.active = 0

\* Why a runner has to wait, by the pool.
ExitShut(x) ==
  /\ run[x].also = {} => \A s \in ExitSlot : Ready(exits[s]) => exits[s].node \notin Wanted(x)
  /\ Excluded(x) # {} \/ \E s \in ExitSlot : Busy(exits[s])
ApiShut(x) ==
  /\ \A s \in ApiSlot : Open(apis[s]) => apis[s].node \in Excluded(x)
  /\ \/ fetching > 0
     \/ \E s \in ApiSlot : apis[s].use # "free" /\ (apis[s].active > 0 \/ apis[s].node \in Excluded(x))
BrowserShut(x) ==
  /\ \A s \in BrowserSlot : Ready(browsers[s]) => browsers[s].key # Key(x)
  /\ \/ \E s \in BrowserSlot : Rising(browsers[s]) /\ browsers[s].key = Key(x)
     \/ \A s \in BrowserSlot : browsers[s].use # "free" /\ ~Spare(browsers[s])
Sleeps(x) ==
  /\ asleep[x] = "exit" => run[x].pc \in {"exit", "entry"} /\ ExitShut(x)
  /\ asleep[x] = "api" => run[x].pc = "api" /\ ApiShut(x)
  /\ asleep[x] = "browser" => run[x].pc = "browser" /\ BrowserShut(x)
  /\ asleep[x] = "upload" => /\ run[x].pc = "upload" /\ platform(x) \in {"dola", "doubao"}
                             /\ Cardinality(uploading) >= UploadSlots
SleepersShut == IdleValid /\ \A x \in Worker : Sleeps(x)

\* What a step may do to a slot without waking who waits for the pool: nothing
\* becomes ready, and what is busy stays so.
ExitCalm(k, l) == /\ Ready(l) => Ready(k) /\ l.node = k.node
                  /\ Busy(k) => Busy(l)
ApiCalm(k, l) == /\ Open(l) => Open(k) /\ l.node = k.node
                 /\ k.use # "free" => l.use # "free" /\ l.node = k.node /\ (k.active > 0 => l.active > 0)
\* A new exit takes its port from the browsers that were started with it.
Idled(key) == key \in ExitSlot /\ exits[key].active = 0
BrowserCalm(k, l) ==
  /\ Ready(l) => Ready(k) /\ l.key \in {k.key, "old"}
  /\ Rising(k) => Rising(l) /\ (l.key = k.key \/ Idled(k.key))
  /\ l.use = "free" => k.use = "free" \/ Spare(k)
  /\ Spare(l) => Spare(k)
ExitsCalm == \A s \in ExitSlot : ExitCalm(exits[s], exits'[s])
ApisCalm == /\ \A s \in ApiSlot : ApiCalm(apis[s], apis'[s])
            /\ fetching > 0 => fetching' > 0
BrowsersCalm == \A s \in BrowserSlot : BrowserCalm(browsers[s], browsers'[s])

\* What a step does to the other runners that wait.
Roused(r, pool) == \A x \in Worker \ {r} : asleep'[x] # pool
Calm(r) ==
  /\ \A x \in Worker \ {r} : /\ asleep'[x] \in {asleep[x], ""}
                             /\ pin'[x] = pin[x] /\ avoid'[x] = avoid[x]
  /\ Roused(r, "exit") \/ ExitsCalm
  /\ Roused(r, "api") \/ ApisCalm
  /\ Roused(r, "browser") \/ BrowsersCalm
  /\ Roused(r, "upload") \/ uploading \subseteq uploading'

\* What a step shows of its runner and of the others.
StaysCalm(r) == Calm(r) /\ IdleValid' /\ Sleeps(r)'

\* A step without a pool, but for a charge to the endpoint of the runner.
MarksAside(r) == \A x \in Worker \ {r} : pin'[x] = pin[x] /\ avoid'[x] = avoid[x]
ApisMarked == IdleValid' /\ \A s \in ApiSlot : ApiCalm(apis[s], apis'[s])
Aloof(r) == /\ UNCHANGED <<exits, fetching, browsers, uploading, asleep>>
            /\ MarksAside(r) /\ ApisMarked

\* Only who waits for a pool sleeps.
Waiting == {"exit", "entry", "api", "browser", "upload"}

\* Every charge to the proxy concerns the runner alone.
Charge(r) ==
  \/ Unharmed \/ MarkActiveProxyUnavailable(r) \/ CooldownActiveProxyTransport(r)
  \/ CooldownServiceFrequent(r)
  \/ \E cools \in BOOLEAN : RecordActiveGatewayFailure(r, cools) \/ MarkDoubaoVerificationProxy(r, cools)

\* The browsers without some spare ones.
Pruned(f) ==
  /\ DOMAIN f = BrowserSlot
  /\ \A s \in BrowserSlot : f[s] = browsers[s] \/ (Spare(browsers[s]) /\ f[s] = NoBrowser)

\* Exits after some of them, that nobody uses, were dropped or replaced.
Eased(e) == DOMAIN e = ExitSlot /\ \A s \in ExitSlot : ExitCalm(exits[s], e[s])

\* A step that changes exits and wakes nobody, and one that wakes who waits for them.
ExitsOnly == UNCHANGED <<apis, fetching, uploading>>
=============================================================================
