------------------------------ MODULE Submission ------------------------------
(* What an attempt does between its proxy and its outcome on each platform, and *)
(* what the worker makes of the outcome: the steps of Attempt that differ.      *)
EXTENDS Attempt

\* What a step of an attempt leaves alone when it only talks to the platform.
pools == <<exitVars, fetching, backoff, browsers, lostVars, starts>>
idle == <<uploading, asleep>>
quiet == <<pools, idle, apis, marks>>

Init ==
  /\ \E scene \in Scenes : /\ plan = scene.plan /\ address = scene.address
                           /\ starts = scene.starts /\ faults = scene.faults
  /\ meta = [r \in Worker |-> [NoMeta EXCEPT !.status = "pending"]]
  /\ run = [r \in Worker |-> Idling]
  /\ exits = [s \in ExitSlot |-> NoExit] /\ lock = NoRunner
  /\ apis = [s \in ApiSlot |-> NoApi] /\ fetching = 0 /\ backoff = FALSE
  /\ browsers = [s \in BrowserSlot |-> NoBrowser] /\ uploading = {}
  /\ asleep = [r \in Worker |-> ""]
  /\ cooling = {} /\ down = {}
  /\ pin = [r \in Worker |-> NoNode] /\ avoid = [r \in Worker |-> NoNode]
  /\ found = [r \in Worker |-> ""] /\ heard = [r \in Worker |-> ""]
  /\ unsure = [r \in Worker |-> FALSE]
  /\ lost = [s \in Slot |-> 0] /\ lostFetch = 0

\* The claim, and clear_transient_result at the head of the attempt.
Start(r) ==
  /\ At(r, "idle") /\ meta[r].status = "pending" /\ starts > 0
  /\ starts' = starts - 1 /\ Goto(r, "proxy")
  /\ meta' = [meta EXCEPT ![r] = ClearTransientResult([ClaimTask(meta[r], r) EXCEPT !.waiting = FALSE],
                                                      platform(r) # "dola")]
  /\ found' = [found EXCEPT ![r] = ""] /\ heard' = [heard EXCEPT ![r] = ""]
  /\ unsure' = [unsure EXCEPT ![r] = FALSE]
  /\ UNCHANGED <<exitVars, apiVars, browsers, idle, marks, lostVars, faults>>

\* request_task_cancel from the API; the supervisor cancels the coroutine later.
Cancel(r, admin) ==
  /\ MayCancel(meta[r], admin) /\ meta' = [meta EXCEPT ![r] = RequestTaskCancel(@)] /\ Fault
  /\ UNCHANGED <<run, found, heard, unsure, quiet>>

-----------------------------------------------------------------------------
(* What a step does when it does not go on.  An exception of dola's attempt is  *)
(* charged to the proxy by run(), one of the other browsers' by _run_profile,   *)
(* and AI Studio's goes to the worker.                                          *)
Raises(r) ==
  \E out \in IF platform(r) = "dola" THEN {"retry", "infra", "transport", "gateway"}
             ELSE IF platform(r) = "studio" THEN {"retry", "infra"} ELSE {"raised"} :
     EndWith(r, out)

Release(r) == [meta EXCEPT ![r] = ReleaseTaskSubmission(@)]

\* A step that opens, selects or fills something, and its ways out: raise an
\* exception, or give up with one of outs.
Step(r, pc, next, outs) ==
  /\ At(r, pc)
  /\ \/ Goto(r, next) /\ NoFault
     \/ Fault /\ (Raises(r) \/ \E out \in outs : EndWith(r, out))
  /\ UNCHANGED <<taskVars, quiet>>

\* A failure the proxy is charged with.
Charged(r, pc, out) ==
  /\ At(r, pc) /\ Fault /\ MarkActiveProxyUnavailable(r) /\ EndWith(r, out)
  /\ UNCHANGED <<taskVars, pools, idle>>

\* begin_task_submission.
Begin(r, next) ==
  /\ At(r, "begin")
  /\ \/ /\ MayBeginSubmission(meta[r]) /\ Goto(r, next)
        /\ meta' = [meta EXCEPT ![r] = BeginTaskSubmission(@)]
     \/ /\ ~MayBeginSubmission(meta[r]) /\ UNCHANGED meta
        /\ EndWith(r, IF meta[r].status = "canceled" THEN "failed" ELSE "retry")
  /\ UNCHANGED <<found, heard, unsure, quiet, faults>>

\* The pacer of the platform.  Qianwen and AI Studio look once more for a cancel.
Pace(r) ==
  /\ At(r, "pace")
  /\ IF platform(r) = "qianwen" \/ (platform(r) = "studio" /\ meta[r].phase = "committing")
       THEN IF meta[r].status = "canceled" THEN EndWith(r, "failed") ELSE Goto(r, "send")
       ELSE Goto(r, IF platform(r) = "doubao" THEN "send" ELSE "begin")
  /\ UNCHANGED <<taskVars, quiet, faults>>

\* The request leaves for the platform, which takes it, refuses it or never sees it.
Send(r) ==
  /\ At(r, "send") /\ Goto(r, "answer")
  /\ \E answer \in {"accepted", "refused", "lost"} :
        /\ heard' = [heard EXCEPT ![r] = IF @ = "accepted" THEN @ ELSE answer]
        /\ IF answer = "accepted" THEN NoFault ELSE Fault
  /\ UNCHANGED <<meta, found, unsure, quiet>>

\* The request is sent once more: after a slider was solved (doubao fills the page
\* again), to confirm it to doubao, or by qianwen's page after the interface call
\* with the reference images had no usable answer.
Resend(r) ==
  /\ At(r, "answer") /\ ~run[r].again
  /\ \/ platform(r) \in {"dola", "doubao"} /\ heard[r] = "refused" /\ NoFault
     \/ platform(r) = "qianwen" /\ plan[r].images /\ heard[r] # "accepted" /\ NoFault
     \/ platform(r) = "qianwen" /\ plan[r].images /\ heard[r] = "accepted" /\ Fault
  /\ \E next \in IF platform(r) = "doubao" THEN {"mode", "send"} ELSE {"send"} :
        run' = [run EXCEPT ![r].pc = next, ![r].again = TRUE]
  /\ unsure' = Contradicted(r)
  /\ UNCHANGED <<meta, found, heard, quiet>>

-----------------------------------------------------------------------------
(* Reference images of dola and doubao: an upload slot, then the upload.       *)

\* doubao: any trouble on the page after the submission has begun gives it back.
UiError(r) == Fault /\ \/ meta' = Release(r) /\ EndWith(r, "infra")
                       \/ /\ UNCHANGED meta
                          /\ EndWith(r, IF run[r].pc \in {"upload", "uploading"} THEN "spared" ELSE "raised")

Hot(r, next) ==
  IF platform(r) = "dola" /\ Overheated(r)
    THEN EndWith(r, "defer") /\ avoid' = Avoided(r)
    ELSE Goto(r, next) /\ UNCHANGED avoid

ReserveUpload(r) ==
  /\ At(r, "upload") /\ platform(r) \in {"dola", "doubao"} /\ Awake(r)
  /\ \/ /\ Cardinality(uploading) < UploadSlots
        /\ uploading' = uploading \cup {r} /\ Goto(r, "uploading") /\ UNCHANGED asleep
     \/ /\ Cardinality(uploading) >= UploadSlots
        /\ asleep' = Sleep(r, "upload") /\ UNCHANGED <<run, uploading>>
  /\ UNCHANGED <<taskVars, pools, apis, marks, faults>>

\* No slot in time.  Doubao's page takes this for trouble like any other.
UploadBusy(r) ==
  /\ At(r, "upload") /\ asleep[r] = "upload" /\ asleep' = Sleep(r, "")
  /\ \/ platform(r) = "doubao" /\ UiError(r)
     \/ platform(r) = "dola" /\ Fault /\ EndWith(r, "defer") /\ UNCHANGED meta
  /\ UNCHANGED <<found, heard, unsure, pools, uploading, apis, marks>>

Uploaded(r) ==
  /\ At(r, "uploading") /\ uploading' = uploading \ {r} /\ asleep' = Wake("upload")
  /\ Hot(r, IF platform(r) = "dola" THEN "pace" ELSE "form")
  /\ UNCHANGED <<taskVars, pools, apis, cooling, down, pin, faults>>

UploadFails(r) ==
  /\ At(r, "uploading") /\ uploading' = uploading \ {r} /\ asleep' = Wake("upload")
  /\ \/ platform(r) = "doubao" /\ UiError(r) /\ Unharmed
     \/ /\ platform(r) = "dola" /\ Fault /\ UNCHANGED meta
        /\ \/ CooldownActiveProxyTransport(r) /\ EndWith(r, "uploadFailed")
           \/ Unharmed /\ \E out \in {"infra", "uploadFailed"} : EndWith(r, out)
  /\ UNCHANGED <<found, heard, unsure, pools>>

-----------------------------------------------------------------------------
(* Dola.                                                                       *)

DolaPage(r) ==
  /\ platform(r) = "dola" /\ At(r, "page")
  /\ \/ NoFault /\ Hot(r, IF plan[r].images THEN "upload" ELSE "pace")
        /\ UNCHANGED <<cooling, down, pin, apis>>
     \/ /\ Fault /\ EndWith(r, "infra")
        /\ Unharmed \/ \E cools \in BOOLEAN : RecordActiveGatewayFailure(r, cools)
     \/ Fault /\ Unharmed /\ Raises(r)
  /\ UNCHANGED <<taskVars, pools, idle>>

\* A slider that is not solved, before or after the upload; a region that is closed.
DolaTurnedAway(r) ==
  /\ platform(r) = "dola"
  /\ \/ \E pc \in {"page", "pace"} : Charged(r, pc, "retry")
     \/ Charged(r, "page", "infra")

\* _submit_with_slider_recovery returns: what the page reports of the request.
DolaAnswers(r) ==
  /\ platform(r) = "dola" /\ At(r, "answer")
  /\ \E a \in Answer \ {""} :
        /\ CASE heard[r] = "accepted" -> a \in {"conversation", "awaiting", "http", "gateway"}
             [] heard[r] = "refused" -> a \notin {"conversation", "gateway"}
             [] OTHER -> a \in {"awaiting", "http", "gateway"}   \* it was lost
        /\ IF heard[r] = "accepted" /\ a \in {"http", "gateway"} THEN Fault ELSE NoFault
        /\ run' = [run EXCEPT ![r].pc = "record", ![r].answer = a]
        /\ unsure' = IF a = "awaiting" THEN [unsure EXCEPT ![r] = TRUE]
                     ELSE IF a = "conversation" THEN unsure ELSE Contradicted(r)
  /\ UNCHANGED <<meta, found, heard, quiet>>

\* It raised: the request may have arrived (a failure of the transport) or was never
\* sent (anything else).
DolaSubmitRaises(r) ==
  /\ platform(r) = "dola" /\ At(r, "answer") /\ Fault
  /\ \/ /\ EndWith(r, "submitted")
        /\ meta' = [meta EXCEPT ![r].evidence = TRUE] /\ found' = [found EXCEPT ![r] = "awaiting"]
        /\ unsure' = [unsure EXCEPT ![r] = TRUE]
        /\ Unharmed \/ CooldownActiveProxyTransport(r)
                    \/ (source(r) = "api" /\ MarkActiveProxyUnavailable(r))
     \/ /\ meta' = Release(r) /\ EndWith(r, "retry")
        /\ unsure' = Contradicted(r) /\ UNCHANGED found /\ Unharmed
  /\ UNCHANGED <<heard, pools, idle>>

\* Between the answer and its record the cookies of the context are read.
DolaRecordRaises(r) ==
  /\ platform(r) = "dola" /\ At(r, "record") /\ Fault /\ Raises(r)
  /\ unsure' = Contradicted(r) /\ UNCHANGED <<meta, found, heard, quiet>>

DolaRecord(r) ==
  /\ platform(r) = "dola" /\ At(r, "record") /\ NoFault
  /\ LET a == run[r].answer
         refused(outs) == /\ found' = [found EXCEPT ![r] = "rejected"]
                          /\ meta' = [Release(r) EXCEPT ![r].evidence = TRUE]
                          /\ \E out \in outs : EndWith(r, out)
     IN \/ /\ a \in {"conversation", "awaiting"} /\ EndWith(r, "done")
           /\ found' = [found EXCEPT ![r] = a] /\ avoid' = [avoid EXCEPT ![r] = NoNode]
           /\ meta' = [meta EXCEPT ![r] = [MarkSubmitted(@) EXCEPT !.evidence = TRUE]]
           /\ UNCHANGED <<cooling, down, pin, apis>>
        \/ a = "slider" /\ refused({"retry"}) /\ (MarkActiveProxyUnavailable(r) \/ Unharmed)
        \/ a = "login" /\ refused({"retry"}) /\ Unharmed
        \/ /\ a = "frequent" /\ refused({"retry"})
           /\ avoid' = Avoided(r) /\ UNCHANGED <<cooling, down, pin, apis>>
        \/ a = "restricted" /\ refused({"infra"}) /\ MarkActiveProxyUnavailable(r)
        \/ a = "http" /\ refused({"retry", "infra"}) /\ Unharmed
        \/ /\ a = "gateway" /\ refused({"infra"})
           /\ \E cools \in BOOLEAN : RecordActiveGatewayFailure(r, cools)
  /\ UNCHANGED <<heard, unsure, pools, idle>>

-----------------------------------------------------------------------------
(* Doubao: everything on the page happens between the begin of the submission   *)
(* and its end.                                                                *)

DoubaoPage(r) ==
  /\ platform(r) = "doubao"
  /\ \/ Charged(r, "page", "retry")
     \/ /\ meta[r].status = "canceled" /\ At(r, "page") /\ EndWith(r, "failed") /\ NoFault
        /\ UNCHANGED <<taskVars, quiet>>
     \/ meta[r].status # "canceled" /\ Step(r, "page", "begin", {"retry", "failed"})

\* A step of _submit_via_video_creation_page_ui.
Fill(r, pc, next) ==
  /\ platform(r) = "doubao" /\ At(r, pc)
  /\ \/ Goto(r, next) /\ NoFault /\ UNCHANGED meta
     \/ UiError(r)
  /\ UNCHANGED <<found, heard, unsure, quiet>>

\* The entry page may also show a closed region or a login form.
OpenVideoEntry(r) ==
  \/ Fill(r, "mode", "model")
  \/ /\ platform(r) = "doubao" /\ At(r, "mode") /\ Fault
     /\ meta' = Release(r) /\ EndWith(r, "retry")
     /\ MarkActiveProxyUnavailable(r) \/ Unharmed
     /\ UNCHANGED <<found, heard, unsure, pools, idle>>
SelectVideoModel(r) == Fill(r, "model", "settings")
SelectVideoSettings(r) == Fill(r, "settings", IF plan[r].images THEN "upload" ELSE "form")
FillForm(r) == Fill(r, "form", "pace")

\* The page saw the acknowledgement with a conversation (seen), or it did not.
Acknowledged(r, seen) ==
  IF seen THEN heard[r] = "accepted" /\ NoFault
          ELSE IF heard[r] = "accepted" THEN Fault ELSE NoFault

DoubaoAnswers(r) ==
  /\ platform(r) = "doubao" /\ At(r, "answer")
  /\ LET ends(out) == meta' = Release(r) /\ EndWith(r, out)
     IN \/ Acknowledged(r, TRUE) /\ Goto(r, "record") /\ UNCHANGED meta /\ Unharmed
        \/ /\ Acknowledged(r, FALSE)
           /\ \E out \in {"retry", "infra"} : ends(out)
           /\ Unharmed
        \/ Fault /\ EndWith(r, "raised") /\ UNCHANGED meta /\ Unharmed
        \/ /\ heard[r] = "refused" /\ NoFault
           /\ \/ ends("retry") /\ MarkActiveProxyUnavailable(r)
              \/ ends("infra") /\ CooldownServiceFrequent(r)
              \/ ends("retry") /\ \E cools \in BOOLEAN : MarkDoubaoVerificationProxy(r, cools)
  /\ unsure' = IF run'[r].pc = "record" THEN unsure ELSE Contradicted(r)
  /\ UNCHANGED <<found, heard, pools, idle>>

\* The proxy is remembered as good; the cookies are read before the record is kept.
DoubaoRecord(r) ==
  /\ platform(r) = "doubao" /\ At(r, "record") /\ RecordDoubaoProxySuccess(r)
  /\ \/ /\ EndWith(r, "done") /\ NoFault /\ UNCHANGED unsure
        /\ meta' = [meta EXCEPT ![r] = [MarkSubmitted(@) EXCEPT !.evidence = TRUE]]
     \/ EndWith(r, "raised") /\ Fault /\ unsure' = Contradicted(r) /\ UNCHANGED meta
  /\ UNCHANGED <<found, heard, pools, idle>>

-----------------------------------------------------------------------------
(* Qianwen and its AI Studio: the worker marks the submission.                 *)

QianwenPage(r) == platform(r) = "qianwen" /\ Step(r, "page", "mode", {"retry"})
ActivateVideoMode(r) == platform(r) = "qianwen" /\ Step(r, "mode", "model", {"retry"})
EnsureVideoModel(r) == platform(r) = "qianwen" /\ Step(r, "model", "settings", {"failed"})
EnsureVideoSettings(r) ==
  /\ platform(r) = "qianwen"
  /\ Step(r, "settings", IF plan[r].images THEN "upload" ELSE "form", {"failed"})
UploadReferenceImages(r) == platform(r) = "qianwen" /\ Step(r, "upload", "form", {"retry"})
FillEditor(r) == platform(r) = "qianwen" /\ Step(r, "form", "begin", {"retry"})

\* _sync_daily_credit, with too little credit among the ways out.
SyncDailyCredit(r) == platform(r) = "studio" /\ Step(r, "credit", "pace", {"infra", "defer"})

\* Mutant: the interface call of a qianwen page counts as a submission.
SubmittedUnconfirmed(r) ==
  /\ platform(r) \in {"qianwen", "studio"} /\ At(r, "answer")
  /\ NoFault /\ UNCHANGED unsure
  /\ Goto(r, "record") /\ UNCHANGED <<meta, found, heard, quiet>>

\* The begun submission is never given back.  Out of credit, the task is deferred.
QianwenAnswers(r) ==
  /\ platform(r) \in {"qianwen", "studio"} /\ At(r, "answer")
  /\ \/ heard[r] = "accepted" /\ Goto(r, "record") /\ NoFault /\ UNCHANGED unsure
     \/ /\ IF heard[r] = "accepted" THEN Fault ELSE NoFault
        /\ \E out \in {"retry", "failed", "defer"} : EndWith(r, out)
        /\ unsure' = Contradicted(r)
     \/ Fault /\ Raises(r) /\ unsure' = Contradicted(r)
  /\ UNCHANGED <<meta, found, heard, quiet>>

\* AI Studio loses the connection.
StudioDisconnects(r) ==
  /\ platform(r) = "studio" /\ At(r, "answer") /\ Fault
  /\ MarkActiveProxyUnavailable(r) /\ EndWith(r, "infra") /\ unsure' = Contradicted(r)
  /\ UNCHANGED <<meta, found, heard, pools, idle>>

QianwenRecord(r) ==
  /\ platform(r) \in {"qianwen", "studio"} /\ At(r, "record")
  /\ \/ /\ EndWith(r, "submitted") /\ NoFault /\ UNCHANGED unsure
        /\ meta' = [meta EXCEPT ![r].evidence = TRUE]
     \/ /\ platform(r) = "qianwen" /\ Raises(r) /\ Fault /\ unsure' = Contradicted(r)
        /\ UNCHANGED meta
  /\ UNCHANGED <<found, heard, quiet>>

-----------------------------------------------------------------------------
(* What the worker makes of the outcome.                                       *)

\* run() after its deadline.  A doubao task that was submitted comes back as not
\* retryable, and the worker fails it.
TimedOut(r, m) ==
  CASE platform(r) = "dola" -> IF found[r] \in {"conversation", "awaiting"} THEN MarkSubmitted(m)
                               ELSE RecordInfrastructureRetry(m)
    [] platform(r) = "doubao" -> IF m.status = "submitted" THEN MarkFailed(m)
                                 ELSE RecordRetry(MarkPending(m))
    [] OTHER -> RecordRetry(MarkPending(m))

Outcomes(r, m, out) ==
  CASE out = "submitted" -> MarkSubmitted(m)
    [] out = "done" -> m
    [] out = "defer" -> DeferTask(m)
    [] out = "transport" /\ source(r) = "api" -> DeferTask(m)
    [] out = "retry" -> RecordRetry(m)
    [] out \in {"infra", "transport", "gateway", "uploadFailed"} -> RecordInfrastructureRetry(m)
    [] out \in {"raised", "spared"} -> RecordInfrastructureRetry(MarkPending(m))
    [] out = "failed" -> MarkFailed(m)
    [] out = "stopped" -> MarkPending(m)
    [] out = "timeout" -> TimedOut(r, m)

\* run() charges an exception of dola's attempt to the proxy only now: the lease is
\* gone, so an endpoint of the API is avoided by this task and stays as it is.
Return(r) ==
  /\ At(r, "return") /\ run' = [run EXCEPT ![r] = Idling]
  /\ meta' = [meta EXCEPT ![r] = Outcomes(r, @, run[r].out)]
  /\ CASE run[r].out \in {"transport", "uploadFailed"} -> CooldownActiveProxyTransport(r)
       [] run[r].out = "gateway" -> \E cools \in BOOLEAN : RecordActiveGatewayFailure(r, cools)
       [] OTHER -> Unharmed
  /\ UNCHANGED <<found, heard, unsure, pools, idle, faults>>

Attempted(r) ==
  \/ Start(r) \/ ChooseSource(r) \/ NoEntry(r)
  \/ ScanExits(r) \/ ExitLaunched(r) \/ ExitLaunchFails(r)
  \/ ScanEntries(r) \/ EntryLaunched(r) \/ EntryReady(r) \/ EntryLaunchFails(r)
  \/ ScanApis(r) \/ Fetched(r) \/ FetchFails(r)
  \/ AcquireBrowser(r) \/ BrowserLaunched(r) \/ ContextOpens(r) \/ BrowserFails(r)
  \/ ReserveUpload(r) \/ UploadBusy(r) \/ Uploaded(r) \/ UploadFails(r)
  \/ DolaPage(r) \/ DolaTurnedAway(r) \/ DolaAnswers(r) \/ DolaSubmitRaises(r)
  \/ DolaRecordRaises(r) \/ DolaRecord(r)
  \/ DoubaoPage(r) \/ OpenVideoEntry(r) \/ SelectVideoModel(r) \/ SelectVideoSettings(r)
  \/ FillForm(r) \/ DoubaoAnswers(r) \/ DoubaoRecord(r)
  \/ QianwenPage(r) \/ ActivateVideoMode(r) \/ EnsureVideoModel(r) \/ EnsureVideoSettings(r)
  \/ UploadReferenceImages(r) \/ FillEditor(r) \/ SyncDailyCredit(r) \/ QianwenAnswers(r)
  \/ StudioDisconnects(r) \/ QianwenRecord(r)
  \/ Begin(r, CASE platform(r) = "dola" -> "send" [] platform(r) = "doubao" -> "mode" [] OTHER -> "pace")
  \/ Pace(r) \/ Send(r) \/ Resend(r)
  \/ StartRelease(r) \/ ContextCloses(r) \/ ReleaseProxy(r) \/ LoseRelease(r) \/ Return(r)
  \/ Interrupt(r) \/ InterruptCleanup(r)
  \/ \E admin \in BOOLEAN : Cancel(r, admin)

Next == ((\E r \in Worker : Attempted(r)) \/ Environment) /\ UNCHANGED fixed

Spec == Init /\ [][Next]_vars

-----------------------------------------------------------------------------
(* Properties.                                                                 *)

\* Every variable keeps its type.
TypeOK ==
  /\ plan \in [Worker -> Plan]
  /\ DOMAIN address \subseteq Node /\ address \in [DOMAIN address -> Address]
  /\ meta \in [Worker -> Meta] /\ run \in [Worker -> Run]
  /\ exits \in [ExitSlot -> Exit] /\ lock \in Worker \cup {NoRunner}
  /\ apis \in [ApiSlot -> Api] /\ fetching \in Nat /\ backoff \in BOOLEAN
  /\ browsers \in [BrowserSlot -> Browser] /\ uploading \subseteq Worker
  /\ asleep \in [Worker -> {"", "exit", "api", "browser", "upload"}]
  /\ cooling \subseteq Node \cup Entry /\ down \subseteq Sources
  /\ pin \in [Worker -> Node \cup {NoNode}]
  /\ avoid \in [Worker -> Node \cup Entry \cup Endpoint \cup {NoNode}]
  /\ found \in [Worker -> {"", "awaiting", "conversation", "rejected"}]
  /\ heard \in [Worker -> {"", "accepted", "refused", "lost"}]
  /\ unsure \in [Worker -> BOOLEAN]
  /\ lost \in [Slot -> Nat] /\ lostFetch \in Nat /\ starts \in Nat /\ faults \in Nat

\* The runners that hold the slot or are launching it, with the leases nobody can
\* give back any more.
Holders(s) == {r \in Worker : run[r].slot = s \/ (run[r].browser = s /\ run[r].pc # "closing")}
Leases(s) == Cardinality(Holders(s)) + lost[s]

\* Every lease of a slot has its holder and every holder its slot: a slot's count is
\* the number of attempts that use it (or lost it), a leased exit, endpoint or browser
\* stays in its pool whatever retires it, an attempt that ended holds nothing, and
\* the counter of fetches counts the fetches.
LeasesStand ==
  /\ \A s \in ExitSlot : exits[s].active = Leases(s) /\ (Leases(s) > 0 => exits[s].use # "free")
  /\ \A s \in ApiSlot : apis[s].active = Leases(s) /\ (Leases(s) > 0 => apis[s].use # "free")
  /\ \A s \in BrowserSlot :
       /\ browsers[s].active = Leases(s) /\ (Leases(s) > 0 => browsers[s].use # "free")
       /\ browsers[s].closing = Cardinality({r \in Worker : run[r].browser = s /\ At(r, "closing")})
  /\ fetching = Cardinality({r \in Worker : At(r, "fetch")}) + lostFetch
  /\ Cardinality(Present(apis)) + fetching <= Cardinality(ApiSlot)
  /\ \A r \in Worker : At(r, "idle") => run[r] = Idling /\ r \notin uploading /\ lock # r

\* The nodes an acquirer of an exit can use.
Wanted(r) == IF At(r, "entry") THEN {run[r].node} ELSE Allowed(r) \ Excluded(r)

\* No attempt sleeps on a pool that could serve it now: what frees a slot wakes who
\* waits for one, and somebody uses, launches or fetches (or lost) a slot of the pool
\* it waits for.  Two exceptions, both of them behaviour of the code (see the hazards):
\* an attempt that avoids a node may be left with idle slots of that node or with none,
\* and then nobody may ever wake it; and one whose new exit turned out to leave through
\* the address of another (also) waits for that one without looking at the idle ones.
NoMissedWakeup ==
  \A r \in Worker :
    /\ asleep[r] = "exit" =>
         /\ run[r].also = {} => ReadyExits(exits, Wanted(r)) = {}
         /\ \/ Excluded(r) # {}
            \/ \E s \in Present(exits) : exits[s].active > 0 \/ exits[s].launching
    /\ asleep[r] = "api" =>
         /\ Candidates(apis, Excluded(r)) = {}
         /\ \/ fetching > 0
            \/ \E s \in Present(apis) : apis[s].active > 0 \/ apis[s].node \in Excluded(r)
    /\ asleep[r] = "browser" =>
         /\ Usable(browsers, Key(r)) = {}
         /\ Starting(browsers, Key(r)) \/ (Vacant(browsers) = {} /\ Idle(browsers) = {})
    /\ asleep[r] = "upload" => Cardinality(uploading) >= UploadSlots

\* A task is submitted exactly when the platform took the request of its last
\* attempt, unless an administrator canceled it: whatever fails after the record was
\* kept, and whatever refuses the request, the record says what happened.  (Not of
\* an attempt that lost or contradicted the answer: unsure.)
SubmissionRecorded ==
  \A r \in Worker : At(r, "idle") /\ meta[r].status \notin {"canceled", "success"} /\ ~unsure[r] =>
    (meta[r].status = "submitted" <=> heard[r] = "accepted")
=============================================================================
