------------------------------- MODULE Wallet -------------------------------
(* Users, their token rows, point cards, memberships and the charges of tasks *)
(* (app/users.py, app/temp_access.py, app/point_cards.py, the handlers of     *)
(* app/main.py that use them, store.migrate_task_owner).                      *)
(*                                                                            *)
(* A user row and its token row are separate records with separate commits.   *)
(* The functions of users.py run under one process-wide lock, and the handlers *)
(* that call them, redeem a card or migrate tasks do not await in between: at *)
(* most one is under way, and op says which commits it has still to make.     *)
(* Creations of tasks run their storage calls in threads, the refunds of ended *)
(* tasks come from the workers: both interleave with the steps of op.         *)
EXTENDS TokenLedger, Memberships, FiniteSetsExt

CONSTANTS
  User, Card,
  MaxHash,     \* bound: token hashes ever minted on request; a start-up mints one more
  MaxActs,     \* bound: acts of the administrator, settings, faults
  FreeLimit,   \* the video quota of a new token, in units
  CardUnits,   \* points_units of a card
  BaseCost,    \* model_cost_units of the model the tasks use
  VideoCost,   \* model_video_quota_cost_units
  Amount,      \* units the administrator adds or takes
  Limits,      \* concurrency limits the administrator sets
  Fresh        \* bound: the tasks that requests create; retries create the others

ASSUME WalletConstants ==
  /\ MaxHash \in Nat /\ MaxActs \in Nat /\ FreeLimit \in Nat
  /\ CardUnits \in Nat \ {0} /\ BaseCost \in Nat \ {0} /\ VideoCost \in Nat \ {0}
  /\ Fresh \subseteq Task /\ Amount \subseteq Nat \ {0} /\ Limits \subseteq Nat \ {0}

Hash == 1 .. MaxHash + 1   \* in the order they are minted
NoHash == 0

VARIABLES
  minted,   \* hashes in use or used before
  tok,      \* the rows of temp_tokens
  usr,      \* the rows of users
  task,     \* status and owner_token_hash of the tasks
  req,      \* the request that creates a task: its step, hash and price, and the
            \* failed task it replaces, if any
  seen,     \* the owner hash a worker read and will refund, or NoHash
  card,     \* the status of the cards
  op,       \* the operation under way on the API's event loop
  up,       \* the API process runs
  acts,     \* acts so far
  book,     \* ghost: what the user was given, less what was taken for good
  paid,     \* ghost: membership time paid for
  spent,    \* ghost: membership time that ran off
  credited, \* ghost: how often a card was credited
  cut       \* ghost: users who lost their token row, <<u, "wallet">>, a purchase,
            \* <<u, "member">>, or a change of their limit, <<u, "slots">>, and tasks
            \* whose charge was deleted with its row or, by a retry, refunded when they
            \* were in the queue already, <<t, "charge">>

ledger == <<minted, tok>>
taskVars == <<task, req, seen>>
ghosts == <<book, paid, spent, credited, cut>>
vars == <<minted, tok, usr, task, req, seen, card, op, up, acts, book, paid, spent, credited, cut>>

NoUser == [there |-> FALSE]
Ended == {"success", "failed", "settled"}   \* settled: failed, and the refund is done
NoTask == [st |-> "none", owner |-> NoHash, born |-> NoHash]
IdleReq == [at |-> "idle"]
NewReq(step, h, old) == [at |-> step, hash |-> h, cost |-> 0, drop |-> old]
Idle == [at |-> "idle"]
Zero == [p \in Package |-> 0]

Init ==
  /\ minted = 0
  /\ tok = [h \in Hash |-> NoEntry]
  /\ usr = [u \in User |-> NoUser]
  /\ task = [t \in Task |-> NoTask]
  /\ req = [t \in Task |-> IdleReq]
  /\ seen = [t \in Task |-> NoHash]
  /\ card = [c \in Card |-> "none"]
  /\ op = Idle /\ up = TRUE /\ acts = 0
  /\ book = [u \in User |-> [video |-> 0, credit |-> 0]]
  /\ paid = [u \in User |-> Zero]
  /\ spent = [u \in User |-> Zero]
  /\ credited = [c \in Card |-> 0]
  /\ cut = {}

-----------------------------------------------------------------------------
\* The event loop is free for the next handler.
Ready == up /\ op = Idle

IsThere(h) == h \in Hash /\ tok[h] # NoEntry

Exists(t) == task[t].st \notin {"none", "deleted"}

HasRow(u) == usr[u].there /\ IsThere(usr[u].hash)

\* A signed-in user: require_temp found the row of its token.
SignedIn(u) == HasRow(u) /\ usr[u].enabled

\* Bounds: a behaviour with retries of tasks has no memberships and no point cards.
NoMembers == \A u \in User : paid[u] = Zero
NoCards == \A c \in Card : card[c] = "none"
NoRetries == \A t \in Task \ Fresh : task[t] = NoTask /\ req[t] = IdleReq

Act == acts < MaxActs /\ acts' = acts + 1

\* list_users writes the memberships it brings up to date, not the limits.
SyncAll == [u \in User |-> IF usr[u].there
                             THEN [usr[u] EXCEPT !.mem = SyncMembershipState(@)]
                             ELSE usr[u]]

-----------------------------------------------------------------------------
(* Registration.                                                             *)

\* The token comes first: a crash here leaves a row nobody can use.
RegisterToken(u) ==
  /\ Ready /\ ~usr[u].there /\ minted < MaxHash
  /\ minted' = minted + 1
  /\ tok' = [tok EXCEPT ![minted + 1] = CreateTempToken(FreeLimit)]
  /\ op' = [at |-> "register", user |-> u, hash |-> minted + 1]
  /\ UNCHANGED <<usr, taskVars, card, up, acts, ghosts>>

RegisterUser ==
  /\ op.at = "register"
  /\ LET u == op.user
     IN  /\ usr' = [usr EXCEPT ![u] =
                     [there |-> TRUE, hash |-> op.hash, enabled |-> TRUE, base |-> 1, eff |-> 1,
                      discount |-> 0, mem |-> [p \in Package |-> NoMembership]]]
         /\ book' = [book EXCEPT ![u] = [video |-> FreeLimit, credit |-> 0]]
         /\ paid' = [paid EXCEPT ![u] = Zero]
         /\ spent' = [spent EXCEPT ![u] = Zero]
         /\ cut' = cut \ ({u} \X {"wallet", "member", "slots"})
  /\ op' = Idle
  /\ UNCHANGED <<ledger, taskVars, card, up, acts, credited>>

\* Ghost: the charges a deleted row takes with it.
DeletedCharges(h) ==
  {<<t, "charge">> : t \in {s \in Task : IsThere(h) /\ tok[h].res[s].status = "reserved"}}

\* delete_user: the user row, then the token row.
DeleteUser(u) ==
  /\ Ready /\ usr[u].there /\ Act
  /\ op' = [at |-> "unregister", hash |-> usr[u].hash]
  /\ usr' = [usr EXCEPT ![u] = NoUser]
  /\ UNCHANGED <<ledger, taskVars, card, up, ghosts>>

DeleteUserToken ==
  /\ op.at = "unregister"
  /\ tok' = [tok EXCEPT ![op.hash] = NoEntry]
  /\ op' = Idle
  /\ cut' = cut \cup DeletedCharges(op.hash)
  /\ UNCHANGED <<minted, usr, taskVars, card, up, acts, book, paid, spent, credited>>

\* temp_tokens_delete: the administrator deletes a row, a user's too.
DeleteTempToken(h) ==
  /\ Ready /\ IsThere(h) /\ Act
  /\ tok' = [tok EXCEPT ![h] = NoEntry]
  /\ cut' = cut \cup DeletedCharges(h)
              \cup {<<u, "wallet">> : u \in {v \in User : usr[v].there /\ usr[v].hash = h}}
  /\ UNCHANGED <<minted, usr, taskVars, card, op, up, book, paid, spent, credited>>

-----------------------------------------------------------------------------
(* A new token for a user: the row moves to a new hash (copied and deleted in *)
(* one transaction), then the user row follows, then the tasks one by one.    *)

\* Mutant: the old row stays behind the copy.
CopyToken(h, new) == [tok EXCEPT ![new] = tok[h]]

MoveToken(h, new) == [tok EXCEPT ![new] = tok[h], ![h] = NoEntry]

RotateTempToken(u) ==
  /\ Ready /\ SignedIn(u) /\ minted < MaxHash
  /\ minted' = minted + 1
  /\ tok' = MoveToken(usr[u].hash, minted + 1)
  /\ op' = [at |-> "rotated", user |-> u, old |-> usr[u].hash, hash |-> minted + 1]
  /\ UNCHANGED <<usr, taskVars, card, up, acts, ghosts>>

\* A new token on request, and with a new or a forgotten password.
RotateUserToken(u) == RotateTempToken(u)
ChangeUserPassword(u) == RotateTempToken(u)
ResetUserPassword(u) == RotateTempToken(u)

RotateUser ==
  /\ op.at = "rotated"
  /\ usr' = [usr EXCEPT ![op.user].hash = op.hash]
  /\ op' = [op EXCEPT !.at = "list"]
  /\ UNCHANGED <<ledger, taskVars, card, up, acts, ghosts>>

ListOwnedTasks ==
  /\ op.at = "list"
  /\ LET owned == {t \in Task : Exists(t) /\ task[t].owner = op.old}
     IN  op' = IF owned = {} THEN Idle
               ELSE [at |-> "migrate", hash |-> op.hash, todo |-> owned]
  /\ UNCHANGED <<ledger, usr, taskVars, card, up, acts, ghosts>>

\* A task deleted since it was listed raises: the tasks that are left keep the
\* old hash.
MigrateTaskOwner(t) ==
  /\ op.at = "migrate" /\ t \in op.todo
  /\ IF ~Exists(t)
       THEN op' = Idle /\ UNCHANGED task
       ELSE /\ task' = [task EXCEPT ![t].owner = op.hash]
            /\ op' = IF op.todo = {t} THEN Idle ELSE [op EXCEPT !.todo = @ \ {t}]
  /\ UNCHANGED <<ledger, usr, req, seen, card, up, acts, ghosts>>

-----------------------------------------------------------------------------
(* Memberships.                                                              *)

\* purchase_user_membership: points, bonus and the package's limit in the token
\* row; then the limit of the membership that is active; then the user row.
PurchaseMembership(u, p) ==
  LET h == usr[u].hash
      ms == SyncMembershipState(usr[u].mem)
  IN  /\ Ready /\ SignedIn(u) /\ NoRetries
      /\ MayPurchase(ms, p) /\ CanDeduct(tok[h], Price[p])
      /\ tok' = [tok EXCEPT ![h] = PurchaseTempMembership(@, Price[p], Bonus[p], Slots[p])]
      /\ op' = [at |-> "bought", user |-> u, hash |-> h,
                mem |-> SyncMembershipState(Bought(ms, p))]
      /\ book' = [book EXCEPT ![u] = [video |-> @.video + Bonus[p], credit |-> @.credit - Price[p]]]
      /\ paid' = [paid EXCEPT ![u][p] = @ + Days[p]]
      /\ UNCHANGED <<minted, usr, taskVars, card, up, acts, spent, credited, cut>>

LimitPurchased ==
  /\ op.at = "bought"
  /\ LET eff == EffectiveConcurrency(op.mem, usr[op.user].base)
     IN  /\ tok' = [tok EXCEPT ![op.hash] = UpdateConcurrency(@, eff)]
         /\ op' = [at |-> "limited", user |-> op.user, mem |-> op.mem, eff |-> eff,
                   base |-> usr[op.user].base]
  /\ UNCHANGED <<minted, usr, taskVars, card, up, acts, ghosts>>

\* The commit of the user row that ends a purchase or a change of the limit.
WriteUser ==
  /\ op.at = "limited"
  /\ usr' = [usr EXCEPT ![op.user].mem = op.mem, ![op.user].eff = op.eff,
                        ![op.user].base = op.base]
  /\ op' = Idle
  /\ cut' = cut \ {<<op.user, "slots">>}
  /\ UNCHANGED <<ledger, taskVars, card, up, acts, book, paid, spent, credited>>

\* set_user_concurrency: into the active membership, or the user's own limit.
SetUserConcurrency(u, n) ==
  /\ Ready /\ HasRow(u) /\ Act
  /\ LET ms == SyncMembershipState(usr[u].mem)
         base == IF ActivePackages(ms) = {} THEN n ELSE usr[u].base
     IN  op' = [at |-> "limited", user |-> u, mem |-> SetSlots(ms, n), eff |-> n, base |-> base]
  /\ tok' = [tok EXCEPT ![usr[u].hash] = UpdateConcurrency(@, n)]
  /\ UNCHANGED <<minted, usr, taskVars, card, up, ghosts>>

\* Mutant: the token row keeps the limit of a membership that has expired.
SyncUserRow(u) ==
  /\ Ready /\ SignedIn(u)
  /\ LET ms == SyncMembershipState(usr[u].mem)
     IN  usr' = [usr EXCEPT ![u].mem = ms, ![u].eff = EffectiveConcurrency(ms, usr[u].base)]
  /\ UNCHANGED <<ledger, taskVars, card, op, up, acts, ghosts>>

\* sync_user_membership_by_token_hash, with every request: the user row, then the
\* token row if its limit, as read before, is another one.
SyncUserMembership(u) ==
  /\ Ready /\ SignedIn(u)
  /\ LET ms == SyncMembershipState(usr[u].mem)
         eff == EffectiveConcurrency(ms, usr[u].base)
     IN  /\ usr' = [usr EXCEPT ![u].mem = ms, ![u].eff = eff]
         /\ op' = IF tok[usr[u].hash].conc = eff THEN Idle
                  ELSE [at |-> "synced", user |-> u, hash |-> usr[u].hash]
         /\ cut' = IF op' = Idle THEN cut \ {<<u, "slots">>} ELSE cut
  /\ UNCHANGED <<ledger, taskVars, card, up, acts, book, paid, spent, credited>>

SyncToken ==
  /\ op.at = "synced"
  /\ tok' = [tok EXCEPT ![op.hash] = UpdateConcurrency(@, usr[op.user].eff)]
  /\ op' = Idle
  /\ cut' = cut \ {<<op.user, "slots">>}
  /\ UNCHANGED <<minted, usr, taskVars, card, up, acts, book, paid, spent, credited>>

ListUsers ==
  /\ Ready
  /\ usr' = SyncAll
  /\ UNCHANGED <<ledger, taskVars, card, op, up, acts, ghosts>>

\* The time of an active membership runs, whether or not anybody looks; a
\* purchase takes none of it.
Tick(u) ==
  /\ usr[u].there
  /\ \E p \in ActivePackages(usr[u].mem) :
       /\ usr[u].mem[p].run < usr[u].mem[p].left
       /\ usr' = [usr EXCEPT ![u].mem[p].run = @ + 1]
       /\ spent' = [spent EXCEPT ![u][p] = @ + 1]
  /\ op.at \notin {"bought", "limited"}
  /\ UNCHANGED <<ledger, taskVars, card, op, up, acts, book, paid, credited, cut>>

-----------------------------------------------------------------------------
(* The administrator.                                                        *)

\* Each finds the user's token row by the hash in the user row.
AddUserPoints(u, n) ==
  /\ tok' = [tok EXCEPT ![usr[u].hash] = AddTempCredit(@, n)]
  /\ book' = [book EXCEPT ![u].credit = @ + n]

DeductUserPoints(u, n) ==
  /\ CanDeduct(tok[usr[u].hash], n)
  /\ tok' = [tok EXCEPT ![usr[u].hash] = DeductTempPoints(@, n)]
  /\ book' = [book EXCEPT ![u].credit = @ - n]

AdjustUserVideoQuota(u, change) ==
  /\ CanAdjust(tok[usr[u].hash], change)
  /\ tok' = [tok EXCEPT ![usr[u].hash] = AdjustTempVideoQuota(@, change)]
  /\ book' = [book EXCEPT ![u].video = @ + change]

\* users_add_points and users_deduct_points: points or video quota; the answer
\* lists the users, too.
UsersAddPoints(u, n) ==
  /\ Ready /\ HasRow(u) /\ Act
  /\ AddUserPoints(u, n) \/ AdjustUserVideoQuota(u, n)
  /\ usr' = SyncAll
  /\ UNCHANGED <<minted, taskVars, card, op, up, paid, spent, credited, cut>>

UsersDeductPoints(u, n) ==
  /\ Ready /\ HasRow(u) /\ Act
  /\ DeductUserPoints(u, n) \/ AdjustUserVideoQuota(u, -n)
  /\ usr' = SyncAll
  /\ UNCHANGED <<minted, taskVars, card, op, up, paid, spent, credited, cut>>

SetUserEnabled(u) ==
  /\ Ready /\ usr[u].there /\ Act
  /\ usr' = [usr EXCEPT ![u].enabled = ~@]
  /\ UNCHANGED <<ledger, taskVars, card, op, up, ghosts>>

SetModelDiscounts(u, n) ==
  /\ Ready /\ usr[u].there /\ Act
  /\ usr' = [usr EXCEPT ![u].discount = n]
  /\ UNCHANGED <<ledger, taskVars, card, op, up, ghosts>>

\* By the user itself.
SetTempBillingPriority(u, first) ==
  /\ Ready /\ SignedIn(u) /\ tok[usr[u].hash].first # first /\ Act
  /\ tok' = [tok EXCEPT ![usr[u].hash] = SetBillingPriority(@, first)]
  /\ UNCHANGED <<minted, usr, taskVars, card, op, up, ghosts>>

-----------------------------------------------------------------------------
(* Point cards: unused, then redeeming while the points are credited, then    *)
(* redeemed.  A crash in between leaves the card redeeming for good.          *)

GenerateCards(c) ==
  /\ Ready /\ card[c] = "none" /\ NoRetries
  /\ card' = [card EXCEPT ![c] = "unused"]
  /\ UNCHANGED <<ledger, usr, taskVars, op, up, acts, ghosts>>

DeleteCards(c) ==
  /\ Ready /\ card[c] # "none" /\ Act
  /\ card' = [card EXCEPT ![c] = "deleted"]
  /\ UNCHANGED <<ledger, usr, taskVars, op, up, ghosts>>

\* Mutant: a card that is being redeemed can be redeemed.
CardUsable(c) == card[c] \in {"unused", "redeeming"}

CardUnused(c) == card[c] = "unused"

RedeemCard(u, c) ==
  /\ Ready /\ SignedIn(u) /\ CardUnused(c)
  /\ card' = [card EXCEPT ![c] = "redeeming"]
  /\ op' = [at |-> "redeem", user |-> u, hash |-> usr[u].hash, card |-> c]
  /\ UNCHANGED <<ledger, usr, taskVars, up, acts, ghosts>>

CreditCard ==
  /\ op.at = "redeem"
  /\ tok' = [tok EXCEPT ![op.hash] = AddTempCredit(@, CardUnits)]
  /\ book' = [book EXCEPT ![op.user].credit = @ + CardUnits]
  /\ credited' = [credited EXCEPT ![op.card] = @ + 1]
  /\ op' = [at |-> "credited", card |-> op.card]
  /\ UNCHANGED <<minted, usr, taskVars, card, up, acts, paid, spent, cut>>

\* The storage refuses to credit the points: the card can be used again.
CreditFails ==
  /\ op.at = "redeem"
  /\ card' = [card EXCEPT ![op.card] = "unused"]
  /\ op' = Idle
  /\ UNCHANGED <<ledger, usr, taskVars, up, acts, ghosts>>

CloseCard ==
  /\ op.at = "credited"
  /\ card' = [card EXCEPT ![op.card] = "redeemed"]
  /\ op' = Idle
  /\ UNCHANGED <<ledger, usr, taskVars, up, acts, ghosts>>

-----------------------------------------------------------------------------
(* The creation of a task, one storage call per step.  The hash is the one    *)
(* the request signed in with, whatever became of it since.                   *)

CreateTask(t, u) ==
  /\ up /\ SignedIn(u) /\ req[t] = IdleReq /\ task[t] = NoTask /\ t \in Fresh
  /\ \A s \in Task : req[s] # IdleReq => req[s].hash # usr[u].hash
  /\ task' = [task EXCEPT ![t] = [st |-> "initializing", owner |-> usr[u].hash,
                                  born |-> usr[u].hash]]
  /\ req' = [req EXCEPT ![t] = NewReq("price", usr[u].hash, {})]
  /\ UNCHANGED <<ledger, usr, seen, card, op, up, acts, ghosts>>

\* find_or_create_task finds the record an earlier request could not clean up.
ResumeTask(t, u) ==
  /\ up /\ SignedIn(u) /\ req[t] = IdleReq
  /\ task[t].st = "initializing" /\ task[t].born = usr[u].hash
  /\ \A s \in Task : req[s] # IdleReq => req[s].hash # usr[u].hash
  /\ req' = [req EXCEPT ![t] = NewReq("price", usr[u].hash, {})]
  /\ UNCHANGED <<ledger, usr, task, seen, card, op, up, acts, ghosts>>

\* retry_completed_task and bulk_retry_failed_tasks: a new task for the owner the
\* ended one is read to have, whose row must exist.  No limit of requests applies.
RetryTask(t, old) ==
  /\ up /\ req[t] = IdleReq /\ task[t] = NoTask /\ t \notin Fresh /\ NoMembers /\ NoCards
  /\ task[old].st \in Ended /\ IsThere(task[old].owner)
  /\ req' = [req EXCEPT ![t] = NewReq("retry", task[old].owner,
                                      IF task[old].st = "success" THEN {} ELSE {old})]
  /\ UNCHANGED <<ledger, usr, task, seen, card, op, up, acts, ghosts>>

CreateRetry(t) ==
  /\ req[t].at = "retry"
  /\ task' = [task EXCEPT ![t] = [st |-> "initializing", owner |-> req[t].hash,
                                  born |-> req[t].hash]]
  /\ req' = [req EXCEPT ![t].at = "price"]
  /\ UNCHANGED <<ledger, usr, seen, card, op, up, acts, ghosts>>

\* task_discount_units_by_token_hash: nothing off for a hash nobody owns now.
DiscountUnits(h) ==
  LET owners == {u \in User : usr[u].there /\ usr[u].hash = h}
  IN  IF owners = {} THEN 0
      ELSE LET u == CHOOSE v \in owners : TRUE
           IN  MembershipDiscount(usr[u].mem) + usr[u].discount

Cost(h) == Max({1, BaseCost - DiscountUnits(h)})

ReadPrice(t) ==
  /\ req[t].at = "price"
  /\ req' = [req EXCEPT ![t].at = "reserve", ![t].cost = Cost(req[t].hash)]
  /\ UNCHANGED <<ledger, usr, task, seen, card, op, up, acts, ghosts>>

ReserveQuota(t) ==
  LET h == req[t].hash
  IN  /\ req[t].at = "reserve"
      /\ IsThere(h) /\ CanReserve(tok[h], t, req[t].cost, VideoCost)
      /\ tok' = [tok EXCEPT ![h] = ReserveTempQuota(@, t, req[t].cost, VideoCost)]
      /\ req' = [req EXCEPT ![t].at = "files"]
      /\ UNCHANGED <<minted, usr, task, seen, card, op, up, acts, ghosts>>

\* QuotaExceeded: the token is gone, the charge is closed or the balance short.
QuotaExceeded(t) ==
  LET h == req[t].hash
  IN  /\ req[t].at = "reserve"
      /\ IsThere(h) => ~CanReserve(tok[h], t, req[t].cost, VideoCost)
      /\ req' = [req EXCEPT ![t].at = "delete"]
      /\ UNCHANGED <<ledger, usr, task, seen, card, op, up, acts, ghosts>>

FinalizeTask(t) ==
  /\ req[t].at = "files"
  /\ task' = [task EXCEPT ![t].st = "live"]
  /\ req' = [req EXCEPT ![t] = IF @.drop = {} THEN IdleReq ELSE [@ EXCEPT !.at = "drop"]]
  /\ UNCHANGED <<ledger, usr, seen, card, op, up, acts, ghosts>>

\* The failed task is deleted when the one that replaces it is in the queue.
DropOriginal(t) ==
  /\ req[t].at = "drop"
  /\ task' = [s \in Task |-> IF s \in req[t].drop THEN [task[s] EXCEPT !.st = "deleted"]
                             ELSE task[s]]
  /\ req' = [req EXCEPT ![t] = IdleReq]
  /\ UNCHANGED <<ledger, usr, seen, card, op, up, acts, ghosts>>

\* Saving the files or a storage call fails: refund, then delete the record.
\* A retry that fails to delete the task it replaces does this to a queued task.
CreationFails(t) ==
  /\ req[t].at \in {"price", "reserve", "files", "drop"}
  /\ req' = [req EXCEPT ![t].at = "refund"]
  /\ UNCHANGED <<ledger, usr, task, seen, card, op, up, acts, ghosts>>

\* refund_temp_quota_hash: False when there is no such row.
RefundAt(h, t) ==
  IF IsThere(h) THEN [tok EXCEPT ![h] = RefundTempQuota(@, t)] ELSE tok

RefundCreation(t) ==
  /\ req[t].at = "refund"
  /\ tok' = RefundAt(req[t].hash, t)
  /\ req' = [req EXCEPT ![t].at = "delete"]
  /\ cut' = IF task[t].st = "initializing" THEN cut ELSE cut \cup {<<t, "charge">>}
  /\ UNCHANGED <<minted, usr, task, seen, card, op, up, acts, book, paid, spent, credited>>

DeleteCreation(t) ==
  /\ req[t].at = "delete"
  /\ task' = [task EXCEPT ![t].st = "none", ![t].owner = NoHash]
  /\ req' = [req EXCEPT ![t] = IdleReq]
  /\ UNCHANGED <<ledger, usr, seen, card, op, up, acts, ghosts>>

\* The clean-up itself fails: the record stays, charged or not.
CleanUpFails(t) ==
  /\ req[t].at \in {"refund", "delete"} /\ Act
  /\ req' = [req EXCEPT ![t] = IdleReq]
  /\ UNCHANGED <<ledger, usr, task, seen, card, op, up, ghosts>>

\* openai_chat_completions makes all these calls without awaiting: a request that
\* fails leaves nothing, and one that a crash cuts short what CreateTask would.
CreateChatTask(t, u) ==
  LET h == usr[u].hash
  IN  /\ Ready /\ SignedIn(u) /\ req[t] = IdleReq /\ task[t] = NoTask /\ t \in Fresh
      /\ CanReserve(tok[h], t, Cost(h), VideoCost)
      /\ task' = [task EXCEPT ![t] = [st |-> "live", owner |-> h, born |-> h]]
      /\ tok' = [tok EXCEPT ![h] = ReserveTempQuota(@, t, Cost(h), VideoCost)]
      /\ UNCHANGED <<minted, usr, req, seen, card, op, up, acts, ghosts>>

-----------------------------------------------------------------------------
(* The end of a task.  A worker or a query refunds the owner named by the     *)
(* record it read before, which may have moved to another hash since.         *)

ReadOwner(t) ==
  /\ task[t].st = "live" /\ seen[t] = NoHash
  /\ seen' = [seen EXCEPT ![t] = task[t].owner]
  /\ UNCHANGED <<ledger, usr, task, req, card, op, up, acts, ghosts>>

EndTask(t, st) ==
  /\ task[t].st = "live" /\ seen[t] # NoHash
  /\ task' = [task EXCEPT ![t].st = st]
  /\ UNCHANGED <<ledger, usr, req, seen, card, op, up, acts, ghosts>>

RefundEnded(t) ==
  /\ task[t].st \in {"failed", "deleted"} /\ seen[t] # NoHash
  /\ tok' = RefundAt(seen[t], t)
  /\ task' = [task EXCEPT ![t].st = IF @ = "failed" THEN "settled" ELSE @]
  /\ seen' = [seen EXCEPT ![t] = NoHash]
  /\ UNCHANGED <<minted, usr, req, card, op, up, acts, ghosts>>

\* The process that was to refund dies: nobody does it later.
RefundLost(t) ==
  /\ task[t].st \in {"failed", "deleted"} /\ seen[t] # NoHash /\ Act
  /\ seen' = [seen EXCEPT ![t] = NoHash]
  /\ UNCHANGED <<ledger, usr, task, req, card, op, up, ghosts>>

\* cleanup_terminal_tasks_before_local_day, every night and on request: the
\* record of a task that ended goes, also while a migration or a retry has it in hand.
CleanUpTask(t) ==
  /\ up /\ task[t].st \in Ended /\ Act
  /\ task' = [task EXCEPT ![t].st = "deleted"]
  /\ UNCHANGED <<ledger, usr, req, seen, card, op, up, ghosts>>

-----------------------------------------------------------------------------
\* What a crash cuts off: the commits that op still had to make.
CutOff ==
  CASE op.at = "rotated" -> {<<op.user, "wallet">>}
    [] op.at = "bought" -> {<<op.user, "member">>, <<op.user, "slots">>}
    [] op.at = "limited" -> {<<op.user, "member">>, <<op.user, "slots">>}
    [] op.at = "synced" -> {<<op.user, "slots">>}
    [] OTHER -> {}

Crash ==
  /\ up /\ Act
  /\ up' = FALSE
  /\ op' = Idle
  /\ req' = [t \in Task |-> IdleReq]
  /\ cut' = cut \cup CutOff
  /\ UNCHANGED <<ledger, usr, task, seen, card, book, paid, spent, credited>>

\* repair_registered_user_tokens at the head of lifespan: a user whose token row is
\* gone gets a new one, with the free quota of a new user.  The user rows are written
\* together at the end, but nobody reads them before: user by user is the same.
RepairUserToken(u) ==
  /\ ~up /\ usr[u].there /\ ~HasRow(u) /\ minted <= MaxHash
  /\ minted' = minted + 1
  /\ tok' = [tok EXCEPT ![minted + 1] = CreateTempToken(FreeLimit)]
  /\ usr' = [usr EXCEPT ![u].hash = minted + 1]
  /\ book' = [book EXCEPT ![u] = [video |-> FreeLimit, credit |-> 0]]
  /\ cut' = (cut \ {<<u, "wallet">>}) \cup {<<u, "slots">>}
  /\ UNCHANGED <<taskVars, card, op, up, acts, paid, spent, credited>>

\* lifespan: when all tokens are repaired, the creations that were cut short fail,
\* and are refunded like any other task.
StartUp ==
  LET cutShort == {t \in Task : task[t].st = "initializing"}
  IN  /\ ~up
      /\ \A u \in User : usr[u].there => HasRow(u)
      /\ up' = TRUE
      /\ task' = [t \in Task |-> IF t \in cutShort THEN [task[t] EXCEPT !.st = "failed"] ELSE task[t]]
      /\ seen' = [t \in Task |-> IF t \in cutShort THEN task[t].owner ELSE seen[t]]
      /\ UNCHANGED <<ledger, usr, req, card, op, acts, ghosts>>

Account(u) ==
  \/ RegisterToken(u) \/ DeleteUser(u) \/ SyncUserMembership(u) \/ Tick(u)
  \/ RotateUserToken(u) \/ ChangeUserPassword(u) \/ ResetUserPassword(u)
  \/ \E p \in Package : PurchaseMembership(u, p)
  \/ \E n \in Limits : SetUserConcurrency(u, n)
  \/ \E n \in Amount : UsersAddPoints(u, n) \/ UsersDeductPoints(u, n) \/ SetModelDiscounts(u, n)
  \/ SetUserEnabled(u)
  \/ \E first \in {"video", "points"} : SetTempBillingPriority(u, first)
  \/ \E c \in Card : RedeemCard(u, c)

Continue ==
  \/ RegisterUser \/ DeleteUserToken \/ RotateUser \/ ListOwnedTasks
  \/ \E t \in Task : MigrateTaskOwner(t)
  \/ LimitPurchased \/ WriteUser \/ SyncToken
  \/ CreditCard \/ CreditFails \/ CloseCard

Charge(t) ==
  \/ \E u \in User : CreateTask(t, u) \/ ResumeTask(t, u) \/ CreateChatTask(t, u)
  \/ \E old \in Task : RetryTask(t, old)
  \/ CreateRetry(t) \/ DropOriginal(t)
  \/ ReadPrice(t) \/ ReserveQuota(t) \/ QuotaExceeded(t) \/ FinalizeTask(t)
  \/ CreationFails(t) \/ RefundCreation(t) \/ DeleteCreation(t) \/ CleanUpFails(t)
  \/ ReadOwner(t) \/ RefundEnded(t) \/ RefundLost(t) \/ CleanUpTask(t)
  \/ \E st \in {"failed", "success"} : EndTask(t, st)

Next ==
  \/ \E u \in User : Account(u) \/ RepairUserToken(u)
  \/ Continue
  \/ \E t \in Task : Charge(t)
  \/ \E h \in Hash : DeleteTempToken(h)
  \/ \E c \in Card : GenerateCards(c) \/ DeleteCards(c)
  \/ ListUsers \/ Crash \/ StartUp

Spec == Init /\ [][Next]_vars

-----------------------------------------------------------------------------
(* Properties.                                                               *)

\* The row that holds the user's balance: the new one while the user row lags.
Purse(u) == IF op.at = "rotated" /\ op.user = u THEN op.hash ELSE usr[u].hash

\* The units of the charges that stand, a pair for each.
Open(e, free) == {t \in Task : e.res[t].status = "reserved" /\ e.res[t].free = free}
OpenUnits(e, free) == UNION {{t} \X (1 .. e.res[t].units) : t \in Open(e, free)}
Outstanding(e, free) == Cardinality(OpenUnits(e, free))

\* Unless its token row was deleted, or lost to a crash between the two commits of
\* a rotation, a user has its row, and what it holds plus the charges that stand is
\* what the user was given less what was taken: no rotation, refund, repeated
\* reservation, redemption or purchase makes or destroys a unit or overdraws the row.
WalletKept ==
  \A u \in User : usr[u].there /\ <<u, "wallet">> \notin cut =>
    /\ IsThere(Purse(u)) /\ tok[Purse(u)].video >= 0 /\ tok[Purse(u)].credit >= 0
    /\ tok[Purse(u)].video + Outstanding(tok[Purse(u)], TRUE) = book[u].video
    /\ tok[Purse(u)].credit + Outstanding(tok[Purse(u)], FALSE) = book[u].credit

\* A task is charged in one row at most; a task that workers may run, or that
\* succeeded, still is, unless the row was cut off; and a task whose refund was
\* called has no charge left unless its owner's token was replaced meanwhile.
ChargesMatch ==
  \A t \in Task :
    LET charged == {h \in Hash : tok[h] # NoEntry /\ tok[h].res[t].status = "reserved"}
    IN  /\ \A g, h \in charged : g = h
        /\ task[t].st \in {"live", "success"} /\ <<t, "charge">> \notin cut => charged # {}
        /\ task[t].st = "settled" => task[t].born \notin charged

\* A card is credited once at most, whatever crashes or fails between its steps,
\* and never while it can still be redeemed.
CardOnce ==
  \A c \in Card : /\ credited[c] <= 1
                  /\ card[c] \in {"none", "unused"} => credited[c] = 0
                  /\ card[c] = "redeemed" => credited[c] = 1

\* The time of a membership that was paid for either ran off while it was the
\* active one or is still there, through pauses, upgrades and late syncs, unless a
\* crash lost the purchase; and one membership at most is active.
TimeKept ==
  \A u \in User : usr[u].there =>
    /\ Cardinality(ActivePackages(usr[u].mem)) <= 1
    /\ <<u, "member">> \notin cut /\ op.at \notin {"bought", "limited"} =>
         \A p \in Package : Remaining(usr[u].mem[p]) + spent[u][p] = paid[u][p]

\* Between two operations the limit the workers read in the token row is the one
\* of the user row; after a crash between the two, from the next sync on.
SlotsAgree ==
  \A u \in User : usr[u].there /\ IsThere(usr[u].hash) /\ op = Idle
                    /\ <<u, "slots">> \notin cut /\ <<u, "wallet">> \notin cut =>
    tok[usr[u].hash].conc = usr[u].eff

=============================================================================
