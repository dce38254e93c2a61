---------------------------- MODULE InboxReceipts -----------------------------
(***************************************************************************)
(* Receipt of ActivityPub activities: the deduplication rows of            *)
(* src/crates/cfwdon-worker/src/inbox/activity_store.rs, the receipts of   *)
(* inbox.rs that begin, handle and finish an activity, the hourly reclaim  *)
(* of receipts that died, and what the handlers change: the followers and  *)
(* follow requests of one local account (inbox/follow_handlers.rs,         *)
(* inbox/interactions.rs) beside the owner who answers the requests        *)
(* (follow_requests.rs), and one remote status (inbox/status_handlers.rs). *)
(*                                                                         *)
(* All activities come from one remote actor, which delivers each again,   *)
(* also concurrently, until it is answered with a 2xx.  A step is one D1   *)
(* statement, except that an Undo's two lookups and a Delete are one each.*)
(***************************************************************************)
EXTENDS Naturals, FiniteSets

CONSTANTS
    Follows, Undos, Creates, Updates, Deletes, \* activities by their type
    Undoes,      \* [Undos -> Follows]: the Follow an Undo takes back
    Embedded,    \* Undos that carry the Follow as an object, not as an id
    Marked,      \* Updates with '#updates/' in their id
    Named,       \* activities whose id, less '/activity', is the status's
    Plans,       \* the sets of activities the remote actor may be sending
    Receipts,    \* concurrent requests to the inbox
    Owners,      \* concurrent answers of the owner to a follow request
    Slow,        \* activities whose receipt may outlive fifteen minutes
    MaxFaults    \* bound: errors, crashes and lost answers

Statuses == Creates \cup Updates
Acts == Follows \cup Undos \cup Statuses \cup Deletes

ASSUME InboxAssumption ==
    /\ Follows \cap (Undos \cup Statuses \cup Deletes) = {}
    /\ Undos \cap (Statuses \cup Deletes) = {}
    /\ Deletes \cap Statuses = {} /\ Creates \cap Updates = {}
    /\ Undoes \in [Undos -> Follows]
    /\ Embedded \subseteq Undos
    /\ Marked \subseteq Updates /\ Named \subseteq Statuses \cup Deletes
    /\ Plans \subseteq SUBSET Acts
    /\ Slow \subseteq Acts
    /\ MaxFaults \in Nat

None == "none"
ASSUME NoneIsNoAct == None \notin Acts

VARIABLES
    plan,      \* the activities being sent
    acked,     \* activities the remote actor has seen answered with a 2xx
    row,       \* inbox_activities
    rc,        \* per receipt: activity, step, accounts.locked as it read it
    locked,    \* accounts.locked
    follower,  \* followers.follow_activity_id, or None without a follower
    request,   \* follow_requests.follow_activity_id, or None
    told,      \* Accepts and Rejects queued to the remote actor
    owner,     \* per answer of the owner: step and Follow it is about
    status,    \* activity that wrote the remote status last, or None
    faults,
    handled,   \* history: activities whose handler ran to its end
    replayed,  \* history: activities acknowledged while a receipt held them
    presumed,  \* history: activities marked processed by the reclaim
    overrun,   \* history: activities whose receipt outlived its row
    half,      \* history: Follows with a follower written but no Accept
    revived    \* history: activities carried out beside or after what
               \* takes them back

remote  == <<plan, acked>>
follows == <<locked, follower, request, told>>
history == <<handled, replayed, presumed, overrun, half, revived>>
vars    == <<remote, row, rc, follows, owner, status, faults, history>>

-----------------------------------------------------------------------------
Idle == [act |-> None, step |-> "idle", locked |-> FALSE]
AtRest == [step |-> "idle", of |-> None]

Fault == faults < MaxFaults /\ faults' = faults + 1

(* The receipt is past INSERT OR IGNORE: the row was its own.              *)
Works(r) == rc[r].step \notin {"idle", "begin"}
Working(a) == \E r \in Receipts : Works(r) /\ rc[r].act = a

(* What takes back or replaces the effect of an activity.                  *)
Supersedes(b, a) ==
    \/ b \in Undos /\ a = Undoes[b]
    \/ b \in Deletes /\ a \in Statuses
    \/ b \in Updates /\ a \in Creates

(* A write for a now counts as revived when something that supersedes a    *)
(* was handled or is being handled.                                        *)
Revived(a) ==
    IF \E b \in Acts : Supersedes(b, a) /\ (b \in handled \/ Working(b))
      THEN revived \cup {a} ELSE revived

Goto(r, step) == rc' = [rc EXCEPT ![r].step = step]

Init ==
    /\ plan \in Plans /\ acked = {}
    /\ row = [a \in Acts |-> "absent"]
    /\ rc = [r \in Receipts |-> Idle]
    /\ locked \in BOOLEAN
    /\ follower = None /\ request = None /\ told = {}
    /\ owner = [o \in Owners |-> AtRest]
    /\ status = None /\ faults = 0
    /\ handled = {} /\ replayed = {} /\ presumed = {}
    /\ overrun = {} /\ half = {} /\ revived = {}

-----------------------------------------------------------------------------
(* Mutant: any row in flight is taken over.                                *)
Expired_Always(a) == row[a] \in {"fresh", "stale"}

(* processed_at IS NULL and older than INBOX_IN_FLIGHT_STALE_MODIFIER.     *)
Expired(a) == row[a] = "stale"

(* A delivery: the accounts are loaded, the signature is verified and      *)
(* begin_inbox_activity_processing removes an expired row.                 *)
Post(r, a) ==
    /\ rc[r] = Idle /\ a \in plan \ acked
    /\ rc' = [rc EXCEPT ![r] = [act |-> a, step |-> "begin",
                                 locked |-> locked /\ a \in Follows]]
    /\ row' = IF Expired(a) THEN [row EXCEPT ![a] = "absent"] ELSE row
    /\ UNCHANGED <<remote, follows, owner, status, faults, history>>

(* Mutant: an Undo is handled like what it is about.                       *)
Handler_UndoAsFollow(r, a) ==
    CASE a \in Follows \cup Undos -> IF rc[r].locked THEN "ask" ELSE "unask"
      [] a \in Statuses -> "store"
      [] a \in Deletes -> "remove"

(* The first statement of the handler of a.                                *)
Handler(r, a) ==
    CASE a \in Follows -> IF rc[r].locked THEN "ask" ELSE "unask"
      [] a \in Undos -> "match"
      [] a \in Statuses -> "store"
      [] a \in Deletes -> "remove"

(* Mutant: a replay is refused with an error.                              *)
AckReplay_Refused(a) == acked

(* A replay is answered with 202.                                          *)
AckReplay(a) == acked \cup {a}

(* INSERT OR IGNORE ... RETURNING: without a row of its own the receipt is *)
(* a replay.                                                               *)
BeginOrReplay(r) ==
    /\ rc[r].step = "begin"
    /\ LET a == rc[r].act IN
       IF row[a] = "absent"
         THEN /\ row' = [row EXCEPT ![a] = "fresh"]
              /\ rc' = [rc EXCEPT ![r].step = Handler(r, a), ![r].locked = FALSE]
              /\ UNCHANGED <<acked, replayed>>
         ELSE /\ rc' = [rc EXCEPT ![r] = Idle]
              /\ acked' = AckReplay(a)
              /\ replayed' = IF row[a] = "processed" THEN replayed ELSE replayed \cup {a}
              /\ UNCHANGED row
    /\ UNCHANGED <<plan, follows, owner, status, faults,
                   handled, presumed, overrun, half, revived>>

-----------------------------------------------------------------------------
(* handle_inbox_follow.                                                    *)

(* A locked account: upsert_remote_follow_request.                         *)
AskOwner(r) ==
    /\ rc[r].step = "ask"
    /\ request' = rc[r].act
    /\ revived' = Revived(rc[r].act)
    /\ Goto(r, "ok")
    /\ UNCHANGED <<remote, row, locked, follower, told, owner, status, faults,
                   handled, replayed, presumed, overrun, half>>

(* An unlocked one: delete_remote_follow_request_by_actor first, ...       *)
DropRequest(r) ==
    /\ rc[r].step = "unask"
    /\ request' = None
    /\ Goto(r, "follow")
    /\ UNCHANGED <<remote, row, locked, follower, told, owner, status, faults, history>>

(* Mutant: an actor that follows already is not answered again.            *)
AfterFollow_OnlyFirst == IF follower = None THEN "accept" ELSE "ok"

(* The statement after upsert_follower.                                    *)
AfterFollow == "accept"

(* ... upsert_follower, ...                                                *)
AddFollower(r) ==
    /\ rc[r].step = "follow"
    /\ follower' = rc[r].act
    /\ revived' = Revived(rc[r].act)
    /\ Goto(r, AfterFollow)
    /\ UNCHANGED <<remote, row, locked, request, told, owner, status, faults,
                   handled, replayed, presumed, overrun, half>>

(* ... and queue_remote_actor_activity_required with the Accept.           *)
QueueAccept(r) ==
    /\ rc[r].step = "accept"
    /\ told' = told \cup {<<"Accept", rc[r].act>>}
    /\ Goto(r, "ok")
    /\ UNCHANGED <<remote, row, locked, follower, request, owner, status, faults, history>>

(* Mutant: an id is matched with the followers only.                       *)
Matches_FollowerOnly(u) == u \in Embedded \/ follower = Undoes[u]

(* activity_is_follow_undo: an id must be that of the Follow on record.    *)
Matches(u) == u \in Embedded \/ Undoes[u] \in {follower, request}

(* handle_inbox_undo; an Undo of anything else ends here without effect.   *)
MatchUndo(r) ==
    /\ rc[r].step = "match"
    /\ Goto(r, IF Matches(rc[r].act) THEN "unfollow" ELSE "ok")
    /\ UNCHANGED <<remote, row, follows, owner, status, faults, history>>

(* delete_follower_by_actor, whichever Follow brought the follower.        *)
DropFollower(r) ==
    /\ rc[r].step = "unfollow"
    /\ follower' = None
    /\ Goto(r, "unasku")
    /\ UNCHANGED <<remote, row, locked, request, told, owner, status, faults, history>>

(* delete_remote_follow_request_by_actor.                                  *)
DropAsked(r) ==
    /\ rc[r].step = "unasku"
    /\ request' = None
    /\ Goto(r, "ok")
    /\ UNCHANGED <<remote, row, locked, follower, told, owner, status, faults, history>>

-----------------------------------------------------------------------------
(* upsert_remote_status, for a Create as for an Update, whatever is there; *)
(* what depends on the status is written afterwards and may fail.          *)
Store(r) ==
    /\ rc[r].step = "store"
    /\ status' = rc[r].act
    /\ revived' = Revived(rc[r].act)
    /\ \/ Goto(r, "ok") /\ UNCHANGED faults
       \/ Goto(r, "err") /\ Fault
    /\ UNCHANGED <<remote, row, follows, owner,
                   handled, replayed, presumed, overrun, half>>

(* Mutant: only a status that was never edited is removed.                 *)
Removed_Unedited == IF status \in Creates THEN None ELSE status

(* The status after fanout_and_delete_remote_status_by_object_uri_soft.    *)
Removed == None

(* handle_inbox_delete.                                                    *)
Remove(r) ==
    /\ rc[r].step = "remove"
    /\ status' = Removed
    /\ Goto(r, "ok")
    /\ UNCHANGED <<remote, row, follows, owner, faults, history>>

-----------------------------------------------------------------------------
(* mark_inbox_activity_processed, whosever row it is by now, and the      *)
(* answer, which may be lost.                                              *)
Finish(r) ==
    /\ rc[r].step = "ok"
    /\ LET a == rc[r].act IN
       /\ row' = IF row[a] = "absent" THEN row ELSE [row EXCEPT ![a] = "processed"]
       /\ handled' = handled \cup {a}
       /\ \/ acked' = acked \cup {a} /\ UNCHANGED faults
          \/ Fault /\ UNCHANGED acked
    /\ rc' = [rc EXCEPT ![r] = Idle]
    /\ UNCHANGED <<plan, follows, owner, status, replayed, presumed, overrun, half, revived>>

(* A statement of the handler fails.                                       *)
Fail(r) ==
    /\ Works(r) /\ rc[r].step \notin {"ok", "err"}
    /\ Fault
    /\ Goto(r, "err")
    /\ half' = IF rc[r].step = "accept" THEN half \cup {rc[r].act} ELSE half
    /\ UNCHANGED <<remote, row, follows, owner, status,
                   handled, replayed, presumed, overrun, revived>>

(* Mutant: the release does not ask for processed_at IS NULL.              *)
Released_Any(a) == "absent"

(* Mutant: the activity is marked whatever the result.                     *)
Released_Marked(a) == IF row[a] = "absent" THEN "absent" ELSE "processed"

(* release_inbox_activity_processing removes the row if processed_at IS    *)
(* NULL, whoever has it by now.                                            *)
Released(a) == IF row[a] = "processed" THEN "processed" ELSE "absent"

(* A failed activity is released and answered with an error.               *)
Release(r) ==
    /\ rc[r].step = "err"
    /\ row' = [row EXCEPT ![rc[r].act] = Released(rc[r].act)]
    /\ rc' = [rc EXCEPT ![r] = Idle]
    /\ UNCHANGED <<remote, follows, owner, status, faults, history>>

(* The receipt is cancelled, or begin, finish or release itself fails.     *)
ReceiptDies(r) ==
    /\ rc[r] # Idle
    /\ Fault
    /\ rc' = [rc EXCEPT ![r] = Idle]
    /\ half' = IF rc[r].step = "accept" THEN half \cup {rc[r].act} ELSE half
    /\ UNCHANGED <<remote, row, follows, owner, status,
                   handled, replayed, presumed, overrun, revived>>

-----------------------------------------------------------------------------
(* Fifteen minutes pass over a row in flight.                              *)
Age(a) ==
    /\ row[a] = "fresh" /\ (a \in Slow \/ ~Working(a))
    /\ row' = [row EXCEPT ![a] = "stale"]
    /\ overrun' = IF Working(a) THEN overrun \cup {a} ELSE overrun
    /\ UNCHANGED <<remote, rc, follows, owner, status, faults,
                   handled, replayed, presumed, half, revived>>

(* The status an activity is named after is there.                         *)
Found(a) == a \in Named /\ status # None

(* The test of reclaim_stale_inbox_activities for an effect: the status a  *)
(* Create or an Update is named after; for an Update with '#updates/' in   *)
(* its id the actor, known since the signature was verified; for a Delete  *)
(* that no status has the id of the Delete itself.                         *)
LooksDone(a) ==
    \/ a \in Statuses /\ Found(a)
    \/ a \in Marked
    \/ a \in Deletes /\ ~Found(a)

(* Mutant: nothing is released.                                            *)
Releasable_None == {}

(* The type the second statement of the reclaim names.                     *)
Releasable == Creates

(* reclaim_stale_inbox_activities, from the cron or an administrator: what *)
(* looks done is marked processed, another Create is released; other rows  *)
(* stay in flight.                                                         *)
Reclaim(a) ==
    /\ row[a] = "stale"
    /\ \/ /\ LooksDone(a)
          /\ row' = [row EXCEPT ![a] = "processed"]
          /\ presumed' = presumed \cup {a}
       \/ /\ a \in Releasable /\ ~LooksDone(a)
          /\ row' = [row EXCEPT ![a] = "absent"]
          /\ UNCHANGED presumed
    /\ UNCHANGED <<remote, rc, follows, owner, status, faults,
                   handled, replayed, overrun, half, revived>>

-----------------------------------------------------------------------------
(* The owner locks or unlocks the account.                                 *)
ToggleLock ==
    /\ locked' = ~locked
    /\ UNCHANGED <<remote, row, rc, follower, request, told, owner, status, faults, history>>

(* authorize_ and reject_pending_follow_request find the request again.    *)
Answer(o, step) ==
    /\ owner[o] = AtRest /\ request # None
    /\ owner' = [owner EXCEPT ![o] = [step |-> step, of |-> request]]
    /\ UNCHANGED <<remote, row, rc, follows, status, faults, history>>

(* upsert_follower_by_inbox with the Follow that was found, even if it has *)
(* been taken back since.                                                  *)
Authorize(o) ==
    /\ owner[o].step = "authorize"
    /\ follower' = owner[o].of
    /\ revived' = Revived(owner[o].of)
    /\ owner' = [owner EXCEPT ![o].step = "accept"]
    /\ UNCHANGED <<remote, row, rc, locked, request, told, status, faults,
                   handled, replayed, presumed, overrun, half>>

(* The answer is queued ...                                                *)
QueueAnswer(o) ==
    /\ owner[o].step \in {"accept", "reject"}
    /\ told' = told \cup {<<IF owner[o].step = "accept" THEN "Accept" ELSE "Reject", owner[o].of>>}
    /\ owner' = [owner EXCEPT ![o].step = "finalize"]
    /\ UNCHANGED <<remote, row, rc, locked, follower, request, status, faults, history>>

(* ... and the request removed, by the actor's name alone.                 *)
Finalize(o) ==
    /\ owner[o].step = "finalize"
    /\ request' = None
    /\ owner' = [owner EXCEPT ![o] = AtRest]
    /\ UNCHANGED <<remote, row, rc, locked, follower, told, status, faults, history>>

(* A statement fails or the request is cancelled.                          *)
OwnerDies(o) ==
    /\ owner[o] # AtRest
    /\ Fault
    /\ half' = IF owner[o].step = "accept" THEN half \cup {owner[o].of} ELSE half
    /\ owner' = [owner EXCEPT ![o] = AtRest]
    /\ UNCHANGED <<remote, row, rc, follows, status,
                   handled, replayed, presumed, overrun, revived>>

-----------------------------------------------------------------------------
Handle(r) ==
    \/ AskOwner(r) \/ DropRequest(r) \/ AddFollower(r) \/ QueueAccept(r)
    \/ MatchUndo(r) \/ DropFollower(r) \/ DropAsked(r)
    \/ Store(r) \/ Remove(r)

ReceiptStep(r) == BeginOrReplay(r) \/ Handle(r) \/ Finish(r) \/ Release(r)
OwnerStep(o) == Authorize(o) \/ QueueAnswer(o) \/ Finalize(o)

Next ==
    \/ \E r \in Receipts : ReceiptStep(r) \/ Fail(r) \/ ReceiptDies(r)
    \/ \E r \in Receipts, a \in Acts : Post(r, a)
    \/ \E a \in Acts : Age(a) \/ Reclaim(a)
    \/ ToggleLock
    \/ \E o \in Owners : OwnerStep(o) \/ OwnerDies(o)
    \/ \E o \in Owners, step \in {"authorize", "reject"} : Answer(o, step)

Spec == Init /\ [][Next]_vars

(* The remote actor delivers again what was not answered, the server works *)
(* on, time passes and the cron runs.  The owner need never answer.        *)
FairSpec ==
    /\ Spec
    /\ \A a \in Acts : WF_vars(\E r \in Receipts : Post(r, a))
    /\ \A r \in Receipts : WF_vars(ReceiptStep(r))
    /\ \A a \in Acts : WF_vars(Age(a)) /\ WF_vars(Reclaim(a))
    /\ \A o \in Owners : WF_vars(OwnerStep(o))

-----------------------------------------------------------------------------
Maybe(S) == S \cup {None}
HandlerSteps == {"ask", "unask", "follow", "accept", "match", "unfollow", "unasku",
                 "store", "remove"}
TypeOK ==
    /\ plan \subseteq Acts /\ acked \subseteq plan
    /\ row \in [Acts -> {"absent", "fresh", "stale", "processed"}]
    /\ rc \in [Receipts -> [act : Maybe(Acts), locked : BOOLEAN,
                            step : HandlerSteps \cup {"idle", "begin", "ok", "err"}]]
    /\ \A r \in Receipts : rc[r].step = "idle" <=> rc[r].act = None
    /\ locked \in BOOLEAN
    /\ {follower, request} \subseteq Maybe(Follows)
    /\ told \subseteq {"Accept", "Reject"} \X Follows
    /\ owner \in [Owners -> [step : {"idle", "authorize", "accept", "reject", "finalize"},
                             of : Maybe(Follows)]]
    /\ status \in Maybe(Statuses)
    /\ faults \in 0 .. MaxFaults
    /\ {handled, replayed, presumed, overrun, half, revived} \subseteq SUBSET Acts

(* Two receipts never handle one activity at the same time, however often  *)
(* and concurrently it is delivered, unless the first outlived its row:    *)
(* "first delivery is accepted, in-flight ... replays are rejected".       *)
HandledByOne ==
    \A q, r \in Receipts :
        Works(q) /\ Works(r) /\ rc[q].act = rc[r].act => q = r \/ rc[r].act \in overrun

(* An activity once processed stays so: neither a failing receipt that     *)
(* lost its row nor the reclaim opens it for another replay.               *)
ProcessedIsFinal ==
    [][\A a \in Acts : row[a] = "processed" => row'[a] = "processed"]_vars

(* The remote actor forgets an activity when it has its 2xx.  By then the  *)
(* handler has run to its end; only a replay acknowledged while the first  *)
(* receipt was still at work, or a row the reclaim took for done, lets an  *)
(* activity be forgotten that had no effect.                               *)
AckedIsHandled == acked \subseteq handled \cup replayed \cup presumed

(* Only follow-ups that overlap or overtake can bring back what was taken  *)
(* back: once an Undo, a Delete or an Update has been handled, the         *)
(* follower, the request and the status are not those of an activity it    *)
(* replaced, unless that activity was carried out later or meanwhile.      *)
TakenBackStaysSo ==
    \A b \in handled : \A a \in {follower, request, status} \ {None} :
        Supersedes(b, a) => a \in revived

(* Who is a follower was told so: the Accept of its Follow is queued, or   *)
(* about to be, or the request that should have done it has failed.        *)
FollowerWasTold ==
    follower # None =>
        \/ <<"Accept", follower>> \in told
        \/ \E r \in Receipts : rc[r].step = "accept" /\ rc[r].act = follower
        \/ \E o \in Owners : owner[o].step = "accept" /\ owner[o].of = follower
        \/ follower \in half

(* Every activity is answered in the end, although receipts fail and die   *)
(* with it and leave rows that turn its redeliveries away.                 *)
EveryActivityAnswered == <>(plan \subseteq acked)

(* The receipt of a was answered 202 as a replay, so that nobody need send *)
(* it again, and the reclaim has no word for it: it is neither a Create,   *)
(* nor an Update known by its id or by its status, nor a Delete with an id *)
(* of its own.                                                             *)
BeyondReclaim(a) ==
    /\ a \in replayed
    /\ \/ a \in Follows \cup Undos
       \/ a \in Updates \ Marked /\ ~Found(a)
       \/ a \in Deletes /\ Found(a)

(* No row stays in flight for ever, whether its receipt died or its answer *)
(* was lost and whoever else was turned away: the next delivery removes    *)
(* it, or the reclaim settles it, unless there is neither.                 *)
EveryRowSettles ==
    []<>(\A a \in Acts : row[a] \in {"absent", "processed"} \/ BeyondReclaim(a))
=============================================================================
