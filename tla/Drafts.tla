-------------------------------- MODULE Drafts --------------------------------
(***************************************************************************)
(* The review of an action draft (automation.ts: prepareDraft and          *)
(* syncDraftApproval; service.ts: prepareDraftAction).  Reviewing a draft  *)
(* proposes its action, which gets an approval of its own; every change of *)
(* the approval is a committed event, from which the draft learns of it.   *)
(***************************************************************************)
EXTENDS Integers, Sequences

CONSTANTS DraftIds,      \* the action drafts of one task
          MaxReviews     \* bound on the approvals ever created for them

ASSUME DraftsAssumption == MaxReviews \in Nat

VARIABLES draft,      \* automation_drafts: its state and the approval recorded on it, or 0
          preparing,  \* prepareDraft of each draft: what it waits for
          reviews,    \* the approvals: their draft, their state and the state last published
          behind,     \* the approvals with events after the cursor
          draining    \* consumeEvents has processed what there was and lets others run

drVars == <<draft, preparing, reviews, behind, draining>>

Reviews == 1..Len(reviews)
Live == {"awaiting-approval", "approved", "executing"}
Final == {"complete", "rejected", "revoked", "failed", "unknown"}
NotPreparing == [step |-> "idle", review |-> 0]

DraftsTypeOK ==
  /\ draft \in [DraftIds -> [state: {"open", "preparing", "awaiting-approval", "dismissed"} \cup Final,
                             review: 0..MaxReviews]]
  /\ preparing \in [DraftIds -> [step: {"idle", "flushing", "preflight", "accepted"}, review: 0..MaxReviews]]
  /\ Len(reviews) <= MaxReviews
  /\ \A a \in Reviews : reviews[a] \in [draft: DraftIds, state: Live \cup Final, told: Live \cup Final]
  /\ behind \subseteq Reviews /\ draining \in BOOLEAN

DraftsInit ==
  /\ draft = [d \in DraftIds |-> [state |-> "open", review |-> 0]]
  /\ preparing = [d \in DraftIds |-> NotPreparing]
  /\ reviews = << >> /\ behind = {} /\ draining = FALSE

\* approvalDraftState
DraftState(state) == IF state \in Final THEN state ELSE "awaiting-approval"

\* syncDraftApproval for the events of the approvals in `changed', in their order.
Synced(changed, now) ==
  [d \in DraftIds |-> IF draft[d].review \in changed
                      THEN [draft[d] EXCEPT !.state = DraftState(now[draft[d].review].told)]
                      ELSE draft[d]]

\* An approval is saved, its event committed and the automation notified, which
\* consumes the events at once unless it is between two batches of them.
Publish(a, now) ==
  /\ reviews' = now
  /\ draining' = TRUE
  /\ IF draining THEN behind' = behind \cup {a} /\ UNCHANGED draft
                 ELSE behind' = {} /\ draft' = Synced(behind \cup {a}, now)

Becomes(a, state) == Publish(a, [reviews EXCEPT ![a].state = state, ![a].told = state])

\* The next batch, or the end of the drain when there is none.
Drain ==
  /\ draining
  /\ draining' = (behind # {})
  /\ draft' = Synced(behind, reviews) /\ behind' = {}
  /\ UNCHANGED <<preparing, reviews>>

-----------------------------------------------------------------------------
Dismiss(d) ==
  /\ draft[d].state = "open"
  /\ draft' = [draft EXCEPT ![d].state = "dismissed"]
  /\ UNCHANGED <<preparing, reviews, behind, draining>>

\* prepareDraft: nothing of the task is unresolved; the draft is claimed.
Unresolved == \E a \in Reviews : reviews[a].state \in Live \cup {"unknown"}
Claim(d) ==
  /\ draft[d].state = "open" /\ ~Unresolved
  /\ draft' = [draft EXCEPT ![d].state = "preparing"]
  /\ preparing' = [preparing EXCEPT ![d].step = "flushing"]
  /\ UNCHANGED <<reviews, behind, draining>>

\* prepareDraftAction, after the credential repairs: another review, or what it
\* left unresolved, refuses this one; otherwise it runs in the task's name.
Running == \/ \E d \in DraftIds : preparing[d].step \in {"preflight", "accepted"}
           \/ \E a \in Reviews : reviews[a].state \in Live
Propose(d) ==
  /\ preparing[d].step = "flushing" /\ ~Running /\ ~Unresolved
  /\ preparing' = [preparing EXCEPT ![d].step = "preflight"]
  /\ UNCHANGED <<draft, reviews, behind, draining>>

\* Refused there (a turn, a paused feature) or by the tool's preflight: nothing
\* was done, and the draft is open again.
Refuse(d) ==
  /\ preparing[d].step \in {"flushing", "preflight"}
  /\ draft' = [draft EXCEPT ![d].state = "open"]
  /\ preparing' = [preparing EXCEPT ![d] = NotPreparing]
  /\ UNCHANGED <<reviews, behind, draining>>

\* requestApproval: the approval is saved and its id handed to prepareDraft.
Ask(d) ==
  /\ preparing[d].step = "preflight" /\ Len(reviews) < MaxReviews
  /\ Publish(Len(reviews) + 1,
             Append(reviews, [draft |-> d, state |-> "awaiting-approval", told |-> "awaiting-approval"]))
  /\ preparing' = [preparing EXCEPT ![d] = [step |-> "accepted", review |-> Len(reviews) + 1]]

\* prepareDraft goes on: the approval's state is read again.
RecordAsAsked(d) ==
  /\ preparing[d].step = "accepted"
  /\ draft' = [draft EXCEPT ![d] = [state |-> "awaiting-approval", review |-> preparing[d].review]]
  /\ preparing' = [preparing EXCEPT ![d] = NotPreparing]
  /\ UNCHANGED <<reviews, behind, draining>>
Record(d) ==
  /\ preparing[d].step = "accepted"
  /\ draft' = [draft EXCEPT ![d] = [state |-> DraftState(reviews[preparing[d].review].state),
                                    review |-> preparing[d].review]]
  /\ preparing' = [preparing EXCEPT ![d] = NotPreparing]
  /\ UNCHANGED <<reviews, behind, draining>>

\* The user decides, or the task is stopped; the tool runs and ends; the outcome
\* of an edit that is unknown may be found by looking at the file.
Follows(state) == CASE state = "awaiting-approval" -> {"approved", "rejected", "revoked"}
                    [] state = "approved" -> {"executing", "revoked", "failed"}
                    [] state = "executing" -> {"complete", "failed", "unknown"}
                    [] state = "unknown" -> {"complete", "failed"}
                    [] OTHER -> {}
ReviewStep(a) ==
  /\ \E state \in Follows(reviews[a].state) : Becomes(a, state)
  /\ UNCHANGED preparing

\* Store.recover and the constructor of AutomationService: approvals end without
\* an event, a review in preparation is unknown; then the events are caught up.
Recovered(state) == CASE state \in {"awaiting-approval", "approved"} -> "revoked"
                      [] state = "executing" -> "unknown"
                      [] OTHER -> state
RestartDrafts ==
  /\ reviews' = [a \in Reviews |-> [reviews[a] EXCEPT !.state = Recovered(@)]]
  /\ draft' = [d \in DraftIds |-> IF draft[d].state = "preparing" THEN [draft[d] EXCEPT !.state = "unknown"]
                                  ELSE draft[d]]
  /\ preparing' = [d \in DraftIds |-> NotPreparing]
  /\ draining' = TRUE
  /\ UNCHANGED behind

DraftsNext ==
  \/ \E d \in DraftIds : Dismiss(d) \/ Claim(d) \/ Propose(d) \/ Refuse(d) \/ Ask(d) \/ Record(d)
  \/ \E a \in Reviews : ReviewStep(a)
  \/ Drain \/ RestartDrafts

DraftsSpec == DraftsInit /\ [][DraftsNext]_drVars

-----------------------------------------------------------------------------
\* However a review is refused, lost or decided, a draft never gets a second
\* approval: once one was created for it, it is neither open nor dismissed.
OneReviewPerDraft ==
  /\ \A a, b \in Reviews : reviews[a].draft = reviews[b].draft => a = b
  /\ \A a \in Reviews : draft[reviews[a].draft].state \notin {"open", "dismissed"}

\* A restart ended the approval without an event: nothing tells the draft.
EndedByRestart(review) == review.told # review.state /\ review.state = Recovered(review.told)

\* With all events consumed, a draft says how its approval stands; only of an
\* approval that a restart ended it still says, for ever, that it awaits one.
OutcomeIsTold ==
  behind = {} => \A d \in DraftIds :
    draft[d].review # 0 =>
      \/ draft[d].state = DraftState(reviews[draft[d].review].state)
      \/ draft[d].state = "awaiting-approval" /\ EndedByRestart(reviews[draft[d].review])

\* What a draft says of its review can be relied on, but for what a restart ended.
DraftsAnswerForReviews == OneReviewPerDraft /\ OutcomeIsTold
=============================================================================
