---- MODULE ServicesProofs ----
(***************************************************************************)
(* Proofs about the services around an agent: drafts and their reviews,    *)
(* sessions of MCP servers, turns and what they are charged, the streams   *)
(* that answer requests, automations, browsers and schedules.  Each        *)
(* component in a section of its own, for any drafts, calls, requests,     *)
(* frames, events, pages and zones.                                        *)
(***************************************************************************)
EXTENDS MCServices, TaskBudgetProofs, CompactionsProofs, SequenceTheorems, FiniteFacts, TLAPS

----
(***************************************************************************)
(* Drafts: what a draft says of its review can be relied on.               *)
(***************************************************************************)

\* The types of drafts, preparations and reviews.
Outcomes == {"awaiting-approval"} \cup Final
DraftRow == [state: {"open", "preparing", "dismissed"} \cup Outcomes, review: 0..MaxReviews]
Preparing == [step: {"idle", "flushing", "preflight", "accepted"}, review: 0..MaxReviews]
ReviewRow == [draft: DraftIds, state: Live \cup Final, told: Live \cup Final]

Typed ==
  /\ draft \in [DraftIds -> DraftRow] /\ preparing \in [DraftIds -> Preparing]
  /\ reviews \in Seq(ReviewRow) /\ Len(reviews) <= MaxReviews
  /\ behind \subseteq Reviews /\ draining \in BOOLEAN

Unreviewed(d) == \A a \in Reviews : reviews[a].draft # d

\* Where the preparation of a draft is, and what the draft says of its approval:
\* an approval not recorded yet is still what was published of it, and a recorded
\* one is, unless its event waits in `behind'.
InStep(d) ==
  /\ preparing[d].step \in {"flushing", "preflight"} =>
       draft[d].state = "preparing" /\ draft[d].review = 0 /\ Unreviewed(d)
  /\ preparing[d].step = "accepted" =>
       /\ draft[d].state = "preparing" /\ draft[d].review = 0 /\ preparing[d].review \in Reviews
       /\ reviews[preparing[d].review].draft = d
       /\ reviews[preparing[d].review].state = reviews[preparing[d].review].told
  /\ draft[d].state \in {"open", "dismissed"} => draft[d].review = 0 /\ Unreviewed(d)

Tells(d) ==
  draft[d].review # 0 =>
    /\ draft[d].review \in Reviews /\ draft[d].state \in Outcomes
    /\ draft[d].review \notin behind => draft[d].state = DraftState(reviews[draft[d].review].told)

\* A draft has one review.
Single == \A a, b \in Reviews : reviews[a].draft = reviews[b].draft => a = b

\* An approval stands as it was last published, or as a restart left that.
Known == \A a \in Reviews : reviews[a].state \in {reviews[a].told, Recovered(reviews[a].told)}

\* The inductive invariant of drafts.
DraftsInv == Typed /\ Single /\ Known /\ \A d \in DraftIds : InStep(d) /\ Tells(d)

\* At first no draft is prepared.
LEMMA InitialDrafts == DraftsInit => DraftsInv
<1> SUFFICES ASSUME DraftsInit PROVE DraftsInv
  OBVIOUS
<1>1. reviews \in Seq(ReviewRow) /\ Len(reviews) = 0
  BY EmptySeq DEF DraftsInit
<1>2. Reviews = {}
  BY <1>1 DEF Reviews
<1>3. Typed
  <2>1. [state |-> "open", review |-> 0] \in DraftRow /\ NotPreparing \in Preparing
    BY DraftsAssumption DEF DraftRow, Preparing, NotPreparing
  <2>2. draft \in [DraftIds -> DraftRow] /\ preparing \in [DraftIds -> Preparing]
    BY <2>1 DEF DraftsInit
  <2>3. Len(reviews) <= MaxReviews /\ behind = {} /\ draining = FALSE
    BY <1>1, DraftsAssumption DEF DraftsInit
  <2> QED BY <1>1, <2>2, <2>3 DEF Typed
<1>4. Single /\ Known
  BY <1>2 DEF Single, Known
<1>5. \A d \in DraftIds : InStep(d) /\ Tells(d)
  <2> SUFFICES ASSUME NEW d \in DraftIds PROVE InStep(d) /\ Tells(d)
    OBVIOUS
  <2>1. draft[d].state = "open" /\ draft[d].review = 0 /\ preparing[d].step = "idle"
    BY DEF DraftsInit, NotPreparing
  <2> QED BY <1>2, <2>1 DEF InStep, Tells, Unreviewed
<1> QED BY <1>3, <1>4, <1>5 DEF DraftsInv

\* Every state of an approval is an outcome of a draft.
LEMMA OutcomeOf == \A state \in Live \cup Final : DraftState(state) \in Outcomes
BY DEF DraftState, Outcomes

\* A change of the preparations and of drafts without a review.
LEMMA DraftStep ==
  ASSUME DraftsInv, NEW d \in DraftIds, UNCHANGED <<reviews, behind, draining>>,
         NEW row \in DraftRow, draft' = [draft EXCEPT ![d] = row],
         NEW step \in Preparing, preparing' = [preparing EXCEPT ![d] = step],
         InStep(d)', Tells(d)'
  PROVE  DraftsInv'
<1>1. Reviews' = Reviews
  BY DEF Reviews
<1>2. Typed'
  BY <1>1 DEF DraftsInv, Typed
<1>3. \A e \in DraftIds \ {d} : draft'[e] = draft[e] /\ preparing'[e] = preparing[e]
  BY DEF DraftsInv, Typed
<1>4. \A e \in DraftIds \ {d} : InStep(e)' /\ Tells(e)'
  BY <1>1, <1>3 DEF DraftsInv, InStep, Tells, Unreviewed
<1> QED
  BY <1>1, <1>2, <1>4 DEF DraftsInv, Single, Known

\* Preparing, accepting or refusing a draft keeps it.
LEMMA PreparationSteps ==
  ASSUME DraftsInv, NEW d \in DraftIds, Dismiss(d) \/ Claim(d) \/ Propose(d) \/ Refuse(d) \/ Record(d)
  PROVE  DraftsInv'
<1>0. /\ draft[d] \in DraftRow /\ preparing[d] \in Preparing /\ InStep(d) /\ Tells(d) /\ Typed
      /\ NotPreparing \in Preparing
  BY DraftsAssumption DEF DraftsInv, Typed, Preparing, NotPreparing
<1>1. UNCHANGED <<reviews, behind, draining>> /\ Reviews' = Reviews
  BY DEF Dismiss, Claim, Propose, Refuse, Record, Reviews
<1>2. CASE Dismiss(d)
  <2> DEFINE row == [draft[d] EXCEPT !.state = "dismissed"]
  <2>1. row \in DraftRow /\ draft' = [draft EXCEPT ![d] = row] /\ preparing' = [preparing EXCEPT ![d] = preparing[d]]
    BY <1>0, <1>2 DEF Dismiss, DraftRow, Typed
  <2>2. draft'[d] = row /\ preparing'[d] = preparing[d]
    BY <1>0, <2>1 DEF Typed
  <2>3. row.review = draft[d].review /\ row.state = "dismissed" /\ draft[d].state = "open"
    BY <1>0, <1>2 DEF Dismiss, DraftRow
  <2> HIDE DEF row
  <2>4. InStep(d)' /\ Tells(d)'
    BY <1>0, <1>1, <2>2, <2>3 DEF InStep, Tells, Unreviewed, Preparing
  <2> QED BY <1>0, <1>1, <2>1, <2>4, DraftStep
<1>3. CASE Claim(d)
  <2> DEFINE row == [draft[d] EXCEPT !.state = "preparing"]
             step == [preparing[d] EXCEPT !.step = "flushing"]
  <2>1. /\ row \in DraftRow /\ draft' = [draft EXCEPT ![d] = row]
        /\ step \in Preparing /\ preparing' = [preparing EXCEPT ![d] = step]
    BY <1>0, <1>3 DEF Claim, DraftRow, Preparing, Typed
  <2>2. draft'[d] = row /\ preparing'[d] = step
    BY <1>0, <2>1 DEF Typed
  <2>3. row.review = draft[d].review /\ row.state = "preparing" /\ draft[d].state = "open" /\ step.step = "flushing"
    BY <1>0, <1>3 DEF Claim, DraftRow, Preparing
  <2> HIDE DEF row, step
  <2>4. InStep(d)' /\ Tells(d)'
    BY <1>0, <1>1, <2>2, <2>3 DEF InStep, Tells, Unreviewed
  <2> QED BY <1>1, <2>1, <2>4, DraftStep
<1>4. CASE Propose(d)
  <2> DEFINE step == [preparing[d] EXCEPT !.step = "preflight"]
  <2>1. /\ draft' = [draft EXCEPT ![d] = draft[d]]
        /\ step \in Preparing /\ preparing' = [preparing EXCEPT ![d] = step]
    BY <1>0, <1>4 DEF Propose, Preparing, Typed
  <2>2. draft'[d] = draft[d] /\ preparing'[d] = step
    BY <1>0, <2>1 DEF Typed
  <2>3. step.step = "preflight" /\ preparing[d].step = "flushing"
    BY <1>0, <1>4 DEF Propose, Preparing
  <2> HIDE DEF step
  <2>4. InStep(d)' /\ Tells(d)'
    BY <1>0, <1>1, <2>2, <2>3 DEF InStep, Tells, Unreviewed
  <2> QED BY <1>0, <1>1, <2>1, <2>4, DraftStep
<1>5. CASE Refuse(d)
  <2> DEFINE row == [draft[d] EXCEPT !.state = "open"]
  <2>1. /\ row \in DraftRow /\ draft' = [draft EXCEPT ![d] = row]
        /\ preparing' = [preparing EXCEPT ![d] = NotPreparing]
    BY <1>0, <1>5 DEF Refuse, DraftRow, Typed
  <2>2. draft'[d] = row /\ preparing'[d] = NotPreparing
    BY <1>0, <2>1 DEF Typed
  <2>3. row.review = draft[d].review /\ row.state = "open" /\ preparing[d].step \in {"flushing", "preflight"}
    BY <1>0, <1>5 DEF Refuse, DraftRow
  <2> HIDE DEF row
  <2>4. InStep(d)' /\ Tells(d)'
    BY <1>0, <1>1, <2>2, <2>3 DEF InStep, Tells, Unreviewed, NotPreparing
  <2> QED BY <1>0, <1>1, <2>1, <2>4, DraftStep
<1>6. CASE Record(d)
  <2> DEFINE a == preparing[d].review
             row == [state |-> DraftState(reviews[a].state), review |-> a]
  <2>1. a \in Reviews /\ reviews[a].draft = d /\ reviews[a].state = reviews[a].told
    BY <1>0, <1>6 DEF Record, InStep
  <2>2. DraftState(reviews[a].state) \in Outcomes
    <3>1. reviews[a] \in ReviewRow
      BY <1>0, <2>1, ElementOfSeq DEF Typed, Reviews
    <3> QED BY <3>1, OutcomeOf DEF ReviewRow
  <2>3. /\ row \in DraftRow /\ draft' = [draft EXCEPT ![d] = row]
        /\ preparing' = [preparing EXCEPT ![d] = NotPreparing]
    BY <1>0, <1>6, <2>2 DEF Record, DraftRow, Preparing, Typed
  <2>4. draft'[d] = row /\ preparing'[d] = NotPreparing
    BY <1>0, <2>3 DEF Typed
  <2>5. row.state \notin {"open", "dismissed"} /\ row.state \in Outcomes /\ row.review = a /\ a # 0
    BY <2>1, <2>2, LenProperties DEF Outcomes, Final, Reviews
  <2>6. row.state = DraftState(reviews[row.review].told)
    BY <2>1
  <2>7. NotPreparing.step = "idle"
    BY DEF NotPreparing
  <2> HIDE DEF row
  <2>8. InStep(d)' /\ Tells(d)'
    BY <1>1, <2>1, <2>4, <2>5, <2>6, <2>7 DEF InStep, Tells
  <2> QED BY <1>0, <1>1, <2>3, <2>8, DraftStep
<1> QED BY <1>2, <1>3, <1>4, <1>5, <1>6

\* What `now' keeps of the approvals there were, but for the one that changes.
Keeps(a, now) ==
  /\ now \in Seq(ReviewRow) /\ Len(reviews) <= Len(now) /\ a \in 1..Len(now)
  /\ \A b \in Reviews : now[b].draft = reviews[b].draft /\ (b # a => now[b] = reviews[b])

\* Publishing an approval changes only its draft, and leaves it with the news or
\* with the event still to come.
LEMMA PublishStep ==
  ASSUME DraftsInv, NEW a, NEW now, Keeps(a, now), Publish(a, now)
  PROVE  /\ draft' \in [DraftIds -> DraftRow] /\ behind' \subseteq 1..Len(now) /\ draining' \in BOOLEAN
         /\ \A d \in DraftIds : /\ draft'[d].review = draft[d].review
                                /\ draft[d].review = 0 => draft'[d] = draft[d]
                                /\ draft[d].review # 0 => draft'[d].state \in Outcomes
                                /\ draft[d].review # 0 /\ draft[d].review \notin behind' =>
                                     draft'[d].state = DraftState(now[draft[d].review].told)
<1>1. Typed /\ 0 \notin behind \cup {a} /\ behind \cup {a} \subseteq 1..Len(now)
  <2>1. /\ Typed /\ Len(reviews) \in Nat /\ Len(now) \in Nat /\ Len(reviews) <= Len(now)
        /\ a \in 1..Len(now) /\ behind \subseteq 1..Len(reviews)
    BY LenProperties DEF DraftsInv, Typed, Keeps, Reviews
  <2> QED BY <2>1
<1>2. \A b \in Reviews : b \in 1..Len(now) /\ now[b] \in ReviewRow
  BY <1>1, LenProperties, ElementOfSeq DEF Keeps, Reviews, Typed
<1>3. \A b \in Reviews : DraftState(now[b].told) \in Outcomes
  BY <1>2, OutcomeOf DEF ReviewRow
<1>4. \A d \in DraftIds : draft[d] \in DraftRow /\ Tells(d)
  BY <1>1 DEF Typed, DraftsInv
<1>5. CASE draining
  BY <1>1, <1>4, <1>5 DEF Publish, Tells, Keeps, Typed
<1>6. CASE ~draining
  <2>1. behind' = {} /\ draft' = Synced(behind \cup {a}, now) /\ draining'
    BY <1>6 DEF Publish
  <2>2. \A d \in DraftIds :
          draft'[d] = IF draft[d].review \in behind \cup {a}
                      THEN [draft[d] EXCEPT !.state = DraftState(now[draft[d].review].told)] ELSE draft[d]
    BY <2>1 DEF Synced
  <2>3. \A d \in DraftIds : draft[d].review \in behind \cup {a} =>
          draft[d].review \in Reviews /\ DraftState(now[draft[d].review].told) \in Outcomes
    BY <1>1, <1>3, <1>4 DEF Tells
  <2>4. \A d \in DraftIds : draft'[d] \in DraftRow /\ draft'[d].review = draft[d].review
    BY <1>4, <2>2, <2>3 DEF DraftRow
  <2>5. draft' \in [DraftIds -> DraftRow]
    BY <2>1, <2>4 DEF Synced
  <2>6. ASSUME NEW d \in DraftIds, draft[d].review # 0
        PROVE  draft'[d].state \in Outcomes /\ draft'[d].state = DraftState(now[draft[d].review].told)
    <3>1. CASE draft[d].review \in behind \cup {a}
      BY <1>4, <2>2, <2>3, <2>6, <3>1 DEF DraftRow
    <3>2. CASE draft[d].review \notin behind \cup {a}
      BY <1>4, <2>2, <2>6, <3>2 DEF Tells, Keeps
    <3> QED BY <3>1, <3>2
  <2> QED BY <1>1, <2>1, <2>2, <2>4, <2>5, <2>6
<1> QED BY <1>1, <1>5, <1>6 DEF Typed

\* Approvals that keep their drafts and what was published of them, apart from
\* what PublishStep says of the drafts.
LEMMA ReviewsKept ==
  ASSUME DraftsInv, NEW a \in Reviews, ReviewStep(a) PROVE DraftsInv'
<1>1. PICK state \in Follows(reviews[a].state) : Becomes(a, state)
  BY DEF ReviewStep
<1> DEFINE row == [reviews[a] EXCEPT !.state = state, !.told = state]
           now == [reviews EXCEPT ![a].state = state, ![a].told = state]
<1>2. Typed /\ reviews[a] \in ReviewRow /\ state \in Live \cup Final
  <2>1. Typed /\ reviews[a] \in ReviewRow
    BY ElementOfSeq DEF DraftsInv, Typed, Reviews
  <2>2. state \in Live \cup Final
    BY <1>1, <2>1 DEF Follows, Live, Final, ReviewRow
  <2> QED BY <2>1, <2>2
<1>3. row \in ReviewRow /\ row.draft = reviews[a].draft /\ row.state = state /\ row.told = state
  BY <1>2 DEF ReviewRow
<1>4. now = [reviews EXCEPT ![a] = row]
  BY <1>2 DEF ReviewRow, Typed
<1>5. Publish(a, now) /\ reviews' = now /\ UNCHANGED preparing
  BY <1>1 DEF Becomes, Publish, ReviewStep
<1> HIDE DEF row, now
<1>6. /\ now \in Seq(ReviewRow) /\ Len(now) = Len(reviews)
      /\ \A b \in Reviews : now[b] = IF b = a THEN row ELSE reviews[b]
  BY <1>2, <1>3, <1>4, ExceptSeq DEF Typed, Reviews
<1>7. Keeps(a, now) /\ Reviews' = Reviews
  BY <1>2, <1>3, <1>5, <1>6, LenProperties DEF Keeps, Reviews, Typed
<1>8. Typed'
  BY <1>2, <1>5, <1>6, <1>7, PublishStep DEF Typed, Reviews
<1>9. \A b \in Reviews : /\ reviews'[b].draft = reviews[b].draft
                         /\ reviews[b].state = reviews[b].told => reviews'[b].state = reviews'[b].told
  BY <1>3, <1>5, <1>6
<1>10. ASSUME NEW d \in DraftIds PROVE InStep(d)' /\ Tells(d)'
  <2>1. InStep(d) /\ Tells(d)
    BY DEF DraftsInv
  <2>2. CASE draft[d].review = 0
    <3>1. draft'[d] = draft[d]
      BY <1>5, <1>7, <2>2, PublishStep
    <3> QED BY <1>5, <1>7, <1>9, <2>1, <2>2, <3>1 DEF InStep, Tells, Unreviewed
  <2>3. CASE draft[d].review # 0
    <3>1. /\ draft'[d].review = draft[d].review /\ draft'[d].state \in Outcomes
          /\ draft[d].review \notin behind' => draft'[d].state = DraftState(now[draft[d].review].told)
      BY <1>5, <1>7, <2>3, PublishStep
    <3>2. preparing[d].step \notin {"flushing", "preflight", "accepted"}
      BY <2>1, <2>3 DEF InStep
    <3> QED BY <1>5, <1>7, <2>1, <2>3, <3>1, <3>2 DEF InStep, Tells, Outcomes, Final
  <2> QED BY <2>2, <2>3
<1>11. Single'
  BY <1>7, <1>9 DEF DraftsInv, Single
<1>12. Known'
  BY <1>3, <1>5, <1>6, <1>7 DEF DraftsInv, Known
<1> QED BY <1>8, <1>10, <1>11, <1>12 DEF DraftsInv

\* A preparation asks for approval.
LEMMA Asked ==
  ASSUME DraftsInv, NEW d \in DraftIds, Ask(d) PROVE DraftsInv'
<1> DEFINE n == Len(reviews) + 1
           row == [draft |-> d, state |-> "awaiting-approval", told |-> "awaiting-approval"]
           now == Append(reviews, row)
<1>1. Publish(n, now) /\ reviews' = now
  BY DEF Ask, Publish
<1>2. preparing' = [preparing EXCEPT ![d] = [step |-> "accepted", review |-> n]]
  BY DEF Ask
<1>3. Typed /\ Len(reviews) \in Nat /\ n <= MaxReviews /\ preparing[d].step = "preflight"
  BY LenProperties, DraftsAssumption DEF Ask, DraftsInv, Typed
<1>4. row \in ReviewRow /\ row.draft = d /\ row.state = row.told
  BY DEF ReviewRow, Live
<1> HIDE DEF row
<1>5. /\ now \in Seq(ReviewRow) /\ Len(now) = n
      /\ \A b \in 1..n : now[b] = IF b = n THEN row ELSE reviews[b]
  BY <1>3, <1>4, AppendProperties DEF Typed
<1> HIDE DEF now
<1>6. Keeps(n, now) /\ Reviews' = Reviews \cup {n} /\ n \notin Reviews /\ n \in 1..n
  BY <1>1, <1>3, <1>5 DEF Keeps, Reviews
<1>7. \A b \in Reviews : reviews'[b] = reviews[b]
  BY <1>1, <1>3, <1>5 DEF Reviews
<1>8. reviews'[n] = row
  BY <1>1, <1>5, <1>6
<1>9. preparing' \in [DraftIds -> Preparing]
  <2>1. [step |-> "accepted", review |-> n] \in Preparing
    BY <1>3, DraftsAssumption DEF Preparing
  <2> QED BY <1>2, <1>3, <2>1 DEF Typed
<1>10. Typed'
  BY <1>1, <1>3, <1>5, <1>6, <1>9, PublishStep DEF Typed, Reviews
<1>11. draft[d].review = 0 /\ Unreviewed(d) /\ draft[d].state = "preparing"
  BY <1>3 DEF DraftsInv, InStep
<1>12. InStep(d)' /\ Tells(d)'
  <2>1. draft'[d] = draft[d]
    BY <1>1, <1>6, <1>11, PublishStep
  <2>2. preparing'[d].step = "accepted" /\ preparing'[d].review = n
    BY <1>2, <1>3 DEF Typed
  <2> QED BY <1>4, <1>6, <1>8, <1>11, <2>1, <2>2 DEF InStep, Tells
<1>13. ASSUME NEW e \in DraftIds, e # d PROVE InStep(e)' /\ Tells(e)'
  <2>1. InStep(e) /\ Tells(e) /\ preparing'[e] = preparing[e]
    BY <1>2, <1>3, <1>13 DEF DraftsInv, Typed
  <2>2. Unreviewed(e) => Unreviewed(e)'
    BY <1>4, <1>6, <1>7, <1>8, <1>13 DEF Unreviewed
  <2>3. CASE draft[e].review = 0
    <3>1. draft'[e] = draft[e]
      BY <1>1, <1>6, <2>3, PublishStep
    <3> QED BY <1>6, <1>7, <2>1, <2>2, <2>3, <3>1 DEF InStep, Tells
  <2>4. CASE draft[e].review # 0
    <3>1. /\ draft'[e].review = draft[e].review /\ draft'[e].state \in Outcomes
          /\ draft[e].review \notin behind' => draft'[e].state = DraftState(now[draft[e].review].told)
      BY <1>1, <1>6, <2>4, PublishStep
    <3>2. preparing[e].step \notin {"flushing", "preflight", "accepted"}
      BY <2>1, <2>4 DEF InStep
    <3> QED BY <1>1, <1>6, <2>1, <2>4, <3>1, <3>2 DEF InStep, Tells, Outcomes, Final
  <2> QED BY <2>3, <2>4
<1>14. Single'
  <2>1. \A b \in Reviews : reviews'[b].draft # reviews'[n].draft
    BY <1>4, <1>7, <1>8, <1>11 DEF Unreviewed
  <2> QED BY <1>6, <1>7, <2>1 DEF DraftsInv, Single
<1>15. Known'
  BY <1>4, <1>6, <1>7, <1>8 DEF DraftsInv, Known
<1> QED BY <1>10, <1>12, <1>13, <1>14, <1>15 DEF DraftsInv

\* The events that waited are handled.
LEMMA Drained == DraftsInv /\ Drain => DraftsInv'
<1> SUFFICES ASSUME DraftsInv, Drain PROVE DraftsInv'
  OBVIOUS
<1>1. draft' = Synced(behind, reviews) /\ behind' = {} /\ UNCHANGED <<preparing, reviews>> /\ Reviews' = Reviews
  BY DEF Drain, Reviews
<1>2. Typed /\ 0 \notin Reviews /\ draining' \in BOOLEAN /\ \A b \in Reviews : reviews[b] \in ReviewRow
  BY ElementOfSeq DEF DraftsInv, Typed, Reviews, Drain
<1>3. \A b \in Reviews : DraftState(reviews[b].told) \in Outcomes
  BY <1>2, OutcomeOf DEF ReviewRow
<1>4. ASSUME NEW d \in DraftIds
      PROVE  draft'[d] \in DraftRow /\ InStep(d)' /\ Tells(d)'
  <2>1. InStep(d) /\ Tells(d) /\ draft[d] \in DraftRow
    BY <1>2 DEF DraftsInv, Typed
  <2>2. CASE draft[d].review \in behind
    <3> DEFINE row == [draft[d] EXCEPT !.state = DraftState(reviews[draft[d].review].told)]
    <3>1. draft'[d] = row /\ draft[d].review \in Reviews
      BY <1>1, <1>2, <2>2 DEF Synced, Typed
    <3>2. /\ row.review = draft[d].review /\ row.state \in Outcomes /\ row \in DraftRow
          /\ row.state = DraftState(reviews[draft[d].review].told)
      BY <1>3, <2>1, <3>1 DEF DraftRow
    <3>3. draft[d].review # 0 /\ preparing[d].step \notin {"flushing", "preflight", "accepted"}
      BY <1>2, <2>1, <3>1 DEF InStep
    <3> HIDE DEF row
    <3> QED BY <1>1, <3>1, <3>2, <3>3 DEF InStep, Tells, Outcomes, Final
  <2>3. CASE draft[d].review \notin behind
    <3>1. draft'[d] = draft[d]
      BY <1>1, <2>3 DEF Synced
    <3> QED BY <1>1, <2>1, <2>3, <3>1 DEF InStep, Tells, Unreviewed
  <2> QED BY <2>2, <2>3
<1>5. draft' \in [DraftIds -> DraftRow]
  BY <1>1, <1>4 DEF Synced
<1>6. Typed'
  BY <1>1, <1>2, <1>5 DEF Typed
<1> QED BY <1>1, <1>4, <1>6 DEF DraftsInv, Single, Known

\* A restart leaves every draft with what was published of its approval.
LEMMA Restarted == DraftsInv /\ RestartDrafts => DraftsInv'
<1> SUFFICES ASSUME DraftsInv, RestartDrafts PROVE DraftsInv'
  OBVIOUS
<1> DEFINE New(a) == [reviews[a] EXCEPT !.state = Recovered(@)]
<1>1. Typed /\ Len(reviews) \in Nat /\ \A a \in Reviews : reviews[a] \in ReviewRow
  BY LenProperties, ElementOfSeq DEF DraftsInv, Typed, Reviews
<1>2. \A a \in Reviews : New(a) \in ReviewRow /\ New(a).draft = reviews[a].draft /\ New(a).told = reviews[a].told
  BY <1>1 DEF ReviewRow, Recovered, Live, Final
<1>3. reviews' = [a \in 1..Len(reviews) |-> New(a)]
  BY DEF RestartDrafts, Reviews
<1>12. \A a \in Reviews : New(a).state = Recovered(reviews[a].state)
  BY <1>1 DEF ReviewRow
<1> HIDE DEF New
<1>4. reviews' \in Seq(ReviewRow) /\ Len(reviews') = Len(reviews)
  <2>1. reviews' \in [1..Len(reviews) -> ReviewRow]
    BY <1>2, <1>3 DEF Reviews
  <2> QED BY <1>1, <1>3, <2>1, SeqDef
<1>5. Reviews' = Reviews /\ \A a \in Reviews : reviews'[a].draft = reviews[a].draft /\ reviews'[a].told = reviews[a].told
  BY <1>2, <1>3, <1>4 DEF Reviews
<1>6. UNCHANGED behind /\ draining' \in BOOLEAN
  BY DEF RestartDrafts
<1>7. ASSUME NEW d \in DraftIds
      PROVE  draft'[d] \in DraftRow /\ InStep(d)' /\ Tells(d)'
  <2>1. InStep(d) /\ Tells(d) /\ draft[d] \in DraftRow
    BY <1>1 DEF DraftsInv, Typed
  <2>2. preparing'[d].step = "idle"
    BY DEF RestartDrafts, NotPreparing
  <2>3. CASE draft[d].state = "preparing"
    <3> DEFINE row == [draft[d] EXCEPT !.state = "unknown"]
    <3>1. draft'[d] = row
      BY <2>3 DEF RestartDrafts
    <3>2. row \in DraftRow /\ row.state = "unknown" /\ row.review = draft[d].review
      BY <2>1 DEF DraftRow, Outcomes, Final
    <3>3. draft[d].review = 0
      BY <2>1, <2>3 DEF Tells, Outcomes, Final
    <3> HIDE DEF row
    <3> QED BY <2>2, <3>1, <3>2, <3>3 DEF InStep, Tells
  <2>4. CASE draft[d].state # "preparing"
    <3>1. draft'[d] = draft[d]
      BY <2>4 DEF RestartDrafts
    <3> QED BY <1>5, <1>6, <2>1, <2>2, <3>1 DEF InStep, Tells, Unreviewed
  <2> QED BY <2>3, <2>4
<1>8. draft' \in [DraftIds -> DraftRow]
  BY <1>7 DEF RestartDrafts
<1>9. preparing' \in [DraftIds -> Preparing]
  BY DraftsAssumption DEF RestartDrafts, NotPreparing, Preparing
<1>10. Typed'
  BY <1>1, <1>4, <1>5, <1>6, <1>8, <1>9 DEF Typed
<1>11. Known'
  <2>1. \A a \in Reviews : reviews'[a].state = Recovered(reviews[a].state)
    BY <1>1, <1>3, <1>12 DEF Reviews
  <2> QED BY <1>5, <2>1 DEF DraftsInv, Known, Recovered
<1> QED BY <1>5, <1>7, <1>10, <1>11 DEF DraftsInv, Single

\* So every step keeps it.
LEMMA DraftsStep == DraftsInv /\ [DraftsNext]_drVars => DraftsInv'
<1> SUFFICES ASSUME DraftsInv, [DraftsNext]_drVars PROVE DraftsInv'
  OBVIOUS
<1>1. CASE UNCHANGED drVars
  <2>1. UNCHANGED <<draft, preparing, reviews, behind, draining>> /\ Reviews' = Reviews
    BY <1>1 DEF drVars, Reviews
  <2>2. Typed' /\ Single' /\ Known'
    BY <2>1 DEF DraftsInv, Typed, Single, Known
  <2>3. \A d \in DraftIds : InStep(d)' /\ Tells(d)'
    BY <2>1 DEF DraftsInv, InStep, Tells, Unreviewed
  <2> QED BY <2>2, <2>3 DEF DraftsInv
<1>2. CASE DraftsNext
  BY <1>2, PreparationSteps, Asked, ReviewsKept, Drained, Restarted DEF DraftsNext
<1> QED BY <1>1, <1>2

\* A draft then answers for its review.
LEMMA ReviewsAnswered == DraftsInv => DraftsAnswerForReviews
<1> SUFFICES ASSUME DraftsInv PROVE DraftsAnswerForReviews
  OBVIOUS
<1>1. \A a \in Reviews : reviews[a].draft \in DraftIds
  <2>1. \A a \in Reviews : reviews[a] \in ReviewRow
    BY ElementOfSeq DEF DraftsInv, Typed, Reviews
  <2> QED BY <2>1 DEF ReviewRow
<1>2. \A a \in Reviews : draft[reviews[a].draft].state \notin {"open", "dismissed"}
  BY <1>1 DEF DraftsInv, InStep, Unreviewed
<1>3. OutcomeIsTold
  <2> SUFFICES ASSUME behind = {}, NEW d \in DraftIds, draft[d].review # 0
               PROVE  LET review == reviews[draft[d].review] IN
                      \/ draft[d].state = DraftState(review.state)
                      \/ draft[d].state = "awaiting-approval" /\ EndedByRestart(review)
    BY DEF OutcomeIsTold
  <2> DEFINE review == reviews[draft[d].review]
  <2>1. /\ draft[d].state = DraftState(review.told)
        /\ review.state \in {review.told, Recovered(review.told)}
    BY DEF DraftsInv, Tells, Known
  <2>2. CASE review.state = review.told
    BY <2>1, <2>2
  <2>3. CASE review.state # review.told
    <3>1. review.told \in {"awaiting-approval", "approved", "executing"}
      BY <2>1, <2>3 DEF Recovered
    <3> QED BY <2>1, <2>3, <3>1 DEF DraftState, Final, EndedByRestart
  <2> QED BY <2>2, <2>3
<1> QED BY <1>2, <1>3 DEF DraftsInv, Single, OneReviewPerDraft, DraftsAnswerForReviews

(* However a review is refused, lost, decided or interrupted, a draft has  *)
(* one approval at most and, once the events are consumed, says how it     *)
(* stands; that it awaits one it says, too, of one that a restart ended.   *)
THEOREM DraftsAnswer == DraftsSpec => []DraftsAnswerForReviews
<1>1. DraftsInit => DraftsInv
  BY InitialDrafts
<1>2. DraftsInv /\ [DraftsNext]_drVars => DraftsInv'
  BY DraftsStep
<1>3. DraftsInv => DraftsAnswerForReviews
  BY ReviewsAnswered
<1> QED BY <1>1, <1>2, <1>3, PTL DEF DraftsSpec

----
(***************************************************************************)
(* MCP sessions: what a call is told is true.                              *)
(***************************************************************************)

\* The specification without the fairness, which safety does not need.
McpSpec == McpInit /\ [][McpNext]_mcVars

\* The types of sessions and of calls.
Session == [phase: {"starting", "ready", "stopping", "gone"}, alive: BOOLEAN, closed: BOOLEAN]
ToolCalls == [step: {"idle", "opening", "replacing", "joined", "waiting", "ending"}, session: Nat, awaits: Nat,
              sent: BOOLEAN, ran: BOOLEAN, told: {"nothing", "refused", "answered", "unknown"}]

LaunchedTyped == /\ launched \in Seq(Session) /\ Len(launched) \in 0..MaxSessions
                 /\ current \in 0..Len(launched) /\ opening \in 0..Len(launched) /\ stopped \in 0..Len(launched)

\* The session in the map is ready, one that starts is known, one that is gone ended.
PhasesAgree ==
  /\ current # 0 => launched[current].phase = "ready"
  /\ \A s \in Sessions : /\ launched[s].phase = "starting" => s = opening
                         /\ launched[s].phase = "gone" => ~launched[s].alive

CallsTyped == /\ tools \in [Users -> ToolCalls] /\ mcpClosing \in BOOLEAN
              /\ \A u \in Users : tools[u].session \in 0..Len(launched) /\ tools[u].awaits \in 0..Len(launched)

\* Nothing a call in session s could still do is left, or nobody can tell.
Over(L, c, s) == L[s].phase = "gone" \/ (L[s].phase = "ready" /\ c # s)

\* One call, against the sessions L of which c is in the map.
HonestCall(t, L, c) ==
  /\ t \in ToolCalls /\ t.session \in 0..Len(L) /\ t.awaits \in 0..Len(L)
  /\ t.step \in {"opening", "replacing", "joined"} => ~t.sent /\ ~t.ran
  /\ t.step \in {"joined", "waiting", "ending"} => t.session \in 1..Len(L)
  /\ t.step \in {"waiting", "ending"} => L[t.session].phase # "starting"
  /\ t.step = "ending" => t.awaits = t.session \/ Over(L, c, t.session)
  /\ t.step = "idle" /\ t.told = "refused" => ~t.sent /\ ~t.ran
  /\ t.step = "idle" /\ t.told = "unknown" => t.session \in 1..Len(L) /\ Over(L, c, t.session)
CallsAreHonest == \A u \in Users : HonestCall(tools[u], launched, current)

SessionsInv == LaunchedTyped /\ PhasesAgree
\* The inductive invariant of sessions and calls.
McpInv == SessionsInv /\ CallsTyped /\ CallsAreHonest

\* What a step does to the sessions: the call of nobody becomes a lie by it.
Onward ==
  /\ Len(launched) \in Nat /\ Len(launched') \in Nat /\ Len(launched) <= Len(launched')
  /\ \A s \in Sessions : /\ launched[s].phase # "starting" => launched'[s].phase # "starting"
                         /\ Over(launched, current, s) => Over(launched', current', s)

\* One session changes.
Changed(s, e) == /\ launched' \in Seq(Session) /\ Len(launched') = Len(launched)
                 /\ launched'[s] = e /\ \A o \in Sessions : o # s => launched'[o] = launched[o]

LEMMA SessionChanged ==
  ASSUME LaunchedTyped, NEW s \in Sessions, NEW e \in Session, launched' = [launched EXCEPT ![s] = e]
  PROVE  Changed(s, e)
BY ExceptSeq DEF LaunchedTyped, Sessions, Changed

\* Each session known to the runtime is one.
LEMMA KnownSessions ==
  ASSUME SessionsInv
  PROVE  /\ current # 0 => current \in Sessions /\ launched[current].phase = "ready"
         /\ opening # 0 => opening \in Sessions
         /\ \A s \in Sessions : launched[s] \in Session
BY ElementOfSeq DEF SessionsInv, LaunchedTyped, Sessions, PhasesAgree

\* A session goes to a later phase; it takes the place in the map only when it
\* gets ready, and leaves it when it stops.
LEMMA SessionMoves ==
  ASSUME SessionsInv, NEW s \in Sessions, NEW e \in Session, Changed(s, e),
         opening' = opening \/ (opening' = 0 /\ opening # 0 /\ launched[opening].phase # "starting"),
         stopped' \in {0, s, stopped},
         e.phase = "starting" => launched[s].phase = "starting",
         e.phase = "gone" => ~e.alive,
         launched[s].phase = "gone" => e.phase = "gone",
         \/ current' = current /\ (current = s => e.phase = "ready")
              /\ (launched[s].phase = "ready" => e.phase = "ready")
         \/ current' = s /\ e.phase = "ready" /\ launched[s].phase = "starting"
         \/ current' = 0 /\ current = s
  PROVE  SessionsInv' /\ Onward
<1> USE DEF SessionsInv, LaunchedTyped, Sessions, Changed
<1>1. LaunchedTyped'
  OBVIOUS
<1>2. PhasesAgree'
  BY DEF PhasesAgree
<1>3. Onward
  BY DEF PhasesAgree, Onward, Over
<1> QED BY <1>1, <1>2, <1>3

\* Nothing happens to the sessions.
LEMMA SessionsStay ==
  ASSUME SessionsInv, UNCHANGED <<launched, current, opening, stopped>>
  PROVE  SessionsInv' /\ Onward
BY DEF SessionsInv, LaunchedTyped, PhasesAgree, Sessions, Onward, Over

\* The session in the map is stopped.
LEMMA RunningStops ==
  ASSUME SessionsInv, current # 0, StopRunning, UNCHANGED opening
  PROVE  SessionsInv' /\ Onward
<1> DEFINE e == [launched[current] EXCEPT !.phase = "stopping", !.closed = TRUE]
<1>1. /\ current \in Sessions /\ launched[current].phase = "ready"
      /\ launched[current] \in Session
  BY KnownSessions
<1>2. e \in Session /\ e.phase = "stopping"
  BY <1>1 DEF Session
<1>3. launched' = [launched EXCEPT ![current] = e] /\ current' = 0 /\ stopped' = current
  BY <1>1 DEF StopRunning, SessionsInv, LaunchedTyped
<1> HIDE DEF e
<1>4. Changed(current, e)
  BY <1>1, <1>2, <1>3, SessionChanged DEF SessionsInv
<1> QED BY <1>1, <1>2, <1>3, <1>4, SessionMoves

\* A start is joined, or one more process launched.
LEMMA LaunchMoves ==
  ASSUME SessionsInv, NEW u \in Users, JoinOrLaunch(u), UNCHANGED <<current, stopped>>
  PROVE  SessionsInv' /\ Onward
<1>1. CASE UNCHANGED <<launched, opening>>
  BY <1>1, SessionsStay
<1>2. CASE /\ opening = 0 /\ Len(launched) < MaxSessions
           /\ launched' = Append(launched, [phase |-> "starting", alive |-> TRUE, closed |-> FALSE])
           /\ opening' = Len(launched) + 1
  <2> USE <1>2 DEF SessionsInv, LaunchedTyped, Sessions
  <2>1. launched' \in Seq(Session) /\ Len(launched') = Len(launched) + 1 /\ Len(launched) \in Nat
    BY DEF Session
  <2>2. \A s \in Sessions : launched'[s] = launched[s]
    OBVIOUS
  <2>3. LaunchedTyped'
    BY <2>1, McpAssumption
  <2>4. launched'[opening'] = [phase |-> "starting", alive |-> TRUE, closed |-> FALSE]
    OBVIOUS
  <2>5. PhasesAgree'
    BY <2>1, <2>2, <2>4 DEF PhasesAgree
  <2>6. Onward
    BY <2>1, <2>2 DEF Onward, Over
  <2> QED BY <2>3, <2>5, <2>6
<1> QED BY <1>1, <1>2 DEF JoinOrLaunch

\* Every step moves the sessions on.
LEMMA SessionsStep ==
  ASSUME SessionsInv, [McpNext]_mcVars
  PROVE  SessionsInv' /\ Onward
<1>1. ASSUME NEW u \in Users, OpenSession(u) \/ Replace(u) PROVE SessionsInv' /\ Onward
  <2>1. CASE UNCHANGED <<launched, current, opening, stopped>>
    BY <2>1, SessionsStay
  <2>2. CASE current # 0 /\ StopRunning /\ UNCHANGED opening
    BY <2>2, RunningStops
  <2>3. CASE JoinOrLaunch(u) /\ UNCHANGED <<current, stopped>>
    BY <2>3, LaunchMoves
  <2> QED BY <1>1, <2>1, <2>2, <2>3 DEF OpenSession, Replace
<1>2. CASE Opened
  <2>1. opening \in Sessions /\ launched[opening] \in Session /\ launched[opening].phase = "starting"
    BY <1>2, KnownSessions DEF Opened
  <2>2. current # opening
    BY <2>1, KnownSessions DEF Sessions
  <2>3. CASE launched' = [launched EXCEPT ![opening].phase = "ready"] /\ current' = opening
    <3> DEFINE e == [launched[opening] EXCEPT !.phase = "ready"]
    <3>1. e \in Session /\ e.phase = "ready"
      BY <2>1 DEF Session
    <3>2. launched' = [launched EXCEPT ![opening] = e]
      BY <2>1, <2>3 DEF SessionsInv, LaunchedTyped
    <3> HIDE DEF e
    <3>3. Changed(opening, e)
      BY <2>1, <3>1, <3>2, SessionChanged DEF SessionsInv
    <3> QED BY <1>2, <2>1, <2>2, <2>3, <3>1, <3>3, SessionMoves DEF Opened
  <2>4. CASE /\ launched' = [launched EXCEPT ![opening].phase = "gone", ![opening].alive = FALSE, ![opening].closed = TRUE]
             /\ UNCHANGED current
    <3> DEFINE e == [launched[opening] EXCEPT !.phase = "gone", !.alive = FALSE, !.closed = TRUE]
    <3>1. e \in Session /\ e.phase = "gone" /\ ~e.alive
      BY <2>1 DEF Session
    <3>2. launched' = [launched EXCEPT ![opening] = e]
      BY <2>1, <2>4 DEF SessionsInv, LaunchedTyped
    <3> HIDE DEF e
    <3>3. Changed(opening, e)
      BY <2>1, <3>1, <3>2, SessionChanged DEF SessionsInv
    <3> QED BY <1>2, <2>1, <2>2, <2>4, <3>1, <3>3, SessionMoves DEF Opened
  <2> QED BY <1>2, <2>3, <2>4 DEF Opened
<1>3. CASE StartForgotten
  <2>1. opening \in Sessions /\ launched[opening].phase # "starting"
    BY <1>3, KnownSessions DEF StartForgotten
  <2>2. opening' = 0 /\ UNCHANGED <<launched, current, stopped>>
    BY <1>3 DEF StartForgotten
  <2>3. SessionsInv'
    BY <2>1, <2>2 DEF SessionsInv, LaunchedTyped, PhasesAgree, Sessions
  <2>4. Onward
    BY <2>2 DEF SessionsInv, LaunchedTyped, Sessions, Onward, Over
  <2> QED BY <2>3, <2>4
<1>4. ASSUME NEW u \in Users, Interrupted(u) PROVE SessionsInv' /\ Onward
  <2>1. CASE UNCHANGED <<launched, current, stopped>>
    BY <1>4, <2>1, SessionsStay DEF Interrupted
  <2>2. CASE StopRunning /\ current # 0
    BY <1>4, <2>2, RunningStops DEF Interrupted
  <2>3. CASE StopRunning /\ current = 0
    <3>1. UNCHANGED <<launched, current, opening>> /\ stopped' = 0
      BY <1>4, <2>3 DEF Interrupted, StopRunning, SessionsInv, LaunchedTyped
    <3> QED BY <3>1 DEF SessionsInv, LaunchedTyped, PhasesAgree, Sessions, Onward, Over
  <2> QED BY <1>4, <2>1, <2>2, <2>3 DEF Interrupted
<1>5. ASSUME NEW s \in Sessions, Stopped(s) PROVE SessionsInv' /\ Onward
  <2>1. launched[s] \in Session /\ launched[s].phase = "stopping" /\ current # s
    BY <1>5, KnownSessions DEF Stopped, Sessions
  <2> DEFINE e == [launched[s] EXCEPT !.phase = "gone", !.alive = FALSE]
  <2>2. e \in Session /\ e.phase = "gone" /\ ~e.alive
    BY <2>1 DEF Session
  <2>3. launched' = [launched EXCEPT ![s] = e]
    BY <1>5, <2>1 DEF Stopped, SessionsInv, LaunchedTyped
  <2> HIDE DEF e
  <2>4. Changed(s, e)
    BY <2>2, <2>3, SessionChanged DEF SessionsInv
  <2>5. UNCHANGED <<current, opening>> /\ stopped' \in {0, s, stopped}
    BY <1>5 DEF Stopped
  <2> QED BY <2>1, <2>2, <2>4, <2>5, SessionMoves
<1>6. ASSUME NEW s \in Sessions, Dies(s) PROVE SessionsInv' /\ Onward
  <2>1. launched[s] \in Session /\ launched[s].phase \in {"starting", "ready"}
    BY <1>6, KnownSessions DEF Dies
  <2>2. PICK exits \in BOOLEAN : launched' = [launched EXCEPT ![s].closed = TRUE, ![s].alive = ~exits]
    BY <1>6 DEF Dies
  <2> DEFINE e == [launched[s] EXCEPT !.closed = TRUE, !.alive = ~exits]
  <2>3. e \in Session /\ e.phase = launched[s].phase
    BY <2>1 DEF Session
  <2>4. launched' = [launched EXCEPT ![s] = e]
    BY <2>1, <2>2 DEF SessionsInv, LaunchedTyped
  <2> HIDE DEF e
  <2>5. Changed(s, e)
    BY <2>3, <2>4, SessionChanged DEF SessionsInv
  <2>6. UNCHANGED <<current, opening, stopped>> /\ (current = s => launched[s].phase = "ready")
    BY <1>6, KnownSessions DEF Dies, Sessions
  <2> QED BY <2>1, <2>3, <2>5, <2>6, SessionMoves
<1>7. CASE ShutdownMcp \/ \E idle \in BOOLEAN : StopCurrent(idle)
  BY <1>7, SessionsStay, RunningStops DEF ShutdownMcp, StopCurrent
<1>8. ASSUME NEW u \in Users, CallTool(u) \/ DispatchTool(u) \/ ServerActs(u) \/ Answered(u) \/ CallEnded(u)
      PROVE  SessionsInv' /\ Onward
  BY <1>8, SessionsStay DEF CallTool, DispatchTool, ServerActs, Answered, CallEnded
<1>9. CASE UNCHANGED mcVars
  BY <1>9, SessionsStay DEF mcVars
<1> QED BY <1>1, <1>2, <1>3, <1>4, <1>5, <1>6, <1>7, <1>8, <1>9 DEF McpNext

\* A call that was told the truth is not made a liar by a session.
LEMMA StillHonest ==
  ASSUME SessionsInv, Onward, NEW t, HonestCall(t, launched, current)
  PROVE  HonestCall(t, launched', current')
BY DEF HonestCall, Onward, Sessions

\* Every step tells its call the truth.
LEMMA CallsStep ==
  ASSUME McpInv, [McpNext]_mcVars
  PROVE  CallsTyped' /\ CallsAreHonest'
<1>0. SessionsInv' /\ Onward
  BY SessionsStep DEF McpInv
<1>1. \A u \in Users : /\ HonestCall(tools[u], launched, current) /\ HonestCall(tools[u], launched', current')
                       /\ tools[u] \in ToolCalls
  BY <1>0, StillHonest DEF McpInv, CallsAreHonest, HonestCall
<1>2. Len(launched) \in Nat /\ Len(launched') \in Nat /\ Len(launched) <= Len(launched')
  BY <1>0 DEF Onward
<1>3. tools \in [Users -> ToolCalls] /\ mcpClosing \in BOOLEAN
  BY DEF McpInv, CallsTyped
<1> DEFINE Good == tools' \in [Users -> ToolCalls] /\ \A u \in Users : HonestCall(tools'[u], launched', current')
<1>4. ASSUME NEW u \in Users, NEW t, HonestCall(t, launched', current'), tools' = [tools EXCEPT ![u] = t] PROVE Good
  BY <1>1, <1>3, <1>4 DEF HonestCall
<1>5. ASSUME tools' = tools PROVE Good
  BY <1>1, <1>3, <1>5
<1>6. ASSUME NEW u \in Users, NEW told \in {"refused", "answered", "unknown"}, Tell(u, told),
             told = "refused" => ~tools[u].sent /\ ~tools[u].ran,
             told = "unknown" => tools[u].session \in 1..Len(launched') /\ Over(launched', current', tools[u].session)
      PROVE  Good
  <2> DEFINE t == [tools[u] EXCEPT !.step = "idle", !.awaits = 0, !.told = told]
  <2>1. tools' = [tools EXCEPT ![u] = t]
    BY <1>1, <1>3, <1>6 DEF Tell, ToolCalls
  <2>2. t \in ToolCalls /\ t.step = "idle" /\ t.awaits = 0 /\ t.told = told /\ t.session = tools[u].session
          /\ t.sent = tools[u].sent /\ t.ran = tools[u].ran
    BY <1>1 DEF ToolCalls
  <2>3. t.session \in 0..Len(launched') /\ t.awaits \in 0..Len(launched')
    BY <1>1, <1>2, <2>2 DEF HonestCall
  <2> HIDE DEF t
  <2>4. HonestCall(t, launched', current')
    BY <1>6, <2>2, <2>3 DEF HonestCall
  <2> QED BY <1>4, <2>1, <2>4
<1>7. ASSUME NEW u \in Users, CallTool(u) PROVE Good
  <2> DEFINE t == [NoCall EXCEPT !.step = "opening", !.awaits = stopped]
  <2>1. stopped \in Nat /\ stopped \in 0..Len(launched') /\ 0 \in 0..Len(launched')
    BY <1>2 DEF McpInv, SessionsInv, LaunchedTyped
  <2>2. t \in ToolCalls /\ t.session = 0 /\ ~t.sent /\ ~t.ran /\ t.step = "opening" /\ t.awaits = stopped
    BY <2>1 DEF NoCall, ToolCalls
  <2>3. tools' = [tools EXCEPT ![u] = t]
    BY <1>7 DEF CallTool
  <2> HIDE DEF t
  <2>4. HonestCall(t, launched', current')
    BY <2>1, <2>2 DEF HonestCall
  <2> QED BY <1>4, <2>3, <2>4
<1>8. ASSUME NEW u \in Users, tools[u].step \in {"opening", "replacing"}, NEW s \in 1..Len(launched'),
             tools' = [tools EXCEPT ![u].step = "joined", ![u].session = s, ![u].awaits = 0]
      PROVE  Good
  <2> DEFINE t == [tools[u] EXCEPT !.step = "joined", !.session = s, !.awaits = 0]
  <2>1. tools[u] \in ToolCalls /\ ~tools[u].sent /\ ~tools[u].ran /\ s \in Nat
    BY <1>1, <1>2, <1>8 DEF HonestCall
  <2>2. tools' = [tools EXCEPT ![u] = t]
    BY <1>3, <1>8, <2>1 DEF ToolCalls
  <2>3. t \in ToolCalls /\ t.session = s /\ ~t.sent /\ ~t.ran /\ t.step = "joined" /\ t.awaits = 0
    BY <2>1 DEF ToolCalls
  <2>4. s \in 0..Len(launched') /\ 0 \in 0..Len(launched')
    BY <1>2, <1>8
  <2> HIDE DEF t
  <2>5. HonestCall(t, launched', current')
    BY <1>8, <2>3, <2>4 DEF HonestCall
  <2> QED BY <1>4, <2>2, <2>5
<1>9. ASSUME NEW u \in Users, tools[u].step \in {"opening", "replacing"}, JoinOrLaunch(u) PROVE Good
  <2>1. CASE opening # 0 /\ UNCHANGED launched
             /\ tools' = [tools EXCEPT ![u].step = "joined", ![u].session = opening, ![u].awaits = 0]
    <3>1. opening \in 1..Len(launched')
      BY <2>1 DEF McpInv, SessionsInv, LaunchedTyped
    <3> QED BY <1>8, <1>9, <2>1, <3>1
  <2>2. CASE /\ launched' = Append(launched, [phase |-> "starting", alive |-> TRUE, closed |-> FALSE])
             /\ tools' = [tools EXCEPT ![u].step = "joined", ![u].session = Len(launched) + 1, ![u].awaits = 0]
    <3>1. Len(launched) + 1 \in 1..Len(launched')
      BY <1>2, <2>2 DEF McpInv, SessionsInv, LaunchedTyped
    <3> QED BY <1>8, <1>9, <2>2, <3>1
  <2> QED BY <1>9, <2>1, <2>2 DEF JoinOrLaunch
<1>10. ASSUME NEW u \in Users, OpenSession(u) PROVE Good
  <2>1. tools[u].step = "opening" /\ ~tools[u].sent /\ ~tools[u].ran
    BY <1>1, <1>10 DEF OpenSession, HonestCall
  <2>2. CASE Tell(u, "refused")
    BY <1>6, <2>1, <2>2
  <2>3. CASE /\ current # 0 /\ UNCHANGED launched
             /\ tools' = [tools EXCEPT ![u].step = "joined", ![u].session = current, ![u].awaits = 0]
    <3>1. current \in 1..Len(launched')
      BY <2>3 DEF McpInv, SessionsInv, LaunchedTyped
    <3> QED BY <1>8, <2>1, <2>3, <3>1
  <2>4. CASE current # 0 /\ tools' = [tools EXCEPT ![u].step = "replacing", ![u].awaits = current]
    <3> DEFINE t == [tools[u] EXCEPT !.step = "replacing", !.awaits = current]
    <3>1. current \in Nat /\ current \in 0..Len(launched')
      BY <1>2 DEF McpInv, SessionsInv, LaunchedTyped
    <3>2. tools' = [tools EXCEPT ![u] = t]
      BY <1>1, <1>3, <2>4 DEF ToolCalls
    <3>3. t \in ToolCalls /\ t.session = tools[u].session /\ ~t.sent /\ ~t.ran /\ t.step = "replacing" /\ t.awaits = current
      BY <1>1, <2>1, <3>1 DEF ToolCalls
    <3>4. t.session \in 0..Len(launched')
      BY <1>1, <3>3 DEF HonestCall
    <3> HIDE DEF t
    <3>5. HonestCall(t, launched', current')
      BY <3>1, <3>3, <3>4 DEF HonestCall
    <3> QED BY <1>4, <3>2, <3>5
  <2> QED BY <1>9, <1>10, <2>1, <2>2, <2>3, <2>4 DEF OpenSession
<1>11. ASSUME NEW u \in Users, Replace(u) PROVE Good
  BY <1>9, <1>11 DEF Replace
<1>12. ASSUME NEW u \in Users, DispatchTool(u) PROVE Good
  <2>0. ~tools[u].sent /\ ~tools[u].ran /\ tools[u].session \in Sessions /\ launched[tools[u].session].phase # "starting"
    BY <1>1, <1>12 DEF DispatchTool, HonestCall, Sessions
  <2>1. CASE Tell(u, "refused")
    BY <1>6, <2>0, <2>1
  <2>2. CASE tools' = [tools EXCEPT ![u].step = "waiting", ![u].sent = TRUE]
    <3> DEFINE t == [tools[u] EXCEPT !.step = "waiting", !.sent = TRUE]
    <3>1. tools' = [tools EXCEPT ![u] = t]
      BY <1>1, <1>3, <2>2 DEF ToolCalls
    <3>2. t \in ToolCalls /\ t.session = tools[u].session /\ t.awaits = tools[u].awaits /\ t.step = "waiting"
      BY <1>1 DEF ToolCalls
    <3>3. launched' = launched
      BY <1>12 DEF DispatchTool
    <3> HIDE DEF t
    <3>4. HonestCall(t, launched', current')
      BY <1>1, <2>0, <3>2, <3>3 DEF HonestCall, Sessions
    <3> QED BY <1>4, <3>1, <3>4
  <2> QED BY <1>12, <2>1, <2>2 DEF DispatchTool
<1>13. ASSUME NEW u \in Users, ServerActs(u) PROVE Good
  <2> DEFINE t == [tools[u] EXCEPT !.ran = TRUE]
  <2>1. tools' = [tools EXCEPT ![u] = t]
    BY <1>1, <1>3, <1>13 DEF ToolCalls, ServerActs
  <2>2. t \in ToolCalls /\ t.session = tools[u].session /\ t.awaits = tools[u].awaits /\ t.step = tools[u].step
          /\ t.told = tools[u].told /\ t.sent
    BY <1>1, <1>13 DEF ToolCalls, ServerActs
  <2>3. tools[u].sent
    BY <1>13 DEF ServerActs
  <2> HIDE DEF t
  <2>4. HonestCall(t, launched', current')
    BY <1>1, <2>2, <2>3 DEF HonestCall
  <2> QED BY <1>4, <2>1, <2>4
<1>14. ASSUME NEW u \in Users, Answered(u) PROVE Good
  BY <1>6, <1>14 DEF Answered
<1>15. ASSUME NEW u \in Users, Interrupted(u) PROVE Good
  <2> DEFINE s == tools[u].session
             w == IF current = s \/ launched[s].phase # "ready" THEN s ELSE stopped
             t == [tools[u] EXCEPT !.step = "ending", !.awaits = w]
  <2>1. tools[u].step = "waiting" /\ s \in Sessions /\ launched[s].phase # "starting"
    BY <1>1, <1>15 DEF Interrupted, HonestCall, Sessions
  <2>2. w \in Nat /\ w \in 0..Len(launched')
    BY <1>2, <2>1 DEF McpInv, SessionsInv, LaunchedTyped, Sessions
  <2>3. w = s \/ Over(launched, current, s)
    BY DEF Over
  <2>4. w = s \/ Over(launched', current', s)
    BY <1>0, <2>1, <2>3 DEF Onward
  <2>5. tools' = [tools EXCEPT ![u].step = "ending", ![u].awaits = w]
    BY <1>15 DEF Interrupted
  <2> HIDE DEF w
  <2>6. tools' = [tools EXCEPT ![u] = t]
    BY <1>1, <1>3, <2>5 DEF ToolCalls
  <2>7. t \in ToolCalls /\ t.session = s /\ t.awaits = w /\ t.step = "ending"
    BY <1>1, <2>2 DEF ToolCalls
  <2>8. s \in 1..Len(launched') /\ s \in 0..Len(launched') /\ launched'[s].phase # "starting"
    BY <1>0, <1>2, <2>1 DEF Onward, Sessions
  <2> HIDE DEF t
  <2>9. HonestCall(t, launched', current')
    BY <2>2, <2>4, <2>7, <2>8 DEF HonestCall
  <2> QED BY <1>4, <2>6, <2>9
<1>16. ASSUME NEW u \in Users, CallEnded(u) PROVE Good
  <2>1. tools[u].session \in 1..Len(launched')
    BY <1>1, <1>16 DEF HonestCall, CallEnded
  <2>2. tools[u].session # 0 /\ tools[u].session \in 1..Len(launched)
    BY <1>1, <1>16 DEF HonestCall, CallEnded
  <2>3. Over(launched, current, tools[u].session)
    BY <1>1, <1>16, <2>2 DEF HonestCall, CallEnded, StopAwaited, Over
  <2>4. Over(launched', current', tools[u].session)
    BY <1>0, <2>2, <2>3 DEF Onward, Sessions
  <2> QED BY <1>6, <1>16, <2>1, <2>4 DEF CallEnded
<1>17. ASSUME \/ Opened \/ StartForgotten \/ ShutdownMcp \/ UNCHANGED mcVars
              \/ \E s \in Sessions : Stopped(s) \/ Dies(s)
              \/ \E idle \in BOOLEAN : StopCurrent(idle)
       PROVE  Good
  <2>1. tools' = tools
    BY <1>17 DEF Opened, StartForgotten, ShutdownMcp, Stopped, Dies, StopCurrent, mcVars
  <2> QED BY <1>5, <2>1
<1> HIDE DEF Good
<1>18. Good
  BY <1>7, <1>10, <1>11, <1>12, <1>13, <1>14, <1>15, <1>16, <1>17 DEF McpNext
<1>19. mcpClosing' \in BOOLEAN
  BY <1>3 DEF McpNext, mcVars, Opened, StartForgotten, ShutdownMcp, CallTool, OpenSession, Replace, DispatchTool,
    ServerActs, Answered, Interrupted, CallEnded, Stopped, Dies, StopCurrent
<1>20. CallsAreHonest' /\ CallsTyped'
  BY <1>18, <1>19 DEF Good, CallsTyped, CallsAreHonest, HonestCall
<1> QED BY <1>20

\* So it is in every reachable state.
LEMMA McpInvariant == McpSpec => []McpInv
<1>1. McpInit => McpInv
  <2> SUFFICES ASSUME McpInit PROVE McpInv
    OBVIOUS
  <2>1. launched \in Seq(Session) /\ Len(launched) = 0
    BY EmptySeq DEF McpInit
  <2>2. SessionsInv
    BY <2>1, McpAssumption DEF McpInit, SessionsInv, LaunchedTyped, PhasesAgree, Sessions
  <2>3. /\ NoCall \in ToolCalls /\ NoCall.session = 0 /\ NoCall.awaits = 0
        /\ NoCall.step = "idle" /\ NoCall.told = "nothing"
    BY DEF NoCall, ToolCalls
  <2>4. tools \in [Users -> ToolCalls] /\ mcpClosing \in BOOLEAN /\ \A u \in Users : tools[u] = NoCall
    BY <2>3 DEF McpInit
  <2>5. CallsTyped /\ CallsAreHonest
    BY <2>1, <2>3, <2>4 DEF CallsTyped, CallsAreHonest, HonestCall
  <2> QED BY <2>2, <2>5 DEF McpInv
<1>2. McpInv /\ [McpNext]_mcVars => McpInv'
  BY SessionsStep, CallsStep DEF McpInv
<1> QED BY <1>1, <1>2, PTL DEF McpSpec

(* Every reachable state of the MCP sessions is well typed.                *)
THEOREM McpTypeCorrect == McpSpec => []McpTypeOK
<1>1. McpInv => McpTypeOK
  BY ElementOfSeq DEF McpInv, SessionsInv, LaunchedTyped, CallsTyped, McpTypeOK, Sessions, Session, ToolCalls
<1> QED BY <1>1, McpInvariant, PTL

(* A call told `refused' never ran its tool, and the session of one told   *)
(* `unknown' is gone and can run it no more, unless another session took   *)
(* its place in the map, however openings, stops, deaths and timeouts      *)
(* interleave (mcp.ts).                                                    *)
THEOREM McpTellsTheTruth == McpSpec => []ToldTheTruth
<1>1. McpInv => ToldTheTruth
  <2> SUFFICES ASSUME McpInv, NEW u \in Users, tools[u].step = "idle"
               PROVE  /\ tools[u].told = "refused" => ~tools[u].ran
                      /\ tools[u].told = "unknown" => ~launched[tools[u].session].alive \/ Orphaned(tools[u].session)
    BY DEF ToldTheTruth
  <2> QED BY DEF McpInv, CallsAreHonest, HonestCall, SessionsInv, PhasesAgree, Over, Orphaned, Sessions
<1> QED BY <1>1, McpInvariant, PTL

----
(***************************************************************************)
(* Turns of an agent: what it used is recorded, what it asked happens once. *)
(***************************************************************************)

\* The specification of the turns.
TurnsSpec == TurnsInit /\ [][TurnsNext]_atVars

\* The types of a row of the usage ledger, of the loop and of the task.
UsageRow == [state: {"pending", "completed", "failed", "interrupted"}, charge: Nat]
Loops == [step: {"none", "queued", "streaming", "answered", "executed"}, handle: Nat, cursor: 0..MaxMessages,
          todo: SUBSET CallIds, call: CallIds \cup {"none"}, rounds: Nat, abort: BOOLEAN]
TurnsTyped ==
  /\ task \in [status: {"idle", "running", "failed", "cancelled", "interrupted"}, used: Nat]
  /\ ledger \in Seq(UsageRow)
  /\ native \in [pending: SUBSET CallIds, results: SUBSET CallIds, seen: SUBSET CallIds]
  /\ channel \in [sent: 0..MaxMessages, receipt: 0..MaxMessages]
  /\ loop \in Loops /\ loop.handle <= Len(ledger)
  /\ executed \in [CallIds -> Nat] /\ heard \in [1..MaxMessages -> Nat]

\* A request that is open is charged its reservation.
OpenIsReserved == \A i \in 1..Len(ledger) : ledger[i].state = "pending" => ledger[i].charge = Reservation
\* What the loop will acknowledge lies between the receipt and what was sent.
CursorIsAhead == loop.cursor = 0 \/ (channel.receipt < loop.cursor /\ loop.cursor <= channel.sent)
\* A call still to do was not executed, an executed one has been seen.
CallsInOrder ==
  /\ \A c \in CallIds : executed[c] > 0 => c \in native.seen
  /\ \A c \in loop.todo : executed[c] = 0 /\ c \in native.seen
  /\ loop.step = "executed" => loop.call \in CallIds /\ executed[loop.call] = 1

\* The inductive invariant of the turns.
TurnsInv == TurnsTyped /\ OpenIsReserved /\ CursorIsAhead /\ CallsInOrder /\ UsedIsRecorded /\ ConversationOnce

\* A new row adds its charge; another charge of a row replaces what it was.
LEMMA ChargeOfNewRow ==
  ASSUME NEW rows \in Seq(UsageRow), NEW row \in UsageRow
  PROVE  /\ ChargesOf(rows) \in Nat
         /\ ChargesOf(Append(rows, row)) = ChargesOf(rows) + row.charge
<1> DEFINE n == Len(rows)
           f == [i \in 1..n |-> rows[i].charge]
           g == [i \in 1..(n + 1) |-> Append(rows, row)[i].charge]
<1>1. /\ n \in Nat /\ DOMAIN rows = 1..n /\ DOMAIN Append(rows, row) = 1..(n + 1)
      /\ \A i \in 1..n : Append(rows, row)[i] = rows[i] /\ rows[i] \in UsageRow
      /\ Append(rows, row)[n + 1] = row
  OBVIOUS
<1>2. /\ f \in [1..n -> Nat] /\ g \in [1..(n + 1) -> Nat]
      /\ \A i \in 1..n : g[i] = f[i]
      /\ g[n + 1] = row.charge
  BY <1>1 DEF UsageRow
<1>3. ChargesOf(rows) = SumFunctionOnSet(f, 1..n) /\ ChargesOf(Append(rows, row)) = SumFunctionOnSet(g, 1..(n + 1))
  BY <1>1 DEF ChargesOf
<1> HIDE DEF f, g, n
<1>4. /\ SumFunctionOnSet(f, 1..n) \in Nat
      /\ SumFunctionOnSet(g, 1..(n + 1)) = SumFunctionOnSet(f, 1..n) + g[n + 1]
  BY <1>1, <1>2, SumAppend
<1> QED BY <1>2, <1>3, <1>4

\* A row that is settled changes the sum by what its charge changes.
LEMMA ChargeOfSettledRow ==
  ASSUME NEW rows \in Seq(UsageRow), NEW h \in 1..Len(rows), NEW row \in UsageRow
  PROVE  /\ ChargesOf(rows) \in Nat /\ ChargesOf([rows EXCEPT ![h] = row]) \in Nat
         /\ ChargesOf([rows EXCEPT ![h] = row]) = ChargesOf(rows) + row.charge - rows[h].charge
<1> DEFINE n == Len(rows)
           new == [rows EXCEPT ![h] = row]
           f == [i \in 1..n |-> rows[i].charge]
           g == [f EXCEPT ![h] = row.charge]
<1>1. /\ n \in Nat /\ DOMAIN rows = 1..n /\ DOMAIN new = 1..n /\ h \in 1..n
      /\ \A i \in 1..n : rows[i] \in UsageRow /\ new[i] = IF i = h THEN row ELSE rows[i]
  OBVIOUS
<1>2. f \in [1..n -> Nat] /\ f[h] = rows[h].charge /\ row.charge \in Nat
  BY <1>1 DEF UsageRow
<1>3. ChargesOf(rows) = SumFunctionOnSet(f, 1..n)
  BY <1>1 DEF ChargesOf
<1>4. ChargesOf(new) = SumFunctionOnSet(g, 1..n)
  <2>1. [i \in 1..n |-> new[i].charge] = g
    BY <1>1, <1>2
  <2> QED BY <1>1, <2>1 DEF ChargesOf
<1> HIDE DEF f, n
<1>5. \A u \in [1..n -> Nat], k \in 1..n, c \in Nat :
        /\ SumFunctionOnSet(u, 1..n) \in Nat /\ SumFunctionOnSet([u EXCEPT ![k] = c], 1..n) \in Nat
        /\ SumFunctionOnSet([u EXCEPT ![k] = c], 1..n) = SumFunctionOnSet(u, 1..n) + c - u[k]
  BY <1>1, SumReplace
<1>6. /\ SumFunctionOnSet(f, 1..n) \in Nat /\ SumFunctionOnSet(g, 1..n) \in Nat
      /\ SumFunctionOnSet(g, 1..n) = SumFunctionOnSet(f, 1..n) + row.charge - f[h]
  BY <1>1, <1>2, <1>5
<1> QED BY <1>2, <1>3, <1>4, <1>6

\* Rows with the same charges add up to the same.
LEMMA ChargeStays ==
  ASSUME NEW rows, NEW others, DOMAIN others = DOMAIN rows, \A i \in DOMAIN rows : others[i].charge = rows[i].charge
  PROVE  ChargesOf(others) = ChargesOf(rows)
<1>1. [i \in DOMAIN others |-> others[i].charge] = [i \in DOMAIN rows |-> rows[i].charge]
  OBVIOUS
<1> QED BY <1>1, Zenon DEF ChargesOf

\* TurnsInv holds before the first turn.
LEMMA TurnsStart == TurnsInit => TurnsInv
<1> SUFFICES ASSUME TurnsInit PROVE TurnsInv
  OBVIOUS
<1> USE TurnsAssumption
<1>1. TurnsTyped
  BY DEF TurnsInit, TurnsTyped, UsageRow, NoLoop, Loops
<1>2. UsedIsRecorded
  <2>1. DOMAIN ledger = {} /\ task.used = 0
    BY DEF TurnsInit
  <2>2. ChargesOf(ledger) = 0
    BY <2>1, SumEmpty DEF ChargesOf
  <2> QED BY <2>1, <2>2 DEF UsedIsRecorded
<1>3. OpenIsReserved /\ CursorIsAhead /\ CallsInOrder /\ ConversationOnce
  BY DEF TurnsInit, NoLoop, OpenIsReserved, CursorIsAhead, CallsInOrder, ConversationOnce
<1> QED BY <1>1, <1>2, <1>3 DEF TurnsInv

\* A request is admitted with its reservation.
LEMMA AdmittedRow ==
  ASSUME TurnsInv, Fits, Admitted
  PROVE  /\ task' \in [status: {"idle", "running", "failed", "cancelled", "interrupted"}, used: Nat]
         /\ ledger' \in Seq(UsageRow) /\ Len(ledger') = Len(ledger) + 1
         /\ OpenIsReserved' /\ UsedIsRecorded'
<1> USE TurnsAssumption
<1> DEFINE row == [state |-> "pending", charge |-> Reservation]
<1>1. row \in UsageRow /\ ledger \in Seq(UsageRow) /\ ledger' = Append(ledger, row)
  BY DEF UsageRow, TurnsInv, TurnsTyped, Admitted
<1>2. task.used \in Nat /\ task' = [status |-> "running", used |-> task.used + Reservation]
  BY DEF TurnsInv, TurnsTyped, Admitted
<1>3. /\ ledger' \in Seq(UsageRow) /\ Len(ledger') = Len(ledger) + 1
      /\ \A i \in 1..Len(ledger') : ledger'[i] = IF i = Len(ledger) + 1 THEN row ELSE ledger[i]
  BY <1>1
<1>4. ChargesOf(ledger') = ChargesOf(ledger) + Reservation
  BY <1>1, ChargeOfNewRow
<1>5. OpenIsReserved'
  BY <1>3 DEF OpenIsReserved, TurnsInv
<1> QED BY <1>2, <1>3, <1>4, <1>5 DEF UsedIsRecorded, TurnsInv

\* It is settled at most once, and whatever was not measured stays charged.
LEMMA SettledRow ==
  ASSUME TurnsInv, NEW handle \in 0..Len(ledger), NEW state \in {"completed", "failed"},
         NEW usage \in RequestUsages \cup {NotMeasured}, NEW status \in {"idle", "running", "failed", "cancelled"},
         SettleRequest(handle, state, usage, status)
  PROVE  /\ task' \in [status: {"idle", "running", "failed", "cancelled", "interrupted"}, used: Nat]
         /\ ledger' \in Seq(UsageRow) /\ Len(ledger') = Len(ledger)
         /\ OpenIsReserved' /\ UsedIsRecorded'
<1> USE TurnsAssumption
<1>t. ledger \in Seq(UsageRow) /\ task \in [status: {"idle", "running", "failed", "cancelled", "interrupted"}, used: Nat]
      /\ OpenIsReserved /\ task.used = ChargesOf(ledger)
  BY DEF TurnsInv, TurnsTyped, UsedIsRecorded
<1>1. CASE handle = 0 \/ ledger[handle].state # "pending"
  <2>1. ledger' = ledger /\ task' = [task EXCEPT !.status = status]
    BY <1>1 DEF SettleRequest
  <2>2. ChargesOf(ledger') = ChargesOf(ledger)
    BY <2>1 DEF ChargesOf
  <2> QED BY <1>t, <2>1, <2>2 DEF OpenIsReserved, UsedIsRecorded
<1>2. CASE handle # 0 /\ ledger[handle].state = "pending"
  <2> DEFINE charge == IF usage = NotMeasured THEN Reservation ELSE usage
             row == [state |-> state, charge |-> charge]
  <2>1. charge \in Nat /\ row \in UsageRow /\ handle \in 1..Len(ledger) /\ ledger[handle].charge = Reservation
    <3>1. charge \in Nat
      BY DEF NotMeasured
    <3>2. handle \in 1..Len(ledger) /\ ledger[handle].charge = Reservation
      BY <1>t, <1>2 DEF OpenIsReserved
    <3> QED BY <3>1, <3>2 DEF UsageRow
  <2>2. ledger' = [ledger EXCEPT ![handle] = row] /\ task' = [status |-> status, used |-> task.used - Reservation + charge]
    BY <1>2 DEF SettleRequest
  <2>3. ChargesOf(ledger') = ChargesOf(ledger) + charge - Reservation /\ ChargesOf(ledger') \in Nat /\ ChargesOf(ledger) \in Nat
    BY <1>t, <2>1, <2>2, ChargeOfSettledRow
  <2>4. ledger' \in Seq(UsageRow) /\ Len(ledger') = Len(ledger)
    BY <1>t, <2>1, <2>2
  <2>5. OpenIsReserved'
    BY <1>t, <2>1, <2>2 DEF OpenIsReserved
  <2> HIDE DEF charge
  <2> QED BY <1>t, <2>1, <2>2, <2>3, <2>4, <2>5 DEF UsedIsRecorded
<1> QED BY <1>1, <1>2

\* Every step of a turn keeps TurnsInv.
LEMMA TurnsStep == TurnsInv /\ [TurnsNext]_atVars => TurnsInv'
<1> SUFFICES ASSUME TurnsInv, [TurnsNext]_atVars PROVE TurnsInv'
  OBVIOUS
<1> USE TurnsAssumption
<1>t. TurnsTyped /\ OpenIsReserved /\ CursorIsAhead /\ CallsInOrder /\ UsedIsRecorded /\ ConversationOnce
  BY DEF TurnsInv
<1>u. UNCHANGED <<task, ledger>> => OpenIsReserved' /\ UsedIsRecorded'
  BY <1>t DEF OpenIsReserved, UsedIsRecorded, ChargesOf
<1>1. ASSUME Fits, Admitted, NEW from \in Loops, NEW rounds \in Nat, from.todo = {},
             \E c \in Cursors : loop' = [from EXCEPT !.step = "queued", !.handle = Len(ledger) + 1, !.cursor = c, !.rounds = rounds],
             UNCHANGED <<native, channel, executed, heard>>
      PROVE  TurnsInv'
  <2>1. PICK c \in Cursors : loop' = [from EXCEPT !.step = "queued", !.handle = Len(ledger) + 1, !.cursor = c, !.rounds = rounds]
    BY <1>1
  <2>2. c = 0 \/ (channel.receipt < c /\ c <= channel.sent)
    BY <1>t DEF Cursors, TurnsTyped
  <2>3. c \in 0..MaxMessages
    BY <1>t DEF Cursors, TurnsTyped
  <2>4. loop' \in Loops /\ loop'.handle = Len(ledger) + 1 /\ loop'.cursor = c /\ loop'.todo = {} /\ loop'.step = "queued"
    <3>1. Len(ledger) + 1 \in Nat
      BY <1>t DEF TurnsTyped
    <3> QED BY <1>1, <2>1, <2>3, <3>1 DEF Loops
  <2> QED BY <1>t, <1>1, <2>2, <2>4, AdmittedRow, SMTT(30) DEF TurnsInv, TurnsTyped, CursorIsAhead, CallsInOrder, ConversationOnce
<1>2. CASE StartLoop
  <2>1. NoLoop \in Loops /\ NoLoop.todo = {}
    BY DEF NoLoop, Loops
  <2> QED BY <1>1, <1>2, <2>1 DEF StartLoop
<1>3. CASE NextRequest
  <2>1. loop \in Loops /\ loop.todo = {} /\ loop.rounds + 1 \in Nat
    BY <1>t, <1>3 DEF NextRequest, TurnsTyped, Loops
  <2>2. \E c \in Cursors : loop' = [loop EXCEPT !.step = "queued", !.handle = Len(ledger) + 1, !.cursor = c, !.rounds = loop.rounds + 1]
    BY <1>3 DEF NextRequest
  <2>3. Fits /\ Admitted /\ UNCHANGED <<native, channel, executed, heard>>
    BY <1>3 DEF NextRequest
  <2> QED BY <1>1, <2>1, <2>2, <2>3
<1>4. CASE AbortLoop
  BY <1>t, <1>u, <1>4 DEF AbortLoop, TurnsInv, TurnsTyped, CursorIsAhead, CallsInOrder, ConversationOnce, Loops
<1>5. CASE Attempt
  BY <1>t, <1>u, <1>5 DEF Attempt, TurnsInv, TurnsTyped, CursorIsAhead, CallsInOrder, ConversationOnce, Loops
<1>6. CASE SaveResult
  <2>1. loop.call \in CallIds /\ executed[loop.call] = 1
    BY <1>t, <1>6 DEF SaveResult, CallsInOrder
  <2>2. loop' \in Loops /\ loop'.handle = loop.handle /\ loop'.cursor = loop.cursor /\ loop'.todo = loop.todo /\ loop'.step = "answered"
    BY <1>t, <1>6 DEF SaveResult, TurnsTyped, Loops
  <2>3. /\ native' \in [pending: SUBSET CallIds, results: SUBSET CallIds, seen: SUBSET CallIds]
        /\ native'.seen = native.seen /\ native'.results = native.results \cup {loop.call}
    BY <1>t, <1>6, <2>1 DEF SaveResult, TurnsTyped
  <2> QED BY <1>t, <1>u, <1>6, <2>1, <2>2, <2>3 DEF SaveResult, TurnsInv, TurnsTyped, CursorIsAhead, CallsInOrder, ConversationOnce
<1>7. CASE SendToTask
  <2>1. /\ channel' \in [sent: 0..MaxMessages, receipt: 0..MaxMessages]
        /\ channel'.receipt = channel.receipt /\ channel'.sent = channel.sent + 1 /\ channel.sent \in Nat
    <3>1. channel \in [sent: 0..MaxMessages, receipt: 0..MaxMessages] /\ channel.sent + 1 \in 0..MaxMessages
      BY <1>t, <1>7 DEF SendToTask, TurnsTyped
    <3>2. channel' = [channel EXCEPT !.sent = channel.sent + 1]
      BY <1>7 DEF SendToTask
    <3> QED BY <3>1, <3>2
  <2> QED BY <1>t, <1>u, <1>7, <2>1, SMTT(30) DEF SendToTask, TurnsInv, TurnsTyped, CursorIsAhead, CallsInOrder, ConversationOnce, Loops
<1>8. CASE CrashTurns
  <2>1. /\ ledger' \in Seq(UsageRow) /\ Len(ledger') = Len(ledger) /\ DOMAIN ledger' = DOMAIN ledger
        /\ \A i \in 1..Len(ledger) : /\ ledger'[i].charge = ledger[i].charge
                                     /\ ledger'[i].state # "pending"
    <3>1. \A i \in 1..Len(ledger) : ledger[i] \in UsageRow
      BY <1>t DEF TurnsTyped
    <3>2. ledger' = [i \in 1..Len(ledger) |-> IF ledger[i].state = "pending" THEN [ledger[i] EXCEPT !.state = "interrupted"] ELSE ledger[i]]
      BY <1>t, <1>8 DEF CrashTurns, TurnsTyped
    <3>3. \A i \in 1..Len(ledger) : ledger'[i] \in UsageRow /\ ledger'[i].charge = ledger[i].charge /\ ledger'[i].state # "pending"
      BY <3>1, <3>2 DEF UsageRow
    <3> QED BY <1>t, <3>2, <3>3 DEF TurnsTyped
  <2>2. ChargesOf(ledger') = ChargesOf(ledger)
    BY <1>t, <2>1, ChargeStays DEF TurnsTyped
  <2>3. loop' = NoLoop /\ NoLoop \in Loops
    BY <1>8 DEF CrashTurns, NoLoop, Loops
  <2>4. /\ task' \in [status: {"idle", "running", "failed", "cancelled", "interrupted"}, used: Nat]
        /\ task'.used = task.used
    BY <1>t, <1>8 DEF CrashTurns, TurnsTyped
  <2> QED BY <1>t, <1>8, <2>1, <2>2, <2>3, <2>4
        DEF CrashTurns, NoLoop, TurnsInv, TurnsTyped, OpenIsReserved, CursorIsAhead, CallsInOrder, UsedIsRecorded, ConversationOnce
<1>9. ASSUME NEW usage \in RequestUsages \cup {NotMeasured}, Stop(usage) PROVE TurnsInv'
  <2>1. loop' = NoLoop /\ NoLoop \in Loops
    BY <1>9 DEF Stop, NoLoop, Loops
  <2>2. loop.handle \in 0..Len(ledger)
    BY <1>t DEF TurnsTyped, Loops
  <2>3. PICK status \in {"cancelled", "failed"} : SettleRequest(loop.handle, "failed", usage, status)
    BY <1>9 DEF Stop
  <2>4. /\ task' \in [status: {"idle", "running", "failed", "cancelled", "interrupted"}, used: Nat]
        /\ ledger' \in Seq(UsageRow) /\ OpenIsReserved' /\ UsedIsRecorded'
    BY <2>2, <2>3, SettledRow
  <2>5. UNCHANGED <<native, channel, executed, heard>> /\ Len(ledger') \in Nat
    BY <1>9, <2>4 DEF Stop
  <2>6. loop'.handle = 0 /\ loop'.step = "none" /\ loop'.cursor = 0 /\ loop'.todo = {}
    BY <2>1 DEF NoLoop
  <2>7. CursorIsAhead' /\ CallsInOrder' /\ ConversationOnce'
    BY <1>t, <2>5, <2>6 DEF TurnsInv, CursorIsAhead, CallsInOrder, ConversationOnce
  <2> QED BY <1>t, <2>1, <2>4, <2>5, <2>6, <2>7 DEF TurnsInv, TurnsTyped
<1>10. ASSUME NEW usage \in RequestUsages \cup {NotMeasured}, NEW calls \in SUBSET CallIds, Respond(calls, usage)
       PROVE  TurnsInv'
  <2>1. loop.handle \in 0..Len(ledger) /\ loop.cursor \in 0..MaxMessages
    BY <1>t DEF TurnsTyped, Loops
  <2>2. PICK status \in {"idle", "running"} : SettleRequest(loop.handle, "completed", usage, status)
    BY <1>10 DEF Respond
  <2>3. /\ task' \in [status: {"idle", "running", "failed", "cancelled", "interrupted"}, used: Nat]
        /\ ledger' \in Seq(UsageRow) /\ OpenIsReserved' /\ UsedIsRecorded'
    BY <2>1, <2>2, SettledRow
  <2>4. /\ native' \in [pending: SUBSET CallIds, results: SUBSET CallIds, seen: SUBSET CallIds]
        /\ native'.seen = native.seen \cup calls /\ native'.results = {}
    BY <1>t, <1>10 DEF Respond, TurnsTyped
  <2>5. /\ channel' \in [sent: 0..MaxMessages, receipt: 0..MaxMessages]
        /\ channel'.receipt = IF loop.cursor = 0 THEN channel.receipt ELSE loop.cursor
    BY <1>t, <1>10, <2>1 DEF Respond, Received, TurnsTyped
  <2>6. /\ loop' \in Loops /\ loop'.handle = 0 /\ loop'.cursor = 0 /\ loop'.step # "executed"
        /\ loop'.todo \subseteq calls
    <3>1. NoLoop \in Loops /\ NoLoop.handle = 0 /\ NoLoop.cursor = 0 /\ NoLoop.step # "executed" /\ NoLoop.todo = {}
      BY DEF NoLoop, Loops
    <3>2. CASE loop' = [loop EXCEPT !.step = "answered", !.handle = 0, !.cursor = 0, !.todo = calls]
      <4>1. loop \in Loops /\ calls \in SUBSET CallIds /\ 0 \in 0..MaxMessages
        BY <1>t DEF TurnsTyped
      <4>2. /\ loop' \in Loops
            /\ loop'.step = "answered" /\ loop'.handle = 0 /\ loop'.cursor = 0 /\ loop'.todo = calls
        BY <3>2, <4>1 DEF Loops
      <4> QED BY <4>2
    <3>3. CASE loop' = NoLoop
      BY <3>1, <3>3
    <3> QED BY <1>10, <3>2, <3>3 DEF Respond
  <2>7. \A c \in calls : executed[c] = 0
    BY <1>t, <1>10 DEF Respond, Fresh, CallsInOrder, TurnsTyped
  <2>8. CallsInOrder' /\ \A c \in CallIds : executed'[c] <= 1 /\ (c \in native'.results => executed'[c] = 1)
    BY <1>t, <1>10, <2>4, <2>6, <2>7 DEF Respond, CallsInOrder, ConversationOnce
  <2>9. heard' \in [1..MaxMessages -> Nat] /\ \A m \in DOMAIN heard' : heard'[m] = IF m <= channel'.receipt THEN 1 ELSE 0
    <3>1. heard' = [m \in 1..MaxMessages |-> IF m \in channel.receipt + 1 .. loop.cursor THEN heard[m] + 1 ELSE heard[m]]
      BY <1>t, <1>10 DEF Respond, TurnsTyped
    <3>2. \A m \in 1..MaxMessages : heard[m] = IF m <= channel.receipt THEN 1 ELSE 0
      BY <1>t DEF TurnsTyped, ConversationOnce
    <3>3. channel.receipt \in Nat /\ loop.cursor \in Nat
      BY <1>t, <2>1 DEF TurnsTyped
    <3> QED BY <1>t, <2>5, <3>1, <3>2, <3>3 DEF CursorIsAhead
  <2>10. UNCHANGED executed
    BY <1>10 DEF Respond
  <2>11. TurnsTyped'
    <3>1. Len(ledger') \in Nat /\ loop'.handle <= Len(ledger')
      BY <2>3, <2>6
    <3> QED BY <1>t, <2>3, <2>4, <2>5, <2>6, <2>9, <2>10, <3>1 DEF TurnsTyped
  <2>12. CursorIsAhead' /\ ConversationOnce'
    BY <2>6, <2>8, <2>9 DEF CursorIsAhead, ConversationOnce
  <2> QED BY <2>3, <2>8, <2>11, <2>12 DEF TurnsInv
<1>11. ASSUME NEW c \in CallIds, ExecuteCall(c) PROVE TurnsInv'
  <2>1. executed[c] = 0 /\ c \in native.seen
    BY <1>t, <1>11 DEF ExecuteCall, CallsInOrder
  <2>2. executed' \in [CallIds -> Nat] /\ \A d \in CallIds : executed'[d] = IF d = c THEN 1 ELSE executed[d]
    BY <1>t, <1>11, <2>1 DEF ExecuteCall, TurnsTyped
  <2>3. /\ loop' \in Loops /\ loop'.handle = loop.handle /\ loop'.cursor = loop.cursor
        /\ loop'.todo = loop.todo \ {c} /\ loop'.step = "executed" /\ loop'.call = c
    BY <1>t, <1>11 DEF ExecuteCall, TurnsTyped, Loops
  <2>4. UNCHANGED <<task, ledger, native, channel, heard>> /\ loop.todo \subseteq CallIds /\ Len(ledger) \in Nat
    BY <1>t, <1>11 DEF ExecuteCall, TurnsTyped, Loops
  <2>5. TurnsTyped' /\ CursorIsAhead'
    BY <1>t, <2>2, <2>3, <2>4 DEF TurnsTyped, CursorIsAhead
  <2>6. CallsInOrder' /\ ConversationOnce'
    BY <1>t, <2>1, <2>2, <2>3, <2>4 DEF CallsInOrder, ConversationOnce
  <2> QED BY <1>u, <2>4, <2>5, <2>6 DEF TurnsInv
<1>12. CASE UNCHANGED atVars
  BY <1>t, <1>u, <1>12 DEF atVars, TurnsInv, TurnsTyped, CursorIsAhead, CallsInOrder, ConversationOnce
<1> QED BY <1>2, <1>3, <1>4, <1>5, <1>6, <1>7, <1>8, <1>9, <1>10, <1>11, <1>12 DEF TurnsNext

\* TurnsInv holds in every reachable state.
LEMMA TurnsInvariant == TurnsSpec => []TurnsInv
BY TurnsStart, TurnsStep, PTL DEF TurnsSpec

\* The task, its ledger, its conversation and its loop hold what they are declared
\* to, after any turns, retries, cancellations and crashes.
THEOREM TurnsTypeCorrect == TurnsSpec => []TurnsTypeOK
<1>1. TurnsInv => TurnsTypeOK
  <2>1. \A rows \in Seq(UsageRow) : DOMAIN rows = 1..Len(rows) /\ \A i \in DOMAIN rows : rows[i] \in UsageRow
    OBVIOUS
  <2> QED BY <2>1 DEF TurnsInv, TurnsTyped, TurnsTypeOK, UsageRow, Loops
<1> QED BY <1>1, TurnsInvariant, PTL

\* What a task has used is the sum of its usage ledger, after any requests, however
\* each of them ended (repository.ts: attemptUsage, settleUsage).
THEOREM EveryRequestIsRecorded == TurnsSpec => []UsedIsRecorded
<1>1. TurnsInv => UsedIsRecorded
  BY DEF TurnsInv
<1> QED BY <1>1, TurnsInvariant, PTL

\* No call is executed twice and every channel message is heard exactly once, in
\* any conversation with any turns, retries and restarts.
THEOREM ConversationsHappenOnce == TurnsSpec => []ConversationOnce
<1>1. TurnsInv => ConversationOnce
  BY DEF TurnsInv
<1> QED BY <1>1, TurnsInvariant, PTL

----
(***************************************************************************)
(* Provider streams: tool calls come out of completed answers only.        *)
(***************************************************************************)

\* The specification of the streams: the server may send, stop or be cut off at any time.
StreamsSpec == StreamsInit /\ [][StreamsNext]_psVars

\* The types of what is known of a call and of the reader.
CallStates == {"none", "opened", "head", "whole", "garbled", "text"}
ParseRows == [calls: [Indexes -> CallStates], stopped: SUBSET Indexes,
              text: BOOLEAN, ended: BOOLEAN, reason: {"none", "text", "calls"}, broken: BOOLEAN]
StreamsTyped ==
  /\ protocol \in Protocols /\ wire \in Seq(Frames) /\ Len(wire) <= MaxFrames /\ parse \in ParseRows
  /\ answer \in [state: {"open", "failed", "done"}, calls: SUBSET Indexes]

\* The protocol's own last frame: the reader has seen it exactly when it is on the
\* wire, and nothing that says more follows it.
Terminal == {"completed", "DONE", "message_stop"}
EndAgrees ==
  /\ parse.ended <=> Sent(Terminal) # {}
  /\ \A n \in Sent(Terminal) : \A m \in 1..Len(wire) : m > n => wire[m].type = "ping"

\* A failure was thrown at, or marked the answer.
FailuresAgree ==
  /\ Sent({"failed", "refusal", "error"}) = {}
  /\ Sent({"length", "max_tokens"}) # {} => parse.broken

\* What is known of a call is what its pieces were.
PiecesAgree ==
  /\ protocol = "responses" => Sent({"part", "delta"}) = {}
  /\ \A i \in Indexes :
       /\ parse.calls[i] \in {"none", "opened"} => PiecesOf(i) = {}
       /\ parse.calls[i] = "head" => \E h \in PiecesOf(i) : PiecesOf(i) = {h} /\ wire[h].piece = "head"
       /\ parse.calls[i] = "whole" /\ PiecesOf(i) # {} =>
            \E h \in PiecesOf(i), t \in PiecesOf(i) :
              h < t /\ PiecesOf(i) = {h, t} /\ wire[h].piece = "head" /\ wire[t].piece = "tail"

\* Chat completions: one terminal reason, after every part, that says whether there were parts.
ChatAgrees ==
  /\ parse.reason # "none" <=> Sent({"stop", "tool_calls"}) # {}
  /\ parse.reason = "calls" <=> Sent({"tool_calls"}) # {}
  /\ \A n \in Sent({"stop", "tool_calls"}) : \A m \in Sent({"part", "text", "stop", "tool_calls"}) : m <= n
  /\ \A i \in Indexes : parse.calls[i] \notin {"opened", "text"}
  /\ \A i \in Indexes : parse.calls[i] # "none" <=> \E n \in Sent({"part"}) : wire[n].index = i
  /\ \A n \in Sent({"part"}) : wire[n].index \in Indexes

\* Anthropic: a block that stopped was started before.
AnthropicAgrees ==
  /\ \A i \in parse.stopped : parse.calls[i] # "none"
  /\ \A n \in Sent({"start"}) :
    /\ wire[n].index \in Indexes /\ parse.calls[wire[n].index] # "none"
    /\ wire[n].index \in parse.stopped => \E m \in Sent({"stop"}) : m > n /\ wire[m].index = wire[n].index

\* Responses: a streamed item is among the calls.
ResponsesAgree ==
  /\ \A i \in Indexes : parse.calls[i] \in {"none", "whole"}
  /\ \A n \in Sent({"item"}) : wire[n].index \in Indexes /\ parse.calls[wire[n].index] = "whole"

\* What the reader has collected is what is on the wire.
Agrees ==
  /\ EndAgrees /\ FailuresAgree /\ PiecesAgree
  /\ protocol = "chat" => ChatAgrees
  /\ protocol = "anthropic" => AnthropicAgrees
  /\ protocol = "responses" => ResponsesAgree

\* The inductive invariant of a stream.
StreamsInv ==
  /\ StreamsTyped /\ Agrees
  /\ answer.state = "done" => FinishedWell /\ answer.calls = Collected(Whole)

\* A stream that opens, or that failed, has collected nothing.
LEMMA NothingSent ==
  ASSUME protocol \in Protocols, wire = << >>, parse = Unread, answer \in {Open, Failed}
  PROVE  StreamsInv
<1>1. \A types : Sent(types) = {}
  BY DEF Sent
<1>2. parse \in ParseRows /\ ~parse.ended /\ parse.reason = "none" /\ parse.stopped = {} /\ \A i \in Indexes : parse.calls[i] = "none"
  BY DEF Unread, ParseRows, CallStates
<1>3. answer \in [state: {"open", "failed", "done"}, calls: SUBSET Indexes] /\ answer.state # "done"
  BY DEF Open, Failed
<1>4. wire \in Seq(Frames) /\ Len(wire) = 0
  OBVIOUS
<1>5. StreamsTyped
  BY <1>2, <1>3, <1>4, StreamsAssumption DEF StreamsTyped
<1>6. Agrees
  BY <1>1, <1>2 DEF Agrees, EndAgrees, FailuresAgree, PiecesAgree, PiecesOf, ChatAgrees, AnthropicAgrees, ResponsesAgree
<1> QED BY <1>3, <1>5, <1>6 DEF StreamsInv

\* The same, of the state after a step.
LEMMA NothingSentThen ==
  ASSUME (protocol \in Protocols)', (wire = << >>)', (parse = Unread)', (answer \in {Open, Failed})'
  PROVE  StreamsInv'
BY NothingSent, PTL

\* What one more frame adds.
LEMMA OneMore ==
  ASSUME StreamsTyped, NEW f \in Frames, wire' = Append(wire, f), protocol' = protocol
  PROVE  /\ Len(wire) \in Nat /\ Len(wire') = Len(wire) + 1 /\ wire' \in Seq(Frames)'
         /\ \A n \in 1..Len(wire') : wire'[n] = IF n = Len(wire) + 1 THEN f ELSE wire[n]
         /\ \A types : Sent(types) \subseteq 1..Len(wire)
         /\ \A types : Sent(types)' = Sent(types) \cup (IF f.type \in types THEN {Len(wire) + 1} ELSE {})
         /\ \A n \in 1..Len(wire) : wire'[n] = wire[n]
         /\ wire'[Len(wire) + 1] = f
<1>1. wire \in Seq(Frames) /\ Len(wire) \in Nat /\ DOMAIN wire = 1..Len(wire)
  BY DEF StreamsTyped
<1>2. Frames' = Frames
  BY DEF Frames
<1>3. /\ Len(wire') = Len(wire) + 1 /\ wire' \in Seq(Frames) /\ DOMAIN wire' = 1..(Len(wire) + 1)
      /\ \A n \in 1..Len(wire') : wire'[n] = IF n = Len(wire) + 1 THEN f ELSE wire[n]
  BY <1>1
<1>4. \A types : Sent(types) \subseteq 1..Len(wire)
  BY <1>1 DEF Sent
<1>5. ASSUME NEW types PROVE {n \in DOMAIN wire' : wire'[n].type \in types}
                            = Sent(types) \cup (IF f.type \in types THEN {Len(wire) + 1} ELSE {})
  BY <1>1, <1>3 DEF Sent
<1>6. \A n \in 1..Len(wire) : wire'[n] = wire[n]
  BY <1>1, <1>3
<1>7. wire'[Len(wire) + 1] = f
  BY <1>1, <1>3
<1> QED BY <1>1, <1>2, <1>3, <1>4, <1>5, <1>6, <1>7 DEF Sent

\* The frames of each protocol.
LEMMA FramesAre ==
  ASSUME NEW f \in Frames, protocol \in Protocols
  PROVE  /\ protocol = "responses" =>
              /\ f.type \in {"text", "failed", "refusal", "item", "completed"}
              /\ f.type = "item" => f.index \in Indexes
              /\ f.type = "completed" /\ "output" \in DOMAIN f => f.output \in SUBSET Indexes
         /\ protocol = "chat" =>
              /\ f.type \in {"text", "stop", "tool_calls", "length", "usage", "error", "DONE", "part"}
              /\ f.type = "part" => f.index \in Indexes /\ f.piece \in Pieces
         /\ protocol = "anthropic" =>
              /\ f.type \in {"end_turn", "tool_use", "max_tokens", "ping", "error", "message_stop", "start", "delta", "stop"}
              /\ f.type = "delta" => f.index \in Indexes /\ f.piece \in Pieces
              /\ f.type \in {"start", "stop"} => f.index \in Indexes
              /\ f.type = "start" => f.piece \in {"tool", "text"}
<1>1. CASE protocol = "responses"
  BY <1>1 DEF Frames
<1>2. CASE protocol = "chat"
  BY <1>2 DEF Frames
<1>3. CASE protocol = "anthropic"
  BY <1>3 DEF Frames
<1> QED BY <1>1, <1>2, <1>3, StreamsAssumption

\* What one more frame adds to the pieces of a call.
LEMMA OnePiece ==
  ASSUME StreamsTyped, NEW f \in Frames, wire' = Append(wire, f), protocol' = protocol, NEW i
  PROVE  /\ PiecesOf(i) \subseteq 1..Len(wire)
         /\ PiecesOf(i)' = PiecesOf(i) \cup (IF f.type \in {"part", "delta"} /\ f.index = i THEN {Len(wire) + 1} ELSE {})
<1>1. PiecesOf(i) = {n \in Sent({"part", "delta"}) : wire[n].index = i}
  BY DEF PiecesOf
<1>2. PiecesOf(i)' = {n \in Sent({"part", "delta"})' : wire'[n].index = i}
  BY DEF PiecesOf
<1> QED BY <1>1, <1>2, OneMore

\* A frame that is no piece leaves what is known of the pieces, whatever it opens.
LEMMA PiecesQuiet ==
  ASSUME StreamsTyped, PiecesAgree, NEW f \in Frames, wire' = Append(wire, f), protocol' = protocol,
         f.type \notin {"part", "delta"},
         \A i \in Indexes : \/ protocol = "responses" /\ parse'.calls[i] \in {"none", "whole"}
                            \/ parse'.calls[i] = parse.calls[i]
                            \/ parse.calls[i] = "none" /\ parse'.calls[i] \in {"opened", "text"}
  PROVE  PiecesAgree'
<1>0. \A types : Sent(types)' = Sent(types) \cup (IF f.type \in types THEN {Len(wire) + 1} ELSE {})
  BY OneMore
<1>1. Sent({"part", "delta"})' = Sent({"part", "delta"})
  BY <1>0
<1>2. \A i : PiecesOf(i)' = PiecesOf(i)
  <2>1. \A i : PiecesOf(i)' = PiecesOf(i) \cup (IF f.type \in {"part", "delta"} /\ f.index = i THEN {Len(wire) + 1} ELSE {})
    BY OnePiece
  <2> QED BY <2>1
<1>3. \A i, n : n \in PiecesOf(i) => wire'[n] = wire[n]
  BY OnePiece, OneMore
<1>4. protocol = "responses" => \A i : PiecesOf(i)' = {}
  <2>1. ASSUME protocol = "responses", NEW i PROVE PiecesOf(i) = {}
    <3>1. Sent({"part", "delta"}) = {}
      BY <2>1 DEF PiecesAgree
    <3> QED BY <3>1 DEF PiecesOf
  <2> QED BY <1>2, <2>1
<1>5. protocol' = "responses" => Sent({"part", "delta"})' = {}
  BY <1>1 DEF PiecesAgree
<1>6. ASSUME NEW i \in Indexes
      PROVE  /\ parse'.calls[i] \in {"none", "opened"} => PiecesOf(i)' = {}
             /\ parse'.calls[i] = "head" => \E h \in PiecesOf(i)' : PiecesOf(i)' = {h} /\ wire'[h].piece = "head"
             /\ parse'.calls[i] = "whole" /\ PiecesOf(i)' # {} =>
                  \E h \in PiecesOf(i)', t \in PiecesOf(i)' :
                    h < t /\ PiecesOf(i)' = {h, t} /\ wire'[h].piece = "head" /\ wire'[t].piece = "tail"
  <2>1. CASE protocol = "responses" /\ parse'.calls[i] \in {"none", "whole"}
    BY <2>1, <1>4
  <2>2. CASE parse'.calls[i] = parse.calls[i]
    <3>1. PiecesOf(i)' = PiecesOf(i) /\ \A n \in PiecesOf(i) : wire'[n] = wire[n]
      BY <1>2, <1>3
    <3>4. parse'.calls[i] = "head" => \E h \in PiecesOf(i)' : PiecesOf(i)' = {h} /\ wire'[h].piece = "head"
      BY <2>2, <3>1 DEF PiecesAgree
    <3>5. parse'.calls[i] = "whole" /\ PiecesOf(i)' # {} =>
            \E h \in PiecesOf(i)', t \in PiecesOf(i)' :
              h < t /\ PiecesOf(i)' = {h, t} /\ wire'[h].piece = "head" /\ wire'[t].piece = "tail"
      <4>1. CASE parse.calls[i] = "whole" /\ PiecesOf(i) # {}
        <5>1. PICK h \in PiecesOf(i), t \in PiecesOf(i) :
                h < t /\ PiecesOf(i) = {h, t} /\ wire[h].piece = "head" /\ wire[t].piece = "tail"
          BY <4>1 DEF PiecesAgree
        <5> QED BY <3>1, <5>1, ZenonT(40)
      <4> QED BY <2>2, <3>1, <4>1
    <3> QED BY <2>2, <3>1, <3>4, <3>5 DEF PiecesAgree
  <2>3. CASE parse.calls[i] = "none" /\ parse'.calls[i] \in {"opened", "text"}
    BY <2>3, <1>2 DEF PiecesAgree
  <2> QED BY <2>1, <2>2, <2>3
<1> QED BY <1>5, <1>6 DEF PiecesAgree

\* A piece that is joined to what was there.
LEMMA PiecesJoined ==
  ASSUME StreamsTyped, PiecesAgree, NEW f \in Frames, wire' = Append(wire, f), protocol' = protocol,
         f.type \in {"part", "delta"}, f.piece \in Pieces, protocol # "responses",
         \A i \in Indexes : parse'.calls[i] = IF i = f.index THEN Joined(parse.calls[i], f.piece) ELSE parse.calls[i]
  PROVE  PiecesAgree'
<1> DEFINE last == Len(wire) + 1
<1>0. \A i : PiecesOf(i)' = PiecesOf(i) \cup (IF f.type \in {"part", "delta"} /\ f.index = i THEN {Len(wire) + 1} ELSE {})
  BY OnePiece
<1>1. \A i, n : n \in PiecesOf(i) => wire'[n] = wire[n] /\ n < last
  BY OnePiece, OneMore
<1>2. wire'[last] = f
  BY OneMore
<1>3. ASSUME NEW i \in Indexes
      PROVE  /\ parse'.calls[i] \in {"none", "opened"} => PiecesOf(i)' = {}
             /\ parse'.calls[i] = "head" => \E h \in PiecesOf(i)' : PiecesOf(i)' = {h} /\ wire'[h].piece = "head"
             /\ parse'.calls[i] = "whole" /\ PiecesOf(i)' # {} =>
                  \E h \in PiecesOf(i)', t \in PiecesOf(i)' :
                    h < t /\ PiecesOf(i)' = {h, t} /\ wire'[h].piece = "head" /\ wire'[t].piece = "tail"
  <2>1. CASE i # f.index
    <3>1. PiecesOf(i)' = PiecesOf(i) /\ \A n \in PiecesOf(i) : wire'[n] = wire[n]
      BY <2>1, <1>0, <1>1
    <3>2. parse'.calls[i] = parse.calls[i]
      BY <2>1
    <3>4. parse'.calls[i] = "head" => \E h \in PiecesOf(i)' : PiecesOf(i)' = {h} /\ wire'[h].piece = "head"
      BY <3>2, <3>1, ZenonT(40) DEF PiecesAgree
    <3>5. parse'.calls[i] = "whole" /\ PiecesOf(i)' # {} =>
            \E h \in PiecesOf(i)', t \in PiecesOf(i)' :
              h < t /\ PiecesOf(i)' = {h, t} /\ wire'[h].piece = "head" /\ wire'[t].piece = "tail"
      <4>1. CASE parse.calls[i] = "whole" /\ PiecesOf(i) # {}
        <5>1. PICK h \in PiecesOf(i), t \in PiecesOf(i) :
                h < t /\ PiecesOf(i) = {h, t} /\ wire[h].piece = "head" /\ wire[t].piece = "tail"
          BY <4>1 DEF PiecesAgree
        <5> QED BY <3>1, <5>1, ZenonT(40)
      <4> QED BY <3>2, <3>1, <4>1
    <3> QED BY <3>2, <3>1, <3>4, <3>5 DEF PiecesAgree
  <2>2. CASE i = f.index
    <3>1. PiecesOf(i)' = PiecesOf(i) \cup {last}
      BY <2>2, <1>0
    <3>2. parse'.calls[i] = Joined(parse.calls[i], f.piece)
      BY <2>2
    <3>3. CASE parse.calls[i] \in {"none", "opened"} /\ f.piece = "head"
      <4>1. parse'.calls[i] = "head" /\ PiecesOf(i)' = {last}
        BY <3>1, <3>2, <3>3 DEF Joined, PiecesAgree
      <4> QED BY <4>1, <1>2, <3>3
    <3>4. CASE parse.calls[i] = "head" /\ f.piece = "tail"
      <4>1. parse'.calls[i] = "whole"
        BY <3>2, <3>4 DEF Joined
      <4>2. PICK h \in PiecesOf(i) : PiecesOf(i) = {h} /\ wire[h].piece = "head"
        BY <3>4 DEF PiecesAgree
      <4>3. PiecesOf(i)' = {h, last} /\ h < last /\ wire'[h].piece = "head" /\ wire'[last].piece = "tail"
        BY <4>2, <3>1, <1>1, <1>2, <3>4
      <4> QED BY <4>1, <4>3
    <3>5. CASE /\ ~(parse.calls[i] \in {"none", "opened"} /\ f.piece = "head")
               /\ ~(parse.calls[i] = "head" /\ f.piece = "tail")
      <4>1. parse'.calls[i] \in {"text", "garbled"}
        BY <3>2, <3>5 DEF Joined
      <4> QED BY <4>1
    <3> QED BY <3>3, <3>4, <3>5
  <2> QED BY <2>1, <2>2
<1> QED BY <1>3 DEF PiecesAgree

\* What a frame that changes one call makes of the reader.
LEMMA OneCall ==
  ASSUME parse \in ParseRows, NEW i, NEW s \in CallStates, i \in Indexes, parse' = [parse EXCEPT !.calls[i] = s]
  PROVE  /\ parse' \in ParseRows /\ \A j \in Indexes : parse'.calls[j] = IF j = i THEN s ELSE parse.calls[j]
         /\ parse'.ended = parse.ended /\ parse'.reason = parse.reason /\ parse'.broken = parse.broken
         /\ parse'.stopped = parse.stopped /\ parse'.text = parse.text
BY DEF ParseRows

\* A piece that is joined leaves something of the call behind.
LEMMA JoinedType == ASSUME NEW s \in CallStates, NEW piece PROVE Joined(s, piece) \in CallStates \ {"none", "opened"}
BY DEF Joined, CallStates

\* Chat completions.
LEMMA ChatKeeps ==
  ASSUME StreamsTyped, Agrees, protocol = "chat", NEW f \in Frames, wire' = Append(wire, f), protocol' = protocol,
         parse' \in Chat(f)
  PROVE  parse' \in ParseRows /\ Agrees'
<1> DEFINE last == Len(wire) + 1
<1>a. EndAgrees /\ FailuresAgree /\ PiecesAgree /\ ChatAgrees /\ parse \in ParseRows
  BY DEF Agrees, StreamsTyped
<1>f. /\ f.type \in {"text", "stop", "tool_calls", "length", "usage", "DONE", "part"}
      /\ f.type = "part" => f.index \in Indexes /\ f.piece \in Pieces
      /\ ~parse.ended /\ Sent(Terminal) = {}
      /\ f.type \notin {"DONE", "usage"} => parse.reason = "none"
  <2>1. /\ f.type \in {"text", "stop", "tool_calls", "length", "usage", "error", "DONE", "part"}
        /\ f.type = "part" => f.index \in Indexes /\ f.piece \in Pieces
    BY FramesAre DEF StreamsTyped
  <2>2. ~parse.ended /\ f.type # "error"
    <3>1. parse.ended \/ f.type = "error" => Chat(f) = {}
      BY DEF Chat
    <3> QED BY <3>1
  <2>3. f.type \notin {"DONE", "usage"} => parse.reason = "none"
    <3>1. f.type \notin {"DONE", "usage"} /\ parse.reason # "none" => Chat(f) = {}
      BY <2>1, <2>2 DEF Chat
    <3> QED BY <3>1
  <2> QED BY <1>a, <2>1, <2>2, <2>3 DEF EndAgrees
<1>w. /\ Len(wire) \in Nat /\ Len(wire') = last
      /\ \A types : Sent(types) \subseteq 1..Len(wire)
      /\ \A types : Sent(types)' = Sent(types) \cup (IF f.type \in types THEN {last} ELSE {})
      /\ \A n \in 1..Len(wire) : wire'[n] = wire[n]
      /\ wire'[last] = f
  BY OneMore
<1>p. /\ f.type = "part" => parse' = [parse EXCEPT !.calls[f.index] = Joined(@, f.piece)]
      /\ f.type = "text" => parse' = [parse EXCEPT !.text = TRUE]
      /\ f.type = "stop" => parse' = [parse EXCEPT !.reason = "text"]
      /\ f.type = "tool_calls" => parse' = [parse EXCEPT !.reason = "calls"]
      /\ f.type = "length" => parse' = [parse EXCEPT !.broken = TRUE]
      /\ f.type = "usage" => parse' = parse
      /\ f.type = "DONE" => parse' = [parse EXCEPT !.ended = TRUE]
  BY <1>f DEF Chat
<1>1. CASE f.type = "part"
  <2>1. parse.calls[f.index] \in CallStates
    BY <1>1, <1>a, <1>f DEF ParseRows
  <2>2. /\ parse' \in ParseRows
        /\ \A j \in Indexes : parse'.calls[j] = IF j = f.index THEN Joined(parse.calls[j], f.piece) ELSE parse.calls[j]
        /\ parse'.ended = parse.ended /\ parse'.reason = parse.reason /\ parse'.broken = parse.broken
    BY <1>1, <1>a, <1>f, <1>p, <2>1, JoinedType, OneCall
  <2>3. PiecesAgree'
    BY <1>1, <1>a, <1>f, <2>2, PiecesJoined
  <2>4. EndAgrees' /\ FailuresAgree'
    BY <1>1, <1>a, <1>f, <1>w, <2>2 DEF EndAgrees, FailuresAgree, Terminal
  <2>5. Joined(parse.calls[f.index], f.piece) \notin {"none", "opened", "text"}
    BY <1>1, <1>a, <1>f, <2>1 DEF ChatAgrees, Joined, CallStates
  <2>6. ChatAgrees'
    <3>1. \A types : f.type \notin types => Sent(types)' = Sent(types)
      BY <1>w
    <3>2. Sent({"stop", "tool_calls"})' = {} /\ Sent({"tool_calls"})' = {} /\ Sent({"part"})' = Sent({"part"}) \cup {last}
      BY <1>1, <1>a, <1>f, <1>w, <3>1 DEF ChatAgrees
    <3>3. \A i \in Indexes : parse'.calls[i] \notin {"opened", "text"}
      BY <1>a, <2>2, <2>5 DEF ChatAgrees
    <3>4. \A i \in Indexes : parse'.calls[i] # "none" <=> \E n \in Sent({"part"})' : wire'[n].index = i
      BY <1>a, <1>w, <2>2, <2>5, <3>2 DEF ChatAgrees
    <3>5. \A n \in Sent({"part"})' : wire'[n].index \in Indexes
      BY <1>1, <1>a, <1>f, <1>w, <3>2 DEF ChatAgrees
    <3> QED BY <1>1, <1>f, <2>2, <3>2, <3>3, <3>4, <3>5 DEF ChatAgrees
  <2> QED BY <2>2, <2>3, <2>4, <2>6 DEF Agrees
<1>2. CASE f.type # "part"
  <2>1. parse' \in ParseRows /\ parse'.calls = parse.calls /\ (f.type # "DONE" => parse'.ended = parse.ended)
    BY <1>2, <1>a, <1>f, <1>p DEF ParseRows
  <2>2. PiecesAgree'
    BY <1>2, <1>a, <1>f, <2>1, PiecesQuiet
  <2>3. EndAgrees'
    <3>1. parse'.ended <=> f.type = "DONE"
      BY <1>a, <1>f, <1>p, <2>1 DEF ParseRows
    <3>2. Sent(Terminal)' = IF f.type = "DONE" THEN {last} ELSE {}
      BY <1>f, <1>w DEF Terminal
    <3> QED BY <1>w, <3>1, <3>2 DEF EndAgrees
  <2>4. FailuresAgree'
    <3>1. Sent({"failed", "refusal", "error"})' = {}
      BY <1>a, <1>f, <1>w DEF FailuresAgree
    <3>2. f.type = "length" => parse'.broken
      BY <1>a, <1>p DEF ParseRows
    <3>3. parse.broken => parse'.broken
      BY <1>a, <1>2, <1>f, <1>p DEF ParseRows
    <3>4. Sent({"length", "max_tokens"})' # {} => Sent({"length", "max_tokens"}) # {} \/ f.type = "length"
      BY <1>f, <1>w
    <3> QED BY <1>a, <3>1, <3>2, <3>3, <3>4 DEF FailuresAgree
  <2>5. ChatAgrees'
    <3>1. Sent({"part"})' = Sent({"part"})
      BY <1>2, <1>w
    <3>2. /\ f.type = "stop" => parse'.reason = "text"
          /\ f.type = "tool_calls" => parse'.reason = "calls"
          /\ f.type \notin {"stop", "tool_calls"} => parse'.reason = parse.reason
      BY <1>2, <1>a, <1>f, <1>p DEF ParseRows
    <3>3. \A types : f.type \notin types => Sent(types)' = Sent(types)
      BY <1>w
    <3>4. parse'.reason # "none" <=> Sent({"stop", "tool_calls"})' # {}
      BY <1>a, <1>f, <1>w, <3>2 DEF ChatAgrees
    <3>5. parse'.reason = "calls" <=> Sent({"tool_calls"})' # {}
      BY <1>a, <1>f, <1>w, <3>2 DEF ChatAgrees
    <3>6. \A n \in Sent({"stop", "tool_calls"})' : \A m \in Sent({"part", "text", "stop", "tool_calls"})' : m <= n
      <4>1. CASE f.type \in {"DONE", "usage"}
        BY <1>a, <3>3, <4>1 DEF ChatAgrees
      <4>2. CASE f.type \notin {"DONE", "usage"}
        <5>1. Sent({"stop", "tool_calls"}) = {}
          BY <1>a, <1>f, <4>2 DEF ChatAgrees
        <5>2. \A n \in Sent({"stop", "tool_calls"})' : n = last
          BY <1>w, <5>1
        <5>3. \A m \in Sent({"part", "text", "stop", "tool_calls"})' : m <= last
          BY <1>w
        <5> QED BY <5>2, <5>3
      <4> QED BY <4>1, <4>2
    <3>7. \A n \in Sent({"part"}) : wire'[n] = wire[n]
      BY <1>w
    <3>8. \A i \in Indexes : parse'.calls[i] = parse.calls[i]
      BY <2>1
    <3>9. \A i \in Indexes : parse'.calls[i] # "none" <=> \E n \in Sent({"part"})' : wire'[n].index = i
      <4>1. \A i \in Indexes : parse.calls[i] # "none" <=> \E n \in Sent({"part"}) : wire[n].index = i
        BY <1>a DEF ChatAgrees
      <4>2. \A i : (\E n \in Sent({"part"})' : wire'[n].index = i) <=> (\E n \in Sent({"part"}) : wire[n].index = i)
        BY <3>1, <3>7
      <4> QED BY <3>8, <4>1, <4>2
    <3>10. \A n \in Sent({"part"})' : wire'[n].index \in Indexes
      BY <1>a, <3>1, <3>7 DEF ChatAgrees
    <3>11. \A i \in Indexes : parse'.calls[i] \notin {"opened", "text"}
      BY <1>a, <3>8 DEF ChatAgrees
    <3> QED BY <3>4, <3>5, <3>6, <3>9, <3>10, <3>11 DEF ChatAgrees
  <2> QED BY <2>1, <2>2, <2>3, <2>4, <2>5 DEF Agrees
<1> QED BY <1>1, <1>2

\* Anthropic messages.
LEMMA AnthropicKeeps ==
  ASSUME StreamsTyped, Agrees, protocol = "anthropic", NEW f \in Frames, wire' = Append(wire, f), protocol' = protocol,
         parse' \in Anthropic(f)
  PROVE  parse' \in ParseRows /\ Agrees'
<1> DEFINE last == Len(wire) + 1
<1>a. EndAgrees /\ FailuresAgree /\ PiecesAgree /\ AnthropicAgrees /\ parse \in ParseRows
  BY DEF Agrees, StreamsTyped
<1>f. /\ f.type \in {"end_turn", "tool_use", "max_tokens", "ping", "message_stop", "start", "delta", "stop"}
      /\ f.type = "delta" => f.index \in Indexes /\ f.piece \in Pieces
      /\ f.type \in {"start", "stop"} => f.index \in Indexes
      /\ f.type # "ping" => ~parse.ended /\ Sent(Terminal) = {}
  <2>1. /\ f.type \in {"end_turn", "tool_use", "max_tokens", "ping", "error", "message_stop", "start", "delta", "stop"}
        /\ f.type = "delta" => f.index \in Indexes /\ f.piece \in Pieces
        /\ f.type \in {"start", "stop"} => f.index \in Indexes
    BY FramesAre DEF StreamsTyped
  <2>2. (f.type # "ping" => ~parse.ended) /\ f.type # "error"
    <3>1. f.type = "error" \/ (parse.ended /\ f.type # "ping") => Anthropic(f) = {}
      BY DEF Anthropic
    <3> QED BY <3>1
  <2> QED BY <1>a, <2>1, <2>2 DEF EndAgrees
<1>w. /\ Len(wire) \in Nat /\ Len(wire') = last
      /\ \A types : Sent(types) \subseteq 1..Len(wire)
      /\ \A types : Sent(types)' = Sent(types) \cup (IF f.type \in types THEN {last} ELSE {})
      /\ \A n \in 1..Len(wire) : wire'[n] = wire[n]
      /\ wire'[last] = f
  BY OneMore
<1>p. /\ f.type = "start" => /\ parse.calls[f.index] = "none"
                             /\ parse' = [parse EXCEPT !.calls[f.index] = IF f.piece = "tool" THEN "opened" ELSE "text"]
      /\ f.type = "delta" => parse.calls[f.index] # "none" /\ parse' = [parse EXCEPT !.calls[f.index] = Joined(@, f.piece)]
      /\ f.type = "stop" => parse.calls[f.index] # "none" /\ parse' = [parse EXCEPT !.stopped = @ \cup {f.index}]
      /\ f.type = "end_turn" => parse' = [parse EXCEPT !.reason = "text"]
      /\ f.type = "tool_use" => parse' = [parse EXCEPT !.reason = "calls"]
      /\ f.type = "max_tokens" => parse' = [parse EXCEPT !.broken = TRUE]
      /\ f.type = "ping" => parse' = parse
      /\ f.type = "message_stop" => parse' = [parse EXCEPT !.ended = TRUE]
  BY <1>f DEF Anthropic
<1>n. \A n \in Sent({"start"}) : wire'[n] = wire[n]
  BY <1>w
<1>s. \A n \in Sent({"stop"}) : wire'[n] = wire[n] /\ n \in Sent({"stop"})'
  BY <1>w
<1>1. CASE f.type \in {"start", "delta"}
  <2>0. parse.calls[f.index] \in CallStates /\ f.index \in Indexes
    BY <1>1, <1>a, <1>f DEF ParseRows
  <2> DEFINE s == IF f.type = "delta" THEN Joined(parse.calls[f.index], f.piece)
                  ELSE IF f.piece = "tool" THEN "opened" ELSE "text"
  <2>1. s \in CallStates /\ s # "none" /\ (f.type = "start" => s \in {"opened", "text"})
    BY <2>0, <1>1, JoinedType DEF CallStates
  <2>2. parse' = [parse EXCEPT !.calls[f.index] = s]
    BY <1>1, <1>p
  <2>3. /\ parse' \in ParseRows
        /\ \A j \in Indexes : parse'.calls[j] = IF j = f.index THEN s ELSE parse.calls[j]
        /\ parse'.ended = parse.ended /\ parse'.broken = parse.broken /\ parse'.stopped = parse.stopped
    <3> HIDE DEF s
    <3> QED BY <1>a, <2>0, <2>1, <2>2, OneCall
  <2>4. PiecesAgree'
    <3>1. CASE f.type = "start"
      <4>1. \A i \in Indexes : parse'.calls[i] = parse.calls[i]
                               \/ (parse.calls[i] = "none" /\ parse'.calls[i] \in {"opened", "text"})
        BY <3>1, <1>p, <2>1, <2>3
      <4> QED BY <1>a, <3>1, <4>1, PiecesQuiet
    <3>2. CASE f.type = "delta"
      <4>1. \A i \in Indexes : parse'.calls[i] = IF i = f.index THEN Joined(parse.calls[i], f.piece) ELSE parse.calls[i]
        BY <3>2, <2>3
      <4> QED BY <1>a, <1>f, <3>2, <4>1, PiecesJoined
    <3> QED BY <1>1, <3>1, <3>2
  <2> HIDE DEF s
  <2>5. EndAgrees' /\ FailuresAgree'
    BY <1>1, <1>a, <1>f, <1>w, <2>3 DEF EndAgrees, FailuresAgree, Terminal
  <2>6. AnthropicAgrees'
    <3>1. ASSUME NEW n \in Sent({"start"})'
          PROVE  /\ wire'[n].index \in Indexes /\ parse'.calls[wire'[n].index] # "none"
                 /\ wire'[n].index \in parse'.stopped => \E m \in Sent({"stop"})' : m > n /\ wire'[m].index = wire'[n].index
      <4>1. CASE n \in Sent({"start"})
        <5>1. /\ wire'[n] = wire[n] /\ wire[n].index \in Indexes /\ parse.calls[wire[n].index] # "none"
              /\ wire[n].index \in parse.stopped => \E m \in Sent({"stop"}) : m > n /\ wire[m].index = wire[n].index
          BY <4>1, <1>a, <1>n DEF AnthropicAgrees
        <5> QED BY <5>1, <1>s, <2>1, <2>3
      <4>2. CASE n \notin Sent({"start"})
        <5>1. n = last /\ f.type = "start" /\ wire'[n] = f
          BY <3>1, <4>2, <1>w
        <5>2. f.index \notin parse.stopped
          BY <5>1, <1>p, <1>a DEF AnthropicAgrees
        <5> QED BY <5>1, <5>2, <2>0, <2>1, <2>3
      <4> QED BY <4>1, <4>2
    <3>2. \A i \in parse'.stopped : parse'.calls[i] # "none"
      BY <1>a, <2>1, <2>3 DEF AnthropicAgrees, ParseRows
    <3> QED BY <3>1, <3>2 DEF AnthropicAgrees
  <2> QED BY <2>3, <2>4, <2>5, <2>6 DEF Agrees
<1>2. CASE f.type \notin {"start", "delta"}
  <2>1. parse' \in ParseRows /\ parse'.calls = parse.calls /\ (f.type # "message_stop" => parse'.ended = parse.ended)
    <3>1. CASE f.type = "stop"
      <4>1. parse' = [parse EXCEPT !.stopped = @ \cup {f.index}] /\ f.index \in Indexes
        BY <3>1, <1>f, <1>p
      <4> QED BY <3>1, <4>1, <1>a DEF ParseRows
    <3>2. CASE f.type # "stop"
      BY <3>2, <1>2, <1>a, <1>f, <1>p DEF ParseRows
    <3> QED BY <3>1, <3>2
  <2>2. PiecesAgree'
    BY <1>2, <1>a, <1>f, <2>1, PiecesQuiet
  <2>3. EndAgrees'
    <3>1. CASE f.type = "message_stop"
      <4>1. parse'.ended /\ Sent(Terminal)' = {last}
        BY <3>1, <1>a, <1>f, <1>p, <1>w DEF ParseRows, Terminal
      <4> QED BY <1>w, <4>1 DEF EndAgrees
    <3>2. CASE f.type # "message_stop"
      <4>1. Sent(Terminal)' = Sent(Terminal)
        BY <3>2, <1>2, <1>f, <1>w DEF Terminal
      <4>2. CASE Sent(Terminal) = {}
        BY <4>1, <4>2, <3>2, <2>1, <1>a DEF EndAgrees
      <4>3. CASE Sent(Terminal) # {}
        <5>1. f.type = "ping"
          BY <4>3, <1>f
        <5>2. \A n \in Sent(Terminal) : \A m \in 1..Len(wire') : m > n => wire'[m].type = "ping"
          BY <5>1, <1>a, <1>w DEF EndAgrees
        <5> QED BY <4>1, <4>3, <5>2, <3>2, <2>1, <1>a DEF EndAgrees
      <4> QED BY <4>2, <4>3
    <3> QED BY <3>1, <3>2
  <2>4. FailuresAgree'
    <3>1. Sent({"failed", "refusal", "error"})' = {}
      BY <1>a, <1>f, <1>w DEF FailuresAgree
    <3>2. f.type = "max_tokens" => parse'.broken
      BY <1>a, <1>p DEF ParseRows
    <3>3. parse.broken => parse'.broken
      BY <1>a, <1>2, <1>f, <1>p DEF ParseRows
    <3>4. Sent({"length", "max_tokens"})' # {} => Sent({"length", "max_tokens"}) # {} \/ f.type = "max_tokens"
      BY <1>f, <1>w
    <3> QED BY <1>a, <3>1, <3>2, <3>3, <3>4 DEF FailuresAgree
  <2>5. AnthropicAgrees'
    <3>1. Sent({"start"})' = Sent({"start"})
      BY <1>2, <1>w
    <3>2. ASSUME NEW n \in Sent({"start"})
          PROVE  /\ wire'[n].index \in Indexes /\ parse'.calls[wire'[n].index] # "none"
                 /\ wire'[n].index \in parse'.stopped => \E m \in Sent({"stop"})' : m > n /\ wire'[m].index = wire'[n].index
      <4>1. /\ wire'[n] = wire[n] /\ wire[n].index \in Indexes /\ parse.calls[wire[n].index] # "none"
            /\ wire[n].index \in parse.stopped => \E m \in Sent({"stop"}) : m > n /\ wire[m].index = wire[n].index
        BY <1>a, <1>n DEF AnthropicAgrees
      <4>2. CASE parse'.stopped = parse.stopped
        BY <4>1, <4>2, <1>s, <2>1
      <4>3. CASE f.type = "stop"
        <5>1. parse'.stopped = parse.stopped \cup {f.index} /\ last \in Sent({"stop"})' /\ last > n
          BY <4>3, <1>a, <1>p, <1>w DEF ParseRows
        <5> QED BY <4>1, <5>1, <1>s, <1>w, <2>1
      <4>4. f.type # "stop" => parse'.stopped = parse.stopped
        BY <1>2, <1>a, <1>f, <1>p DEF ParseRows
      <4> QED BY <4>2, <4>3, <4>4
    <3>3. \A i \in parse'.stopped : parse'.calls[i] # "none"
      <4>1. parse'.stopped = parse.stopped \/ (f.type = "stop" /\ parse'.stopped = parse.stopped \cup {f.index})
        BY <1>2, <1>a, <1>f, <1>p DEF ParseRows
      <4> QED BY <4>1, <1>a, <1>p, <2>1 DEF AnthropicAgrees
    <3> QED BY <3>1, <3>2, <3>3 DEF AnthropicAgrees
  <2> QED BY <2>1, <2>2, <2>3, <2>4, <2>5 DEF Agrees
<1> QED BY <1>1, <1>2

\* Responses.
LEMMA ResponsesKeeps ==
  ASSUME StreamsTyped, Agrees, protocol = "responses", NEW f \in Frames, wire' = Append(wire, f), protocol' = protocol,
         parse' \in Responses(f)
  PROVE  parse' \in ParseRows /\ Agrees'
<1> DEFINE last == Len(wire) + 1
<1>a. EndAgrees /\ FailuresAgree /\ PiecesAgree /\ ResponsesAgree /\ parse \in ParseRows
  BY DEF Agrees, StreamsTyped
<1>f. /\ f.type \in {"text", "item", "completed"}
      /\ f.type = "item" => f.index \in Indexes
      /\ f.type = "completed" /\ "output" \in DOMAIN f => f.output \in SUBSET Indexes
      /\ ~parse.ended /\ Sent(Terminal) = {}
  <2>1. /\ f.type \in {"text", "failed", "refusal", "item", "completed"}
        /\ f.type = "item" => f.index \in Indexes
        /\ f.type = "completed" /\ "output" \in DOMAIN f => f.output \in SUBSET Indexes
    BY FramesAre DEF StreamsTyped
  <2>2. parse.ended \/ f.type \in {"failed", "refusal"} => Responses(f) = {}
    BY DEF Responses
  <2> QED BY <1>a, <2>1, <2>2 DEF EndAgrees
<1>w. /\ Len(wire) \in Nat /\ Len(wire') = last
      /\ \A types : Sent(types) \subseteq 1..Len(wire)
      /\ \A types : Sent(types)' = Sent(types) \cup (IF f.type \in types THEN {last} ELSE {})
      /\ \A n \in 1..Len(wire) : wire'[n] = wire[n]
      /\ wire'[last] = f
  BY OneMore
<1> DEFINE after == [i \in Indexes |-> IF i \in f.output THEN "whole" ELSE "none"]
<1>p. /\ f.type = "text" => parse' = [parse EXCEPT !.text = TRUE]
      /\ f.type = "item" => parse' = [parse EXCEPT !.calls[f.index] = "whole"]
      /\ f.type = "completed" => \/ /\ Collected(Whole) \subseteq f.output /\ f.output \in SUBSET Indexes
                                    /\ parse' = [parse EXCEPT !.ended = TRUE, !.calls = after]
                                 \/ parse' = [parse EXCEPT !.ended = TRUE]
  BY <1>f DEF Responses
<1>1. /\ parse' \in ParseRows /\ parse'.broken = parse.broken /\ (parse'.ended <=> f.type = "completed")
      /\ \A i \in Indexes : /\ parse'.calls[i] \in {"none", "whole"}
                            /\ parse.calls[i] = "whole" => parse'.calls[i] = "whole"
      /\ f.type = "item" => parse'.calls[f.index] = "whole"
  <2>1. CASE f.type = "text"
    BY <2>1, <1>a, <1>f, <1>p DEF ParseRows, ResponsesAgree
  <2>2. CASE f.type = "item"
    BY <2>2, <1>a, <1>f, <1>p DEF ParseRows, ResponsesAgree, CallStates
  <2>3. CASE f.type = "completed" /\ parse' = [parse EXCEPT !.ended = TRUE]
    BY <2>3, <1>a, <1>f, <1>p DEF ParseRows, ResponsesAgree
  <2>4. CASE /\ f.type = "completed" /\ Collected(Whole) \subseteq f.output /\ f.output \in SUBSET Indexes
             /\ parse' = [parse EXCEPT !.ended = TRUE, !.calls = after]
    <3>1. after \in [Indexes -> CallStates] /\ \A i \in Indexes : after[i] \in {"none", "whole"}
      BY DEF CallStates
    <3>2. \A i \in Indexes : parse.calls[i] = "whole" => after[i] = "whole"
      BY <2>4 DEF Collected, Whole
    <3> HIDE DEF after
    <3> QED BY <2>4, <3>1, <3>2, <1>a DEF ParseRows
  <2> QED BY <1>f, <1>p, <2>1, <2>2, <2>3, <2>4
<1>2. PiecesAgree'
  BY <1>a, <1>1, <1>f, PiecesQuiet
<1>3. EndAgrees'
  <2>1. Sent(Terminal)' = IF f.type = "completed" THEN {last} ELSE {}
    BY <1>f, <1>w DEF Terminal
  <2> QED BY <1>1, <1>w, <2>1 DEF EndAgrees
<1>4. FailuresAgree'
  BY <1>a, <1>f, <1>w, <1>1 DEF FailuresAgree
<1>5. ResponsesAgree'
  <2>1. ASSUME NEW n \in Sent({"item"})' PROVE wire'[n].index \in Indexes /\ parse'.calls[wire'[n].index] = "whole"
    <3>1. CASE n \in Sent({"item"})
      <4>1. wire'[n] = wire[n] /\ wire[n].index \in Indexes /\ parse.calls[wire[n].index] = "whole"
        BY <3>1, <1>a, <1>w DEF ResponsesAgree
      <4> QED BY <4>1, <1>1
    <3>2. CASE n \notin Sent({"item"})
      <4>1. f.type = "item" /\ wire'[n] = f
        BY <2>1, <3>2, <1>w
      <4> QED BY <4>1, <1>1, <1>f
    <3> QED BY <3>1, <3>2
  <2> QED BY <1>1, <2>1 DEF ResponsesAgree
<1> QED BY <1>1, <1>2, <1>3, <1>4, <1>5 DEF Agrees

\* StreamsInv holds when the stream opens.
LEMMA StreamsBegin == StreamsInit => StreamsInv
BY NothingSent DEF StreamsInit

\* Every step of the stream keeps StreamsInv.
LEMMA StreamsStep == StreamsInv /\ [StreamsNext]_psVars => StreamsInv'
<1> SUFFICES ASSUME StreamsInv, [StreamsNext]_psVars PROVE StreamsInv'
  OBVIOUS
<1>t. StreamsTyped /\ Agrees /\ protocol \in Protocols
  BY DEF StreamsInv, StreamsTyped
<1>0. ASSUME protocol' = protocol, wire' = << >>, parse' = Unread, answer' \in {Open, Failed} PROVE StreamsInv'
  <2>1. /\ (protocol \in Protocols)' /\ (wire = << >>)' /\ (parse = Unread)' /\ (answer \in {Open, Failed})'
    BY <1>0, <1>t DEF Unread, Open, Failed
  <2> QED BY <2>1, NothingSentThen
<1>1. CASE Receive
  <2>1. CASE FailStream
    BY <1>0, <1>1, <2>1 DEF FailStream, Receive
  <2>2. CASE ~FailStream
    <3>1. PICK f \in Frames : wire' = Append(wire, f) /\ parse' \in Read(f) /\ UNCHANGED answer
      BY <1>1, <2>2 DEF Receive
    <3>2. protocol' = protocol /\ answer.state = "open" /\ Len(wire) # MaxFrames
      BY <1>1, <2>2 DEF Receive
    <3>3. parse' \in ParseRows /\ Agrees'
      <4>1. CASE protocol = "responses"
        BY <4>1, <1>t, <3>1, <3>2, ResponsesKeeps DEF Read
      <4>2. CASE protocol = "chat"
        BY <4>2, <1>t, <3>1, <3>2, ChatKeeps DEF Read
      <4>3. CASE protocol = "anthropic"
        BY <4>3, <1>t, <3>1, <3>2, AnthropicKeeps DEF Read
      <4> QED BY <1>t, <4>1, <4>2, <4>3, StreamsAssumption
    <3>4. Len(wire') <= MaxFrames /\ (wire \in Seq(Frames))'
      BY <1>t, <3>1, <3>2, OneMore, StreamsAssumption DEF StreamsTyped
    <3> QED BY <1>t, <3>1, <3>2, <3>3, <3>4 DEF StreamsInv, StreamsTyped
  <2> QED BY <2>1, <2>2
<1>2. CASE EndOfBody
  <2>1. CASE FailStream
    BY <1>0, <1>2, <2>1 DEF FailStream, EndOfBody
  <2>2. CASE ~FailStream
    <3>1. /\ FinishedWell /\ answer' = [state |-> "done", calls |-> Collected(Whole)] /\ UNCHANGED <<wire, parse, protocol>>
      BY <1>2, <2>2 DEF EndOfBody
    <3>2. Collected(Whole) \in SUBSET Indexes
      BY DEF Collected
    <3>3. Agrees' /\ FinishedWell' /\ Collected(Whole)' = Collected(Whole) /\ Frames' = Frames
      BY <1>t, <3>1 DEF Agrees, EndAgrees, FailuresAgree, PiecesAgree, PiecesOf, ChatAgrees, AnthropicAgrees,
                        ResponsesAgree, Sent, FinishedWell, Collected, Frames
    <3> QED BY <1>t, <3>1, <3>2, <3>3 DEF StreamsInv, StreamsTyped
  <2> QED BY <2>1, <2>2
<1>3. CASE AbortStream
  BY <1>0, <1>3 DEF AbortStream, FailStream
<1>4. CASE Continuation
  BY <1>0, <1>4 DEF Continuation, FailStream
<1>5. CASE UNCHANGED psVars
  <2>1. Agrees' /\ FinishedWell' = FinishedWell /\ Collected(Whole)' = Collected(Whole) /\ Frames' = Frames
    BY <1>t, <1>5 DEF Agrees, EndAgrees, FailuresAgree, PiecesAgree, PiecesOf, ChatAgrees, AnthropicAgrees,
                      ResponsesAgree, Sent, FinishedWell, Collected, Frames, psVars
  <2> QED BY <1>5, <2>1 DEF StreamsInv, StreamsTyped, psVars
<1> QED BY <1>1, <1>2, <1>3, <1>4, <1>5 DEF StreamsNext

\* StreamsInv holds in every reachable state.
LEMMA StreamsInvariant == StreamsSpec => []StreamsInv
BY StreamsBegin, StreamsStep, PTL DEF StreamsSpec

\* The reader's state and its answer hold what they are declared to.
THEOREM StreamsTypeCorrect == StreamsSpec => []StreamsTypeOK
<1>1. StreamsInv => StreamsTypeOK
  BY DEF StreamsInv, StreamsTyped, StreamsTypeOK, ParseRows, CallStates
<1> QED BY <1>1, StreamsInvariant, PTL

\* Tool calls come out of an answer only when the server completed it, by the rules
\* of its protocol, and each of them in whole: for frames in any order and number.
THEOREM CallsComeWhole == StreamsSpec => []CallsOnlyFromCompletedStreams
<1>1. ASSUME StreamsInv, answer.state = "done" PROVE CallsOnlyFromCompletedStreams
  <2>a. /\ EndAgrees /\ FailuresAgree /\ PiecesAgree /\ FinishedWell /\ answer.calls = Collected(Whole)
        /\ protocol = "chat" => ChatAgrees
        /\ protocol = "anthropic" => AnthropicAgrees
        /\ protocol = "responses" => ResponsesAgree
        /\ DOMAIN wire = 1..Len(wire) /\ Len(wire) \in Nat /\ parse \in ParseRows
    BY <1>1 DEF StreamsInv, Agrees, StreamsTyped
  <2>s. \A types : \A n \in Sent(types) : n \in 1..Len(wire) /\ wire[n].type \in types
    BY <2>a DEF Sent
  <2>n. ~parse.broken /\ parse.ended
    BY <2>a DEF FinishedWell
  <2>1. /\ Cardinality(Sent(Terminal)) = 1
        /\ \A n \in Sent(Terminal), m \in DOMAIN wire : m > n => wire[m].type = "ping"
    <3>1. PICK n \in Sent(Terminal) : TRUE
      BY <2>a, <2>n DEF EndAgrees
    <3>2. \A m \in Sent(Terminal) : m = n
      BY <2>a, <2>s, <3>1 DEF EndAgrees, Terminal
    <3>3. Sent(Terminal) = {n}
      BY <3>1, <3>2
    <3> QED BY <2>a, <3>3, FS_Singleton DEF EndAgrees
  <2>2. Sent({"failed", "refusal", "error", "length", "max_tokens"}) = {}
    BY <2>a, <2>n DEF FailuresAgree, Sent
  <2>3. ASSUME NEW i \in answer.calls, PiecesOf(i) # {}
        PROVE  \E h \in PiecesOf(i), t \in PiecesOf(i) :
                 h < t /\ PiecesOf(i) = {h, t} /\ wire[h].piece = "head" /\ wire[t].piece = "tail"
    <3>1. i \in Indexes /\ parse.calls[i] \in {"opened", "whole"}
      BY <2>a, <2>3 DEF Collected, Whole
    <3> QED BY <2>a, <2>3, <3>1 DEF PiecesAgree
  <2>4. ASSUME protocol = "chat"
        PROVE  /\ Cardinality(Sent({"stop", "tool_calls"})) = 1
               /\ \A n \in Sent({"stop", "tool_calls"}), m \in Sent({"part", "text"}) : m < n
               /\ Sent({"tool_calls"}) # {} <=> Sent({"part"}) # {}
    <3>c. ChatAgrees /\ parse.reason # "none" /\ (parse.reason = "calls" <=> Collected(Whole) # {})
          /\ Collected({"head", "garbled"}) = {}
      BY <2>a, <2>4 DEF FinishedWell
    <3>1. PICK n \in Sent({"stop", "tool_calls"}) : TRUE
      BY <3>c DEF ChatAgrees
    <3>l. \A k \in Sent({"stop", "tool_calls"}) : \A m \in Sent({"part", "text", "stop", "tool_calls"}) : m <= k
      BY <3>c DEF ChatAgrees
    <3>2. Sent({"stop", "tool_calls"}) = {n}
      <4>1. \A m \in Sent({"stop", "tool_calls"}) : m \in Sent({"part", "text", "stop", "tool_calls"})
        BY DEF Sent
      <4> QED BY <3>1, <3>l, <4>1, <2>s
    <3>3. \A k \in Sent({"stop", "tool_calls"}), m \in Sent({"part", "text"}) : m < k
      <4>1. \A m \in Sent({"part", "text"}) : m \in Sent({"part", "text", "stop", "tool_calls"}) /\ m \notin Sent({"stop", "tool_calls"})
        BY DEF Sent
      <4> QED BY <3>l, <4>1, <2>s
    <3>4. Sent({"part"}) # {} <=> Collected(Whole) # {}
      <4>1. Collected(Whole) # {} <=> \E i \in Indexes : parse.calls[i] # "none"
        BY <3>c, <2>a DEF Collected, Whole, ParseRows, CallStates, ChatAgrees
      <4>2. (\E i \in Indexes : parse.calls[i] # "none") <=> Sent({"part"}) # {}
        BY <3>c DEF ChatAgrees
      <4> QED BY <4>1, <4>2
    <3>5. Sent({"tool_calls"}) # {} <=> Sent({"part"}) # {}
      BY <3>c, <3>4 DEF ChatAgrees
    <3> QED BY <3>2, <3>3, <3>5, FS_Singleton
  <2>5. ASSUME protocol = "anthropic"
        PROVE  \A n \in Sent({"start"}) : \E m \in Sent({"stop"}) : m > n /\ wire[m].index = wire[n].index
    BY <2>a, <2>5 DEF AnthropicAgrees, FinishedWell
  <2>6. ASSUME protocol = "responses"
        PROVE  {wire[n].index : n \in Sent({"item"})} \subseteq answer.calls
    BY <2>a, <2>6 DEF ResponsesAgree, Collected, Whole
  <2> QED BY <2>1, <2>2, <2>3, <2>4, <2>5, <2>6 DEF CallsOnlyFromCompletedStreams, Terminal
<1>2. StreamsInv => CallsOnlyFromCompletedStreams
  BY <1>1 DEF CallsOnlyFromCompletedStreams
<1> QED BY <1>2, StreamsInvariant, PTL

----
(***************************************************************************)
(* Automations: events become drafts once, under the trust of the moment.  *)
(***************************************************************************)

\* The types, with a pump that works naming a run.
Logs == [committed: 0..MaxEvents, cursor: 0..MaxEvents]
JobRuns == [Listeners -> [Events -> JobStates]]
DraftCounts == [Listeners -> [Events -> 0..2]]
Trusts == [current: Revisions, grants: [Revisions -> 0..MaxGrants], issued: 0..MaxGrants, expired: SUBSET (1..MaxGrants)]
Drains == [step: {"idle", "processing", "yielding", "ending"}, left: SUBSET Listeners]
Pumps == [step: {"idle", "validating", "running", "committing"}, revision: 0..MaxRevisions,
          event: 0..MaxEvents, grant: 0..MaxGrants, aborted: BOOLEAN]

\* Every variable of the automations has its type.
AutomationsTyped ==
  /\ log \in Logs /\ active \in [Listeners -> 0..MaxEvents] /\ jobs \in JobRuns /\ drafts \in DraftCounts
  /\ trust \in Trusts /\ hooks \in BOOLEAN /\ drain \in Drains /\ pump \in Pumps /\ granting \in 0..MaxRevisions

\* While an event is given to the listeners there is one past the cursor, and a
\* grant that is being validated has a number left.
NextEventExists == drain.step = "processing" => log.cursor < log.committed
\* A grant that is being given has its number left.
GrantLeft == granting # 0 => trust.issued < MaxGrants
\* The run the pump works on: validated ones may be cancelled meanwhile, launched
\* ones stay.
PumpHasItsRun ==
  /\ pump.step # "idle" => pump.revision \in Revisions /\ pump.event \in Events
  /\ pump.step = "validating" => jobs[pump.revision][pump.event] \in {"queued", "cancelled"}
  /\ pump.step \in {"running", "committing"} => jobs[pump.revision][pump.event] = "running"

\* The inductive invariant of the automations.
AutomationsInv == AutomationsTyped /\ NextEventExists /\ GrantLeft /\ PumpHasItsRun /\ EachEventDraftsOnce

\* AutomationsInv holds before the first event.
LEMMA AutomationsStart == AutomationsInit => AutomationsInv
BY AutomationsAssumption DEF AutomationsInit, AutomationsInv, AutomationsTyped, Logs, JobRuns, DraftCounts, Trusts, Drains, Pumps,
     NextEventExists, GrantLeft, PumpHasItsRun, EachEventDraftsOnce, Never, JobStates, NoDrain, NoPump, Revisions, Events, Listeners

\* Cancelling the jobs of a listener leaves jobs of the right states.
LEMMA CancelledOnes ==
  ASSUME AutomationsTyped, NEW v \in Revisions
  PROVE  /\ CancelQueued(v) \in JobRuns
         /\ \A l \in Listeners, e \in Events :
              CancelQueued(v)[l][e] = IF l = v /\ jobs[l][e] = "queued" THEN "cancelled" ELSE jobs[l][e]
BY DEF AutomationsTyped, CancelQueued, JobRuns, JobStates, Listeners

\* A grant that is written is one that was issued.
LEMMA GrantWritten ==
  ASSUME AutomationsTyped, NEW v \in Revisions, NEW g \in 0..MaxGrants, NEW c \in Revisions, NEW i \in 0..MaxGrants
  PROVE  [trust EXCEPT !.current = c, !.issued = i, !.grants[v] = g] \in Trusts
<1>1. [trust EXCEPT !.current = c, !.issued = i] \in Trusts
  BY DEF AutomationsTyped, Trusts
<1>2. \A t \in Trusts : [t EXCEPT !.grants[v] = g] \in Trusts
  BY DEF Trusts
<1> QED BY <1>1, <1>2

\* A pump that is told to stop is still a pump.
LEMMA AbortedPump ==
  ASSUME AutomationsTyped, NEW v \in Revisions
  PROVE  /\ Aborted(v) \in Pumps
         /\ Aborted(v).step = pump.step /\ Aborted(v).revision = pump.revision /\ Aborted(v).event = pump.event
BY DEF AutomationsTyped, Aborted, Pumps

\* Every step keeps AutomationsInv.
LEMMA AutomationsStep == AutomationsInv /\ [AutomationsNext]_auVars => AutomationsInv'
<1> SUFFICES ASSUME AutomationsInv, [AutomationsNext]_auVars PROVE AutomationsInv'
  OBVIOUS
<1> USE AutomationsAssumption
<1>t. /\ AutomationsTyped /\ NextEventExists /\ GrantLeft /\ PumpHasItsRun /\ EachEventDraftsOnce
  BY DEF AutomationsInv
<1> DEFINE Rest == UNCHANGED <<jobs, drafts>>
<1>1. CASE CommitEvent
  BY <1>t, <1>1 DEF CommitEvent, AutomationsInv, AutomationsTyped, NextEventExists, GrantLeft, PumpHasItsRun, EachEventDraftsOnce, Logs
<1>2. CASE SaveRule
  BY <1>t, <1>2 DEF SaveRule, AutomationsInv, AutomationsTyped, NextEventExists, GrantLeft, PumpHasItsRun, EachEventDraftsOnce, Logs, Listeners
<1>3. CASE Register
  <2>1. trust' \in Trusts /\ trust'.issued = trust.issued
    <3>1. trust.current \in Revisions /\ trust.current + 1 \in Revisions /\ 0 \in 0..MaxGrants /\ trust.issued \in 0..MaxGrants
      BY <1>t, <1>3 DEF Register, AutomationsTyped, Trusts, Revisions
    <3>2. trust' = [trust EXCEPT !.current = trust.current + 1, !.issued = trust.issued, !.grants[trust.current] = 0]
      BY <1>t, <1>3 DEF Register, AutomationsTyped, Trusts
    <3>3. trust'.issued = trust.issued
      BY <1>t, <1>3 DEF Register, AutomationsTyped, Trusts
    <3> QED BY <1>t, <3>1, <3>2, <3>3, GrantWritten
  <2>2. pump' \in Pumps /\ pump'.step = pump.step /\ pump'.revision = pump.revision /\ pump'.event = pump.event
    BY <1>t, <1>3, AbortedPump DEF Register, AutomationsTyped, Trusts
  <2> QED BY <1>t, <1>3, <2>1, <2>2
        DEF Register, AutomationsInv, AutomationsTyped, NextEventExists, GrantLeft, PumpHasItsRun, EachEventDraftsOnce
<1>4. CASE AskGrant
  BY <1>t, <1>4 DEF AskGrant, AutomationsInv, AutomationsTyped, NextEventExists, GrantLeft, PumpHasItsRun, EachEventDraftsOnce, Trusts, Revisions
<1>5. CASE Granted
  <2>1. granting \in Revisions /\ granting' = 0
    BY <1>t, <1>5 DEF Granted, AutomationsTyped, Revisions
  <2>2. trust' \in Trusts
    <3>1. trust.current \in Revisions /\ trust.issued + 1 \in 0..MaxGrants
      BY <1>t, <1>5, <2>1 DEF AutomationsTyped, Trusts, GrantLeft, Revisions
    <3>2. trust' = [trust EXCEPT !.current = trust.current, !.issued = trust.issued + 1, !.grants[granting] = trust.issued + 1]
      BY <1>t, <1>5 DEF Granted, AutomationsTyped, Trusts
    <3> QED BY <1>t, <2>1, <3>1, <3>2, GrantWritten
  <2>3. active' \in [Listeners -> 0..MaxEvents]
    BY <1>t, <1>5, <2>1 DEF Granted, AutomationsTyped, Listeners, Logs
  <2>4. /\ jobs' \in JobRuns
        /\ \A l \in Listeners, e \in Events :
             \/ jobs'[l][e] = jobs[l][e]
             \/ jobs[l][e] = "queued" /\ jobs'[l][e] = "cancelled"
    BY <1>t, <1>5, <2>1, CancelledOnes DEF Granted, AutomationsTyped
  <2> QED BY <1>t, <1>5, <2>1, <2>2, <2>3, <2>4
        DEF Granted, AutomationsInv, AutomationsTyped, NextEventExists, GrantLeft, PumpHasItsRun, EachEventDraftsOnce, Listeners
<1>6. ASSUME NEW v \in Revisions, Revoke(v) PROVE AutomationsInv'
  <2>2. trust' \in Trusts /\ trust'.issued = trust.issued
    <3>1. trust.current \in Revisions /\ trust.issued \in 0..MaxGrants /\ 0 \in 0..MaxGrants
      BY <1>t DEF AutomationsTyped, Trusts
    <3>2. trust' = [trust EXCEPT !.current = trust.current, !.issued = trust.issued, !.grants[v] = 0]
      BY <1>t, <1>6 DEF Revoke, AutomationsTyped, Trusts
    <3>3. trust'.issued = trust.issued
      BY <1>t, <1>6 DEF Revoke, AutomationsTyped, Trusts
    <3> QED BY <1>t, <3>1, <3>2, <3>3, GrantWritten
  <2>3. pump' \in Pumps /\ pump'.step = pump.step /\ pump'.revision = pump.revision /\ pump'.event = pump.event
    BY <1>t, <1>6, AbortedPump DEF Revoke
  <2>4. /\ jobs' \in JobRuns
        /\ \A l \in Listeners, e \in Events :
             \/ jobs'[l][e] = jobs[l][e]
             \/ jobs[l][e] = "queued" /\ jobs'[l][e] = "cancelled"
    BY <1>t, <1>6, CancelledOnes DEF Revoke
  <2> QED BY <1>t, <1>6, <2>2, <2>3, <2>4
        DEF Revoke, AutomationsInv, AutomationsTyped, NextEventExists, GrantLeft, PumpHasItsRun, EachEventDraftsOnce, Listeners
<1>7. ASSUME NEW v \in Revisions, Expire(v) PROVE AutomationsInv'
  BY <1>t, <1>7 DEF Expire, Trusted, AutomationsInv, AutomationsTyped, NextEventExists, GrantLeft, PumpHasItsRun, EachEventDraftsOnce, Trusts, Revisions
<1>8. CASE SwitchHooks
  BY <1>t, <1>8 DEF SwitchHooks, AutomationsInv, AutomationsTyped, NextEventExists, GrantLeft, PumpHasItsRun, EachEventDraftsOnce
<1>9. CASE Consume
  <2>1. log' \in Logs /\ drain' \in Drains /\ (drain'.step = "processing" => log'.cursor < log'.committed)
    BY <1>t, <1>9 DEF Consume, AutomationsTyped, Logs, Drains, NextEventExists, Listeners, Trusts
  <2> QED BY <1>t, <1>9, <2>1 DEF Consume, AutomationsInv, AutomationsTyped, NextEventExists, GrantLeft, PumpHasItsRun, EachEventDraftsOnce
<1>10. CASE DrainEnds
  BY <1>t, <1>10 DEF DrainEnds, NoDrain, AutomationsInv, AutomationsTyped, NextEventExists, GrantLeft, PumpHasItsRun, EachEventDraftsOnce, Drains
<1>11. ASSUME NEW l \in Listeners, Listen(l) PROVE AutomationsInv'
  <2> DEFINE e == log.cursor + 1
  <2>1. e \in Events /\ drain' \in Drains /\ drain'.step = drain.step
    BY <1>t, <1>11 DEF Listen, AutomationsTyped, NextEventExists, Logs, Events, Drains
  <2>2. /\ jobs' \in JobRuns /\ drafts' \in DraftCounts
        /\ \A k \in Listeners, f \in Events :
             \/ jobs'[k][f] = jobs[k][f] /\ drafts'[k][f] = drafts[k][f]
             \/ jobs[k][f] = "none" /\ jobs'[k][f] = "queued" /\ drafts'[k][f] = drafts[k][f]
             \/ jobs[k][f] = "none" /\ jobs'[k][f] = "complete" /\ drafts'[k][f] = drafts[k][f] + 1
    <3> HIDE DEF e
    <3>1. /\ log' = log /\ UNCHANGED <<active, trust, hooks, pump, granting>>
          /\ \/ UNCHANGED <<jobs, drafts>>
             \/ /\ jobs[l][e] = "none" /\ jobs' = [jobs EXCEPT ![l][e] = "complete"]
                /\ drafts' = [drafts EXCEPT ![l][e] = @ + 1]
             \/ jobs[l][e] = "none" /\ jobs' = [jobs EXCEPT ![l][e] = "queued"] /\ UNCHANGED drafts
      BY <1>11 DEF Listen, Enqueues, e
    <3>2. jobs[l][e] = "none" => drafts[l][e] = 0
      BY <1>t, <2>1 DEF EachEventDraftsOnce, AutomationsTyped, DraftCounts
    <3>3. CASE UNCHANGED <<jobs, drafts>>
      BY <1>t, <3>3 DEF AutomationsTyped
    <3>4. ASSUME NEW state \in {"queued", "complete"}, jobs' = [jobs EXCEPT ![l][e] = state]
          PROVE  /\ jobs' \in JobRuns
                 /\ \A k \in Listeners, f \in Events : jobs'[k][f] = IF k = l /\ f = e THEN state ELSE jobs[k][f]
      BY <1>t, <2>1, <3>4 DEF AutomationsTyped, JobRuns, JobStates
    <3>5. CASE jobs[l][e] = "none" /\ jobs' = [jobs EXCEPT ![l][e] = "complete"] /\ drafts' = [drafts EXCEPT ![l][e] = @ + 1]
      <4>1. /\ drafts' \in DraftCounts
            /\ \A k \in Listeners, f \in Events : drafts'[k][f] = IF k = l /\ f = e THEN drafts[k][f] + 1 ELSE drafts[k][f]
        BY <1>t, <2>1, <3>2, <3>5 DEF AutomationsTyped, DraftCounts
      <4> QED BY <3>4, <3>5, <4>1
    <3>6. CASE jobs[l][e] = "none" /\ jobs' = [jobs EXCEPT ![l][e] = "queued"] /\ UNCHANGED drafts
      BY <1>t, <3>4, <3>6 DEF AutomationsTyped
    <3> QED BY <3>1, <3>3, <3>5, <3>6
  <2> QED BY <1>t, <1>11, <2>1, <2>2
        DEF Listen, AutomationsInv, AutomationsTyped, NextEventExists, GrantLeft, PumpHasItsRun, EachEventDraftsOnce, DraftCounts, Listeners
<1>12. ASSUME NEW v \in Revisions, NEW e \in Events, Dispatch(v, e) PROVE AutomationsInv'
  <2>1. jobs[v][e] = "queued" /\ v \in Listeners
    BY <1>t, <1>12 DEF Dispatch, Queued, Listeners
  <2>2. CASE UNCHANGED jobs
    <3>1. \/ pump' = [NoPump EXCEPT !.step = "validating", !.revision = v, !.event = e]
          \/ jobs' = [jobs EXCEPT ![v][e] = "cancelled"] /\ UNCHANGED pump
      BY <1>12 DEF Dispatch
    <3>2. pump' = [NoPump EXCEPT !.step = "validating", !.revision = v, !.event = e]
      <4>1. v \in DOMAIN jobs /\ e \in DOMAIN jobs[v]
        BY <1>t, <2>1 DEF AutomationsTyped, JobRuns
      <4>2. [jobs EXCEPT ![v][e] = "cancelled"][v][e] = "cancelled"
        BY <4>1
      <4> QED BY <2>1, <2>2, <3>1, <4>2
    <3>3. pump' \in Pumps /\ pump'.step = "validating" /\ pump'.revision = v /\ pump'.event = e
      <4>1. pump' = [step |-> "validating", revision |-> v, event |-> e, grant |-> 0, aborted |-> FALSE]
        BY <3>2 DEF NoPump
      <4>2. v \in 0..MaxRevisions /\ e \in 0..MaxEvents /\ 0 \in 0..MaxGrants
        BY DEF Revisions, Events
      <4> QED BY <4>1, <4>2 DEF Pumps
    <3> QED BY <1>t, <1>12, <2>1, <2>2, <3>3
          DEF Dispatch, AutomationsInv, AutomationsTyped, NextEventExists, GrantLeft, PumpHasItsRun, EachEventDraftsOnce
  <2>3. CASE jobs' = [jobs EXCEPT ![v][e] = "cancelled"] /\ UNCHANGED pump
    <3>1. /\ jobs' \in JobRuns
          /\ \A k \in Listeners, f \in Events : jobs'[k][f] = IF k = v /\ f = e THEN "cancelled" ELSE jobs[k][f]
      BY <1>t, <2>1, <2>3 DEF AutomationsTyped, JobRuns, JobStates
    <3> QED BY <1>t, <1>12, <2>1, <2>3, <3>1 DEF Dispatch, AutomationsInv, AutomationsTyped, NextEventExists, GrantLeft, PumpHasItsRun, EachEventDraftsOnce, Listeners
  <2> QED BY <1>12, <2>2, <2>3 DEF Dispatch
<1>13. ASSUME NEW state \in {"running", "cancelled", "failed", "unknown", "complete"}, pump.step # "idle",
              NEW others \in JobRuns,
              \A l \in Listeners, e \in Events :
                \/ others[l][e] = jobs[l][e]
                \/ jobs[l][e] = "queued" /\ others[l][e] = "cancelled",
              jobs' = [others EXCEPT ![pump.revision][pump.event] = state],
              drafts' = IF state = "complete" THEN [drafts EXCEPT ![pump.revision][pump.event] = @ + 1] ELSE drafts
       PROVE  /\ jobs' \in JobRuns /\ drafts' \in DraftCounts /\ EachEventDraftsOnce'
              /\ jobs'[pump.revision][pump.event] = state
  <2>1. pump.revision \in Listeners /\ pump.event \in Events /\ jobs[pump.revision][pump.event] # "complete"
    BY <1>t, <1>13 DEF PumpHasItsRun, AutomationsTyped, Listeners, Pumps
  <2>2. drafts[pump.revision][pump.event] = 0
    BY <1>t, <2>1 DEF EachEventDraftsOnce, AutomationsTyped, DraftCounts
  <2>3. /\ jobs' \in JobRuns
        /\ \A l \in Listeners, e \in Events :
             jobs'[l][e] = IF l = pump.revision /\ e = pump.event THEN state ELSE others[l][e]
    BY <1>13, <2>1 DEF JobRuns, JobStates
  <2>4. /\ drafts' \in DraftCounts
        /\ \A l \in Listeners, e \in Events :
             drafts'[l][e] = IF l = pump.revision /\ e = pump.event
                             THEN (IF state = "complete" THEN 1 ELSE 0) ELSE drafts[l][e]
    BY <1>t, <1>13, <2>1, <2>2 DEF AutomationsTyped, DraftCounts
  <2>5. EachEventDraftsOnce'
    BY <1>t, <1>13, <2>3, <2>4 DEF EachEventDraftsOnce, AutomationsTyped, DraftCounts
  <2> QED BY <2>1, <2>3, <2>4, <2>5
<1>14. CASE Launch
  <2>1. PICK state \in {"running", "cancelled"} :
          /\ jobs' = [jobs EXCEPT ![pump.revision][pump.event] = state]
          /\ pump' = IF state = "running" THEN [pump EXCEPT !.step = "running", !.grant = trust.grants[pump.revision]] ELSE NoPump
    BY <1>14 DEF Launch, Conclude
  <2>2. /\ jobs' \in JobRuns /\ drafts' \in DraftCounts /\ EachEventDraftsOnce'
        /\ jobs'[pump.revision][pump.event] = state
    BY <1>t, <1>13, <1>14, <2>1 DEF Launch, AutomationsTyped
  <2>3. pump.revision \in Revisions /\ pump.event \in Events /\ pump' \in Pumps
    <3>1. pump.revision \in Revisions /\ pump.event \in Events
      BY <1>t, <1>14 DEF Launch, PumpHasItsRun
    <3>2. trust.grants[pump.revision] \in 0..MaxGrants
      BY <1>t, <3>1 DEF AutomationsTyped, Trusts
    <3>3. NoPump \in Pumps
      BY DEF NoPump, Pumps
    <3>4. [pump EXCEPT !.step = "running", !.grant = trust.grants[pump.revision]] \in Pumps
      BY <1>t, <3>2 DEF AutomationsTyped, Pumps
    <3> QED BY <2>1, <3>1, <3>3, <3>4
  <2>4. pump'.step # "idle" => pump'.step = "running" /\ pump'.revision = pump.revision /\ pump'.event = pump.event /\ state = "running"
    BY <1>t, <2>1 DEF NoPump, AutomationsTyped, Pumps
  <2> QED BY <1>t, <1>14, <2>2, <2>3, <2>4 DEF Launch, AutomationsInv, AutomationsTyped, NextEventExists, GrantLeft, PumpHasItsRun
<1>15. ASSUME Conclude("failed") \/ Conclude("unknown") \/ Conclude("complete"), pump.step # "idle",
              \/ UNCHANGED drafts /\ ~Conclude("complete")
              \/ Conclude("complete") /\ drafts' = [drafts EXCEPT ![pump.revision][pump.event] = @ + 1],
              UNCHANGED <<log, active, trust, hooks, drain, granting>>
       PROVE  AutomationsInv'
  <2>1. PICK state \in {"failed", "unknown", "complete"} :
          /\ jobs' = [jobs EXCEPT ![pump.revision][pump.event] = state]
          /\ drafts' = IF state = "complete" THEN [drafts EXCEPT ![pump.revision][pump.event] = @ + 1] ELSE drafts
    BY <1>15 DEF Conclude
  <2>2. jobs' \in JobRuns /\ drafts' \in DraftCounts /\ EachEventDraftsOnce'
    BY <1>t, <1>13, <1>15, <2>1 DEF AutomationsTyped
  <2>3. pump' = NoPump /\ NoPump \in Pumps /\ NoPump.step = "idle"
    BY <1>15 DEF Conclude, NoPump, Pumps
  <2> QED BY <1>t, <1>15, <2>2, <2>3 DEF AutomationsInv, AutomationsTyped, NextEventExists, GrantLeft, PumpHasItsRun
<1>16. CASE PinChanged
  <2>1. pump.revision \in Revisions /\ pump.step # "idle"
    BY <1>t, <1>16 DEF PinChanged, PumpHasItsRun
  <2>2. trust' \in Trusts /\ trust'.issued = trust.issued
    BY <1>t, <1>16, <2>1 DEF PinChanged, AutomationsTyped, Trusts
  <2>3. PICK state \in {"failed", "unknown"} : jobs' = [CancelQueued(pump.revision) EXCEPT ![pump.revision][pump.event] = state]
    BY <1>16 DEF PinChanged
  <2>4. jobs' \in JobRuns /\ drafts' \in DraftCounts /\ EachEventDraftsOnce'
    <3>1. UNCHANGED drafts
      BY <1>16 DEF PinChanged
    <3> QED BY <1>t, <1>13, <2>1, <2>3, <3>1, CancelledOnes
  <2>5. pump' = NoPump /\ NoPump \in Pumps /\ NoPump.step = "idle"
    BY <1>16 DEF PinChanged, NoPump, Pumps
  <2> QED BY <1>t, <1>16, <2>2, <2>4, <2>5 DEF PinChanged, AutomationsInv, AutomationsTyped, NextEventExists, GrantLeft, PumpHasItsRun
<1>17. CASE ScriptEnds
  <2>1. CASE pump' = [pump EXCEPT !.step = "committing"] /\ UNCHANGED jobs
    BY <1>t, <1>17, <2>1 DEF ScriptEnds, AutomationsInv, AutomationsTyped, NextEventExists, GrantLeft, PumpHasItsRun, EachEventDraftsOnce, Pumps
  <2>2. CASE Conclude("failed") \/ Conclude("unknown")
    <3>1. ~Conclude("complete")
      BY <1>t, <1>17, <2>2 DEF ScriptEnds, Conclude, PumpHasItsRun, AutomationsTyped, JobRuns, Listeners
    <3> QED BY <1>15, <1>17, <2>2, <3>1 DEF ScriptEnds
  <2> QED BY <1>17, <2>1, <2>2 DEF ScriptEnds
<1>18. CASE CommitDrafts
  <2>1. CASE Conclude("complete") /\ drafts' = [drafts EXCEPT ![pump.revision][pump.event] = @ + 1]
    BY <1>15, <1>18, <2>1 DEF CommitDrafts
  <2>2. CASE Conclude("unknown") /\ UNCHANGED drafts
    <3>1. ~Conclude("complete")
      BY <1>t, <1>18, <2>2 DEF CommitDrafts, Conclude, PumpHasItsRun, AutomationsTyped, JobRuns, Listeners
    <3> QED BY <1>15, <1>18, <2>2, <3>1 DEF CommitDrafts
  <2> QED BY <1>18, <2>1, <2>2 DEF CommitDrafts
<1>19. CASE CrashAutomations
  <2>1. /\ jobs' \in JobRuns
        /\ \A l \in Listeners, e \in Events : jobs'[l][e] = IF jobs[l][e] = "running" THEN "unknown" ELSE jobs[l][e]
    BY <1>t, <1>19 DEF CrashAutomations, AutomationsTyped, JobRuns, JobStates
  <2>2. drain' \in Drains /\ drain'.step = "idle" /\ pump' \in Pumps /\ pump'.step = "idle" /\ granting' = 0
    BY <1>19 DEF CrashAutomations, NoDrain, NoPump, Drains, Pumps
  <2> QED BY <1>t, <1>19, <2>1, <2>2 DEF CrashAutomations, AutomationsInv, AutomationsTyped, NextEventExists, GrantLeft, PumpHasItsRun, EachEventDraftsOnce
<1>20. CASE UNCHANGED auVars
  BY <1>t, <1>20 DEF auVars, AutomationsInv, AutomationsTyped, NextEventExists, GrantLeft, PumpHasItsRun, EachEventDraftsOnce
<1> QED BY <1>1, <1>2, <1>3, <1>4, <1>5, <1>6, <1>7, <1>8, <1>9, <1>10, <1>11, <1>12, <1>14, <1>16, <1>17, <1>18, <1>19, <1>20
      DEF AutomationsNext
\* AutomationsInv holds in every reachable state.
LEMMA AutomationsInvariant == AutomationsSpec => []AutomationsInv
BY AutomationsStart, AutomationsStep, PTL DEF AutomationsSpec

\* The tables of events, rules, jobs and grants hold what they are declared to.
THEOREM AutomationsTypeCorrect == AutomationsSpec => []AutomationsTypeOK
<1>1. AutomationsInv => AutomationsTypeOK
  BY AutomationsAssumption DEF AutomationsInv, AutomationsTyped, AutomationsTypeOK, Logs, JobRuns, DraftCounts, Trusts, Drains, Pumps
<1> QED BY <1>1, AutomationsInvariant, PTL

\* A rule or a script drafts at most once for an event, and exactly when its job is
\* complete, for any events, listeners and crashes.
THEOREM EventsDraftOnce == AutomationsSpec => []EachEventDraftsOnce
<1>1. AutomationsInv => EachEventDraftsOnce
  BY DEF AutomationsInv
<1> QED BY <1>1, AutomationsInvariant, PTL

\* A run that was launched stays so, and is not run anew.
StaysLaunched(v, e) ==
  jobs[v][e] \in Launched => jobs'[v][e] \in Launched /\ (jobs'[v][e] = "running" => jobs[v][e] = "running")

LEMMA LaunchedStep ==
  ASSUME AutomationsInv, [AutomationsNext]_auVars, NEW v \in Revisions, NEW e \in Events
  PROVE  StaysLaunched(v, e)
<1> USE AutomationsAssumption
<1>t. AutomationsTyped /\ PumpHasItsRun /\ jobs \in JobRuns /\ v \in Listeners
  BY DEF AutomationsInv, AutomationsTyped, Listeners
<1>p. pump.step # "idle" => /\ pump.revision \in Listeners /\ pump.event \in Events
                            /\ jobs[pump.revision][pump.event] \in {"queued", "cancelled", "running"}
  BY <1>t DEF PumpHasItsRun, Listeners, AutomationsTyped, Pumps
<1>1. ASSUME jobs'[v][e] = jobs[v][e] \/ jobs[v][e] = "queued" PROVE StaysLaunched(v, e)
  BY <1>1 DEF StaysLaunched, Launched
<1>2. ASSUME NEW state, pump.step # "idle", jobs' = [jobs EXCEPT ![pump.revision][pump.event] = state],
             \/ pump.step = "validating"
             \/ state \in Launched \ {"running"}
      PROVE  StaysLaunched(v, e)
  <2>1. CASE pump.revision = v /\ pump.event = e
    <3>1. jobs'[v][e] = state
      BY <1>2, <1>t, <2>1 DEF JobRuns
    <3> QED BY <1>2, <1>t, <2>1, <3>1 DEF StaysLaunched, Launched, PumpHasItsRun
  <2>2. CASE ~(pump.revision = v /\ pump.event = e)
    <3>1. jobs'[v][e] = jobs[v][e]
      BY <1>2, <1>p, <1>t, <2>2 DEF JobRuns
    <3> QED BY <1>1, <3>1
  <2> QED BY <2>1, <2>2
<1>3. CASE Launch
  BY <1>2, <1>3 DEF Launch, Conclude
<1>4. CASE CommitDrafts
  <2>1. \E state \in {"complete", "unknown"} : jobs' = [jobs EXCEPT ![pump.revision][pump.event] = state]
    BY <1>4 DEF CommitDrafts, Conclude
  <2> QED BY <1>2, <1>4, <2>1 DEF CommitDrafts, Launched
<1>5. CASE ScriptEnds
  <2>1. UNCHANGED jobs \/ \E state \in {"failed", "unknown"} : jobs' = [jobs EXCEPT ![pump.revision][pump.event] = state]
    BY <1>5 DEF ScriptEnds, Conclude
  <2> QED BY <1>1, <1>2, <1>5, <2>1 DEF ScriptEnds, Launched
<1>6. CASE PinChanged
  <2>1. pump.revision \in Revisions /\ pump.step # "idle"
    BY <1>6, <1>t DEF PinChanged, PumpHasItsRun
  <2>2. PICK state \in {"failed", "unknown"} : jobs' = [CancelQueued(pump.revision) EXCEPT ![pump.revision][pump.event] = state]
    BY <1>6 DEF PinChanged
  <2>3. CancelQueued(pump.revision) \in JobRuns
        /\ (CancelQueued(pump.revision)[v][e] = jobs[v][e] \/ jobs[v][e] = "queued")
    BY <2>1, <1>t, CancelledOnes
  <2>4. jobs'[v][e] = state \/ jobs'[v][e] = CancelQueued(pump.revision)[v][e]
    BY <2>1, <2>2, <2>3, <1>p, <1>t DEF JobRuns
  <2> QED BY <1>1, <2>3, <2>4 DEF StaysLaunched, Launched
<1>7. ASSUME NEW l \in Listeners, Listen(l) PROVE StaysLaunched(v, e)
  <2> DEFINE f == log.cursor + 1
  <2>1. \/ UNCHANGED jobs
        \/ jobs' = [jobs EXCEPT ![l][f] = "complete"] /\ l = Rule
        \/ jobs' = [jobs EXCEPT ![l][f] = "queued"] /\ jobs[l][f] = "none"
    BY <1>7 DEF Listen, Enqueues
  <2>2. v # Rule
    BY DEF Revisions
  <2>3. jobs'[v][e] = jobs[v][e] \/ (jobs[v][e] = "none" /\ jobs'[v][e] = "queued")
    <3> HIDE DEF f
    <3> QED BY <2>1, <2>2, <1>t, <1>7 DEF JobRuns
  <2> QED BY <1>1, <2>3 DEF StaysLaunched, Launched
<1>8. CASE Granted
  <2>1. granting \in Revisions
    BY <1>8, <1>t DEF Granted, AutomationsTyped, Revisions
  <2> QED BY <1>1, <1>8, <2>1, <1>t, CancelledOnes DEF Granted
<1>9. ASSUME NEW u \in Revisions, Revoke(u) PROVE StaysLaunched(v, e)
  BY <1>1, <1>9, <1>t, CancelledOnes DEF Revoke
<1>10. ASSUME NEW u \in Revisions, NEW g \in Events, Dispatch(u, g) PROVE StaysLaunched(v, e)
  <2>1. u \in Listeners /\ jobs[u][g] = "queued" /\ (UNCHANGED jobs \/ jobs' = [jobs EXCEPT ![u][g] = "cancelled"])
    BY <1>10 DEF Dispatch, Queued, Listeners
  <2>2. jobs'[v][e] = jobs[v][e] \/ jobs[v][e] = "queued"
    BY <2>1, <1>t DEF JobRuns
  <2> QED BY <1>1, <2>2
<1>11. CASE CrashAutomations
  <2>1. jobs'[v][e] = IF jobs[v][e] = "running" THEN "unknown" ELSE jobs[v][e]
    BY <1>11, <1>t DEF CrashAutomations
  <2> QED BY <2>1 DEF StaysLaunched, Launched
<1>12. CommitEvent \/ SaveRule \/ Register \/ AskGrant \/ SwitchHooks \/ Consume \/ DrainEnds \/ (\E u \in Revisions : Expire(u))
       => UNCHANGED jobs
  BY DEF CommitEvent, SaveRule, Register, AskGrant, SwitchHooks, Consume, DrainEnds, Expire
<1>13. UNCHANGED auVars => UNCHANGED jobs
  BY DEF auVars
<1> QED BY <1>1, <1>3, <1>4, <1>5, <1>6, <1>7, <1>8, <1>9, <1>10, <1>11, <1>12, <1>13 DEF AutomationsNext

\* A script is launched once for an event, whatever happens to its run, its grant
\* and the runtime meanwhile: of every step.
THEOREM ScriptsRunOnce == AutomationsSpec => ScriptsLaunchOnce
<1>1. AutomationsInv /\ [AutomationsNext]_auVars
      => [\A v \in Revisions, e \in Events :
            jobs[v][e] \in Launched =>
              jobs'[v][e] \in Launched /\ (jobs'[v][e] = "running" => jobs[v][e] = "running")]_auVars
  BY LaunchedStep DEF StaysLaunched
<1> QED BY <1>1, AutomationsInvariant, PTL DEF AutomationsSpec, ScriptsLaunchOnce

----
(***************************************************************************)
(* Browsers: an action that was refused or revoked was not done.           *)
(***************************************************************************)

\* The specification of the browsers: the desktop and the runtime in any order.
BrowsersSpec == BrowsersInit /\ [][BrowsersNext]_brVars

\* The types of the tab and of an action.
Tabs == [task: BrowserTasks \cup {NoTask}, attachment: 0..MaxGenerations, generation: 0..MaxGenerations,
         attaching: BrowserTasks \cup {NoTask, "cancelled"}, loading: BOOLEAN, origin: Origins,
         authorized: Origins \cup {NoTask}, pending: Origins \cup {NoTask}, snapshot: BOOLEAN]
ActionStates == {"preparing", "awaiting-approval", "approved", "executing"} \cup Ended
ActionRow == [task: BrowserTasks, destination: Origins \cup {NoTask}, origin: Origins, generation: 0..MaxGenerations,
              attachment: 0..MaxGenerations, state: ActionStates, call: {"none", "prepare", "execute"},
              host: {"none", "sent", "queued", "running", "answered"}, code: {"ok", "stale", "failed", "unknown"},
              done: BOOLEAN]
\* Every variable of the browsers has its type.
BrowsersTyped ==
  /\ tab \in Tabs /\ actions \in Seq(ActionRow) /\ Len(actions) <= MaxActions /\ prepared \subseteq Acts
  /\ tabQueue \in Seq(Acts)
  /\ revokes \subseteq BrowserTasks /\ runtimeUp \in BOOLEAN

\* Where the record of an action, the call the desktop has of it and what was done
\* stand to each other: nothing is done before the call to execute runs, an answer
\* that says so ends it, and a call whose record was given up is of unknown outcome.
Told == {"executing", "complete", "unknown", "inspected"}
InStepRow(row) ==
  /\ row.state = "preparing" => row.call = "prepare"
  /\ row.state \in {"awaiting-approval", "approved"} => row.call = "none" /\ row.host = "none"
  /\ row.state = "executing" => row.call = "execute"
  /\ row.call = "execute" => row.state \in Told \ {"complete"}
  /\ row.done => row.state \in Told
  /\ row.call = "execute" /\ row.host \in {"sent", "queued"} => ~row.done
  /\ row.call = "execute" /\ row.host = "answered" =>
       row.code \in {"ok", "stale", "unknown"} /\ (row.code = "stale" => ~row.done)
ActionsInStep == \A a \in Acts : InStepRow(actions[a])

\* The inductive invariant of the browsers.
BrowsersInv == BrowsersTyped /\ ActionsInStep

\* BrowsersInv holds before the first page.
LEMMA BrowsersStart == BrowsersInit => BrowsersInv
<1> SUFFICES ASSUME BrowsersInit PROVE BrowsersInv
  OBVIOUS
<1>1. tab \in Tabs
  <2>1. PICK o \in Origins : tab = NewTab(o)
    BY DEF BrowsersInit
  <2>2. MaxGenerations \in Nat
    BY BrowsersAssumption
  <2> QED BY <2>1, <2>2 DEF NewTab, Tabs
<1>2. Acts = {}
  BY DEF BrowsersInit, Acts
<1> QED BY <1>1, <1>2, BrowsersAssumption DEF BrowsersInit, BrowsersInv, BrowsersTyped, ActionsInStep, Acts

\* One action's record changes.
LEMMA RowChanges ==
  ASSUME BrowsersInv, NEW a \in Acts, NEW row \in ActionRow, actions' = [actions EXCEPT ![a] = row],
         InStepRow(row)
  PROVE  /\ actions' \in Seq(ActionRow) /\ Len(actions') = Len(actions) /\ Acts' = Acts
         /\ ActionsInStep'
<1>1. actions \in Seq(ActionRow) /\ a \in 1..Len(actions)
  BY DEF BrowsersInv, BrowsersTyped, Acts
<1>2. /\ actions' \in Seq(ActionRow) /\ Len(actions') = Len(actions)
      /\ \A b \in 1..Len(actions) : actions'[b] = IF b = a THEN row ELSE actions[b]
  BY <1>1
<1> QED BY <1>2 DEF BrowsersInv, ActionsInStep, Acts

\* What follows for the whole invariant, when the desktop's side stays typed.
LEMMA RowsTyped ==
  ASSUME BrowsersInv, tab' \in Tabs, actions' \in Seq(ActionRow), Len(actions') = Len(actions), ActionsInStep',
         prepared' \subseteq Acts, tabQueue' \in Seq(Acts), revokes' \subseteq BrowserTasks, runtimeUp' \in BOOLEAN
  PROVE  BrowsersInv'
<1>1. Acts' = Acts
  BY DEF Acts
<1> QED BY <1>1 DEF BrowsersInv, BrowsersTyped

\* What a step may assume of the types.
LEMMA BrowserTypes ==
  ASSUME BrowsersInv
  PROVE  /\ tab \in Tabs /\ actions \in Seq(ActionRow) /\ prepared \subseteq Acts /\ tabQueue \in Seq(Acts)
         /\ revokes \subseteq BrowserTasks /\ runtimeUp \in BOOLEAN /\ Len(actions) <= MaxActions
         /\ \A a \in Acts : actions[a] \in ActionRow /\ InStepRow(actions[a])
<1>1. \A a \in Acts : actions[a] \in ActionRow
  BY DEF BrowsersInv, BrowsersTyped, Acts
<1> QED BY <1>1 DEF BrowsersInv, BrowsersTyped, ActionsInStep

\* What happens to the tab.
LEMMA TabMoves ==
  ASSUME tab \in Tabs
  PROVE  /\ CancelAttach(tab) \in Tabs /\ CancelAttach(tab).generation = tab.generation
         /\ \A t \in Tabs : t.generation < MaxGenerations => Shown(t) \in Tabs /\ Detached(t) \in Tabs
<1> USE BrowsersAssumption
<1>1. \A t \in Tabs : CancelAttach(t) \in Tabs /\ CancelAttach(t).generation = t.generation
  BY DEF CancelAttach, Tabs
<1>2. \A t \in Tabs : t.generation < MaxGenerations => Shown(t) \in Tabs
  <2>1. ASSUME NEW t \in Tabs, t.generation < MaxGenerations, NEW u \in Origins \cup {NoTask}
        PROVE  [t EXCEPT !.generation = t.generation + 1, !.snapshot = FALSE, !.authorized = u] \in Tabs
    <3>1. t.generation + 1 \in 0..MaxGenerations
      BY <2>1 DEF Tabs
    <3> QED BY <3>1 DEF Tabs
  <2>2. ASSUME NEW t \in Tabs PROVE t.authorized \in Origins \cup {NoTask}
    BY DEF Tabs
  <2> QED BY <2>1, <2>2 DEF Shown
<1>3. ASSUME NEW t \in Tabs
      PROVE  [t EXCEPT !.task = NoTask, !.attachment = 0, !.authorized = NoTask, !.pending = NoTask] \in Tabs
  <2>1. 0 \in 0..MaxGenerations
    OBVIOUS
  <2> QED BY <2>1 DEF Tabs
<1>4. \A t \in Tabs : t.generation < MaxGenerations => Detached(t) \in Tabs
  BY <1>1, <1>2, <1>3 DEF Detached
<1> QED BY <1>1, <1>2, <1>4

\* The steps of the page, the user and the sharing of the tab.
PageStep == \/ PageStarts \/ PageCommits \/ PageFails \/ UserInterrupts \/ EndAttach \/ Snapshot
            \/ \E t \in BrowserTasks : AskAttach(t) \/ HostRevoke(t)
\* The steps of the tab: attachments, loads and navigations.
LEMMA PageSteps == ASSUME BrowsersInv, PageStep PROVE BrowsersInv'
<1> USE BrowsersAssumption
<1>t. /\ tab \in Tabs /\ actions \in Seq(ActionRow) /\ prepared \subseteq Acts /\ tabQueue \in Seq(Acts)
      /\ revokes \subseteq BrowserTasks /\ runtimeUp \in BOOLEAN
  BY BrowserTypes
<1>1. UNCHANGED <<actions, tabQueue, runtimeUp>> /\ revokes' \subseteq BrowserTasks
  BY <1>t DEF PageStep, PageStarts, PageCommits, PageFails, UserInterrupts, EndAttach, Snapshot, AskAttach, HostRevoke
<1>2. prepared' \subseteq Acts
  BY <1>t DEF PageStep, PageStarts, PageCommits, PageFails, UserInterrupts, EndAttach, Snapshot, AskAttach, HostRevoke, NewGeneration
<1>3. CASE PageStarts
  <2>1. Shown(CancelAttach(tab)) \in Tabs
    BY <1>t, <1>3, TabMoves DEF PageStarts, NewGeneration, MayShow
  <2>2. tab' \in Tabs
    <3> DEFINE t == Shown(CancelAttach(tab))
               loads == tab.attaching = NoTask
    <3>1. tab' = [t EXCEPT !.loading = loads] /\ t \in Tabs /\ loads \in BOOLEAN
      BY <1>3, <2>1 DEF PageStarts, NewGeneration
    <3> HIDE DEF t, loads
    <3> QED BY <3>1 DEF Tabs
  <2> QED BY <1>t, <1>1, <1>2, <2>2, RowsTyped DEF BrowsersInv, ActionsInStep, Acts
<1>4. CASE PageCommits
  <2>1. PICK o \in Origins : tab' = [IF tab.pending \notin {NoTask, o}
                      THEN [Shown([tab EXCEPT !.origin = o]) EXCEPT !.pending = NoTask, !.authorized = NoTask]
                      ELSE Shown([tab EXCEPT !.origin = o]) EXCEPT !.loading = FALSE]
    BY <1>4 DEF PageCommits, NewGeneration
  <2>2. [tab EXCEPT !.origin = o] \in Tabs /\ [tab EXCEPT !.origin = o].generation < MaxGenerations
    BY <1>t, <1>4 DEF PageCommits, NewGeneration, MayShow, Tabs
  <2>3. Shown([tab EXCEPT !.origin = o]) \in Tabs
    BY <1>t, <2>2, TabMoves
  <2>4. \A t \in Tabs : [t EXCEPT !.pending = NoTask, !.authorized = NoTask] \in Tabs /\ [t EXCEPT !.loading = FALSE] \in Tabs
    BY DEF Tabs
  <2>5. tab' \in Tabs
    BY <2>1, <2>3, <2>4
  <2> QED BY <1>t, <1>1, <1>2, <2>5, RowsTyped DEF BrowsersInv, ActionsInStep, Acts
<1>5. CASE PageFails
  <2>1. tab' \in Tabs
    BY <1>t, <1>5 DEF PageFails, Tabs
  <2> QED BY <1>t, <1>1, <1>2, <2>1, RowsTyped DEF BrowsersInv, ActionsInStep, Acts
<1>6. CASE UserInterrupts
  <2>1. tab' \in Tabs
    BY <1>t, <1>6, TabMoves DEF UserInterrupts, NewGeneration, MayShow
  <2> QED BY <1>t, <1>1, <1>2, <2>1, RowsTyped DEF BrowsersInv, ActionsInStep, Acts
<1>7. CASE EndAttach
  <2>1. Shown(tab) \in Tabs /\ Detached(tab) \in Tabs
    BY <1>t, <1>7, TabMoves DEF EndAttach, NewGeneration, MayShow
  <2>2. \A t \in Tabs, g \in 0..MaxGenerations, s \in BrowserTasks \cup {NoTask}, o \in Origins :
          /\ [t EXCEPT !.task = s, !.attachment = g, !.authorized = o, !.attaching = NoTask] \in Tabs
          /\ [t EXCEPT !.attaching = NoTask] \in Tabs
    BY ZenonT(40) DEF Tabs
  <2>3. tab.attaching # "cancelled" => tab.attaching \in BrowserTasks \cup {NoTask}
    BY <1>t DEF Tabs
  <2>4. Shown(tab).generation \in 0..MaxGenerations /\ tab.origin \in Origins
    BY <1>t, <2>1 DEF Tabs
  <2>5. tab' \in Tabs
    <3>1. CASE tab' = [Detached(tab) EXCEPT !.attaching = NoTask]
      BY <2>1, <2>2, <2>4, <3>1
    <3>2. CASE /\ tab.attaching # "cancelled"
               /\ tab' = [Shown(tab) EXCEPT !.task = tab.attaching, !.attachment = Shown(tab).generation,
                                            !.authorized = tab.origin, !.attaching = NoTask]
      BY <2>1, <2>2, <2>3, <2>4, <3>2
    <3> QED BY <1>7, <3>1, <3>2 DEF EndAttach, NewGeneration
  <2> QED BY <1>t, <1>1, <1>2, <2>5, RowsTyped DEF BrowsersInv, ActionsInStep, Acts
<1>8. CASE Snapshot
  <2>1. tab' \in Tabs
    BY <1>t, <1>8 DEF Snapshot, Tabs
  <2> QED BY <1>t, <1>1, <1>2, <2>1, RowsTyped DEF BrowsersInv, ActionsInStep, Acts
<1>9. ASSUME NEW t \in BrowserTasks, AskAttach(t) \/ HostRevoke(t) PROVE BrowsersInv'
  <2>1. tab' \in Tabs
    <3>1. CASE AskAttach(t)
      BY <1>t, <3>1 DEF AskAttach, Tabs
    <3>2. CASE HostRevoke(t)
      BY <1>t, <3>2, TabMoves DEF HostRevoke, NewGeneration, MayShow
    <3> QED BY <1>9, <3>1, <3>2
  <2> QED BY <1>t, <1>1, <1>2, <2>1, RowsTyped DEF BrowsersInv, ActionsInStep, Acts
<1> QED BY <1>3, <1>4, <1>5, <1>6, <1>7, <1>8, <1>9 DEF PageStep

\* The steps of the desktop with a request.
HostStep(a) == HostReceives(a) \/ HostBegins(a) \/ HostPrepares(a) \/ HostActs(a) \/ HostFinishes(a)
\* The steps of the desktop on one action.
LEMMA HostSteps == ASSUME BrowsersInv, NEW a \in Acts, HostStep(a) PROVE BrowsersInv'
<1> USE BrowsersAssumption
<1>t. /\ tab \in Tabs /\ actions \in Seq(ActionRow) /\ prepared \subseteq Acts /\ tabQueue \in Seq(Acts)
      /\ revokes \subseteq BrowserTasks /\ runtimeUp \in BOOLEAN
      /\ actions[a] \in ActionRow /\ InStepRow(actions[a])
  BY BrowserTypes
<1>q. tabQueue # << >> => Tail(tabQueue) \in Seq(Acts)
  BY <1>t
<1>1. ASSUME NEW row \in ActionRow, actions' = [actions EXCEPT ![a] = row], InStepRow(row),
             tab' \in Tabs, prepared' \subseteq Acts, tabQueue' \in Seq(Acts), UNCHANGED <<revokes, runtimeUp>>
      PROVE  BrowsersInv'
  <2>1. actions' \in Seq(ActionRow) /\ Len(actions') = Len(actions) /\ ActionsInStep'
    BY <1>1, RowChanges
  <2> QED BY <1>t, <1>1, <2>1, RowsTyped
<1>2. ASSUME NEW code \in {"ok", "stale", "failed", "unknown"}, Answer(a, code),
             actions[a].call = "execute" => code # "failed" /\ (code = "stale" => ~actions[a].done),
             actions[a].host # "none",
             tab' \in Tabs, prepared' \subseteq Acts, tabQueue' \in Seq(Acts), UNCHANGED <<revokes, runtimeUp>>
      PROVE  BrowsersInv'
  <2> DEFINE row == [actions[a] EXCEPT !.host = "answered", !.code = code]
  <2>0. actions[a] \in ActionRow /\ InStepRow(actions[a])
    BY <1>t
  <2>1. row \in ActionRow /\ row.host = "answered" /\ row.code = code
    BY <2>0 DEF ActionRow
  <2>3. row.state = actions[a].state /\ row.call = actions[a].call /\ row.done = actions[a].done
    BY <2>0 DEF ActionRow
  <2>4. InStepRow(row)
    <3> HIDE DEF row
    <3> QED BY <1>2, <2>0, <2>1, <2>3 DEF InStepRow
  <2>2. actions' = [actions EXCEPT ![a] = row]
    BY <1>2 DEF Answer
  <2> QED BY <1>1, <1>2, <2>1, <2>2, <2>4
<1>3. ASSUME NEW host \in {"queued", "running"}, actions' = [actions EXCEPT ![a].host = host],
             actions[a].host \in {"sent", "queued"},
             tab' \in Tabs, prepared' \subseteq Acts, tabQueue' \in Seq(Acts), UNCHANGED <<revokes, runtimeUp>>
      PROVE  BrowsersInv'
  <2> DEFINE row == [actions[a] EXCEPT !.host = host]
  <2>1. row \in ActionRow /\ InStepRow(row)
    BY <1>t, <1>3 DEF ActionRow, InStepRow
  <2>2. actions' = [actions EXCEPT ![a] = row]
    BY <1>3
  <2> QED BY <1>1, <1>3, <2>1, <2>2
<1>4. CASE HostReceives(a)
  <2>1. UNCHANGED <<tab, prepared, revokes, runtimeUp>> /\ actions[a].host = "sent"
    BY <1>4 DEF HostReceives
  <2>2. CASE actions' = [actions EXCEPT ![a].host = "queued"] /\ tabQueue' = Append(tabQueue, a)
    BY <1>t, <1>3, <2>1, <2>2
  <2>3. CASE Answer(a, "stale") /\ UNCHANGED tabQueue
    BY <1>t, <1>2, <2>1, <2>3 DEF InStepRow
  <2> QED BY <1>4, <2>2, <2>3 DEF HostReceives
<1>5. CASE HostBegins(a)
  <2>1. UNCHANGED <<revokes, runtimeUp>> /\ actions[a].host = "queued" /\ Tail(tabQueue) \in Seq(Acts)
    BY <1>5, <1>q DEF HostBegins, AtHead
  <2>2. CASE Answer(a, "stale") /\ tabQueue' = Tail(tabQueue) /\ UNCHANGED <<tab, prepared>>
    BY <1>t, <1>2, <2>1, <2>2 DEF InStepRow
  <2>3. CASE actions' = [actions EXCEPT ![a].host = "running"] /\ UNCHANGED <<tab, prepared, tabQueue>>
    BY <1>t, <1>3, <2>1, <2>3
  <2>4. CASE /\ actions' = [actions EXCEPT ![a].host = "running"] /\ prepared' = prepared \ {a}
             /\ tab' = IF actions[a].destination = NoTask THEN tab
                       ELSE [tab EXCEPT !.pending = actions[a].destination, !.authorized = actions[a].destination]
             /\ UNCHANGED tabQueue
    <3>1. tab' \in Tabs
      <4>1. \A d \in Origins \cup {NoTask} : [tab EXCEPT !.pending = d, !.authorized = d] \in Tabs
        BY <1>t DEF Tabs
      <4>2. actions[a].destination \in Origins \cup {NoTask}
        BY <1>t DEF ActionRow
      <4> QED BY <1>t, <2>4, <4>1, <4>2
    <3> QED BY <1>t, <1>3, <2>1, <2>4, <3>1
  <2> QED BY <1>5, <2>2, <2>3, <2>4 DEF HostBegins
<1>6. CASE HostPrepares(a)
  <2>1. /\ UNCHANGED <<tab, revokes, runtimeUp>> /\ actions[a].host = "running" /\ actions[a].call = "prepare"
        /\ tabQueue' = Tail(tabQueue) /\ Tail(tabQueue) \in Seq(Acts)
    BY <1>6, <1>q DEF HostPrepares, AtHead
  <2>2. CASE Answer(a, "failed") /\ UNCHANGED prepared
    BY <1>t, <1>2, <2>1, <2>2
  <2>3. CASE /\ prepared' = prepared \cup {a}
             /\ actions' = [actions EXCEPT ![a].host = "answered", ![a].generation = tab.generation, ![a].origin = tab.origin,
                           ![a].attachment = tab.attachment, ![a].code = IF tab.attachment = 0 THEN "failed" ELSE "ok"]
    <3> DEFINE code == IF tab.attachment = 0 THEN "failed" ELSE "ok"
               row == [actions[a] EXCEPT !.host = "answered", !.generation = tab.generation, !.origin = tab.origin,
                                         !.attachment = tab.attachment, !.code = code]
    <3>1. tab.generation \in 0..MaxGenerations /\ tab.attachment \in 0..MaxGenerations /\ tab.origin \in Origins
      BY <1>t DEF Tabs
    <3>2. row \in ActionRow
      <4>1. code \in {"ok", "failed"}
        OBVIOUS
      <4> HIDE DEF code
      <4> QED BY <1>t, <3>1, <4>1 DEF ActionRow
    <3>3. InStepRow(row)
      <4>1. row.state = actions[a].state /\ row.call = "prepare" /\ row.host = "answered" /\ row.done = actions[a].done
        BY <1>t, <2>1 DEF ActionRow
      <4> HIDE DEF row
      <4> QED BY <1>t, <2>1, <4>1 DEF InStepRow
    <3>4. actions' = [actions EXCEPT ![a] = row]
      BY <2>3
    <3> HIDE DEF row
    <3> QED BY <1>t, <1>1, <2>1, <2>3, <3>2, <3>3, <3>4
  <2> QED BY <1>6, <2>2, <2>3 DEF HostPrepares
<1>7. CASE HostActs(a)
  <2> DEFINE row == [actions[a] EXCEPT !.done = TRUE]
  <2>1. row \in ActionRow /\ InStepRow(row)
    BY <1>t, <1>7 DEF HostActs, ActionRow, InStepRow
  <2>2. actions' = [actions EXCEPT ![a] = row]
    BY <1>7 DEF HostActs
  <2> QED BY <1>t, <1>1, <1>7, <2>1, <2>2 DEF HostActs
<1>8. CASE HostFinishes(a)
  <2>1. /\ UNCHANGED <<revokes, runtimeUp>> /\ actions[a].host = "running" /\ actions[a].call = "execute"
        /\ tabQueue' = Tail(tabQueue) /\ Tail(tabQueue) \in Seq(Acts)
    BY <1>8, <1>q DEF HostFinishes, AtHead
  <2>l. \A u \in Origins \cup {NoTask} : [[tab EXCEPT !.pending = NoTask, !.authorized = NoTask] EXCEPT !.authorized = u] \in Tabs
    BY <1>t DEF Tabs
  <2>m. [tab EXCEPT !.pending = NoTask, !.authorized = NoTask] \in Tabs
    BY <1>t DEF Tabs
  <2>2. CASE actions[a].done /\ Answer(a, "ok") /\ tab' # tab /\ prepared' = {} /\ tab' \in Tabs
    BY <1>t, <1>2, <2>1, <2>2
  <2>3. CASE actions[a].done /\ Answer(a, "ok")
             /\ NewGeneration(Shown(IF actions[a].destination # NoTask
                                    THEN [[tab EXCEPT !.pending = NoTask, !.authorized = NoTask] EXCEPT
                                           !.authorized = IF tab.pending = actions[a].destination /\ tab.origin = actions[a].destination
                                                          THEN tab.origin ELSE NoTask]
                                    ELSE tab))
    <3>1. \A u \in Origins \cup {NoTask} :
            [[tab EXCEPT !.pending = NoTask, !.authorized = NoTask] EXCEPT !.authorized = u].generation = tab.generation
      BY <1>t DEF Tabs
    <3>2. tab.origin \in Origins
      BY <1>t DEF Tabs
    <3>3. tab' \in Tabs /\ prepared' = {}
      BY <1>t, <2>3, <2>l, <3>1, <3>2, TabMoves DEF NewGeneration, MayShow
    <3> QED BY <1>2, <2>1, <2>3, <3>3
  <2>4. CASE ~actions[a].done /\ Answer(a, "stale") /\ UNCHANGED <<tab, prepared>>
    BY <1>t, <1>2, <2>1, <2>4
  <2>5. CASE /\ Answer(a, "unknown") /\ UNCHANGED prepared
             /\ tab' = IF actions[a].destination # NoTask THEN [tab EXCEPT !.pending = NoTask, !.authorized = NoTask] ELSE tab
    BY <1>t, <1>2, <2>1, <2>5, <2>m
  <2> QED BY <1>8, <2>3, <2>4, <2>5 DEF HostFinishes
<1> QED BY <1>4, <1>5, <1>6, <1>7, <1>8 DEF HostStep

\* The steps of the runtime with its record of an action.
RecordStep(a) == \/ AnswerArrives(a) \/ GiveUp(a) \/ ExecuteAction(a) \/ InspectUnknown(a)
                 \/ \E d \in {"approved", "rejected", "revoked"} : DecideAction(a, d)
\* The steps of the runtime on the record of one action.
LEMMA RecordSteps == ASSUME BrowsersInv, NEW a \in Acts, RecordStep(a) PROVE BrowsersInv'
<1> USE BrowsersAssumption
<1>t. /\ tab \in Tabs /\ actions \in Seq(ActionRow) /\ prepared \subseteq Acts /\ tabQueue \in Seq(Acts)
      /\ revokes \subseteq BrowserTasks /\ runtimeUp \in BOOLEAN
      /\ actions[a] \in ActionRow /\ InStepRow(actions[a])
  BY BrowserTypes
<1>1. ASSUME NEW row \in ActionRow, actions' = [actions EXCEPT ![a] = row], InStepRow(row),
             UNCHANGED <<tab, prepared, tabQueue, runtimeUp>>, revokes' \subseteq BrowserTasks
      PROVE  BrowsersInv'
  <2>1. actions' \in Seq(ActionRow) /\ Len(actions') = Len(actions) /\ ActionsInStep'
    BY <1>1, RowChanges
  <2> QED BY <1>t, <1>1, <2>1, RowsTyped
<1>2. CASE AnswerArrives(a)
  <2> DEFINE waits == Pending(a) /\ runtimeUp
             row == [actions[a] EXCEPT !.host = "none", !.call = IF waits THEN "none" ELSE @,
                                       !.state = IF waits THEN Outcome(actions[a].call, actions[a].code) ELSE @]
  <2>1. row \in ActionRow /\ InStepRow(row)
    <3>1. CASE ~waits
      <4>1. row = [actions[a] EXCEPT !.host = "none"]
        BY <1>t, <3>1 DEF ActionRow
      <4> QED BY <1>t, <1>2, <4>1 DEF ActionRow, InStepRow, AnswerArrives
    <3>2. CASE waits
      <4> DEFINE to == Outcome(actions[a].call, actions[a].code)
      <4>1. row = [actions[a] EXCEPT !.host = "none", !.call = "none", !.state = to]
        BY <3>2
      <4>2. \/ actions[a].state = "preparing" /\ actions[a].call = "prepare" /\ to \in {"awaiting-approval", "refused"}
            \/ /\ actions[a].state = "executing" /\ actions[a].call = "execute" /\ to \in {"complete", "revoked", "unknown"}
               /\ to = "revoked" => ~actions[a].done
        BY <1>t, <1>2, <3>2 DEF AnswerArrives, Pending, InStepRow, Outcome, ActionRow
      <4>3. actions[a].state = "preparing" => ~actions[a].done
        BY <1>t DEF InStepRow, Told
      <4> HIDE DEF to
      <4>4. to \in ActionStates
        BY <4>2 DEF ActionStates, Ended
      <4>5. row \in ActionRow
        BY <1>t, <4>1, <4>4 DEF ActionRow
      <4>6. row.state = to /\ row.call = "none" /\ row.host = "none" /\ row.done = actions[a].done
        BY <1>t, <4>1 DEF ActionRow
      <4> HIDE DEF row
      <4> QED BY <4>2, <4>3, <4>5, <4>6 DEF InStepRow, Told
    <3> QED BY <3>1, <3>2
  <2>2. actions' = [actions EXCEPT ![a] = row]
    BY <1>2 DEF AnswerArrives
  <2> QED BY <1>t, <1>1, <1>2, <2>1, <2>2 DEF AnswerArrives
<1> DEFINE ActionBecomes(to) ==
             /\ to \in ActionStates /\ actions' = [actions EXCEPT ![a].state = to]
             /\ \/ to \notin {"preparing", "awaiting-approval", "approved", "executing"}
                \/ actions[a].state = "awaiting-approval" /\ to = "approved"
             /\ actions[a].call = "execute" => to \in Told \ {"complete"}
             /\ actions[a].done => to \in Told
             /\ UNCHANGED <<tab, prepared, tabQueue, runtimeUp>> /\ revokes' \subseteq BrowserTasks
<1>3. ASSUME NEW to, ActionBecomes(to) PROVE BrowsersInv'
  <2> DEFINE row == [actions[a] EXCEPT !.state = to]
  <2>1. row \in ActionRow
    BY <1>t, <1>3 DEF ActionRow
  <2>2. /\ row.state = to /\ row.call = actions[a].call /\ row.host = actions[a].host
        /\ row.done = actions[a].done /\ row.code = actions[a].code
    BY <1>t DEF ActionRow
  <2>3. actions' = [actions EXCEPT ![a] = row]
    BY <1>3
  <2> HIDE DEF row
  <2>4. InStepRow(row)
    BY <1>t, <1>3, <2>2 DEF InStepRow
  <2> QED BY <1>1, <1>3, <2>1, <2>3, <2>4
<1> HIDE DEF ActionBecomes
<1>4. CASE GiveUp(a)
  <2>1. /\ GivenUp(a) \in {"refused", "unknown"} /\ (actions[a].call = "execute" => GivenUp(a) = "unknown")
        /\ (actions[a].done => GivenUp(a) = "unknown")
    BY <1>t, <1>4 DEF GiveUp, GivenUp, Pending, Outcome, InStepRow, Told, ActionRow
  <2>2. GivenUp(a) \in ActionStates
    BY <2>1 DEF ActionStates, Ended
  <2>3. /\ actions' = [actions EXCEPT ![a].state = GivenUp(a)]
        /\ UNCHANGED <<tab, prepared, tabQueue, runtimeUp>> /\ revokes' \subseteq BrowserTasks
    BY <1>t, <1>4 DEF GiveUp
  <2>4. "unknown" \in Told \ {"complete"}
    BY DEF Told
  <2>5. ActionBecomes(GivenUp(a))
    BY <2>1, <2>2, <2>3, <2>4 DEF ActionBecomes
  <2> QED BY <1>3, <2>5
<1>5. CASE ExecuteAction(a)
  <2>1. CASE actions' = [actions EXCEPT ![a].state = "executing", ![a].call = "execute", ![a].host = "sent"]
    <3> DEFINE row == [actions[a] EXCEPT !.state = "executing", !.call = "execute", !.host = "sent"]
    <3>1. row \in ActionRow /\ InStepRow(row)
      BY <1>t, <1>5 DEF ExecuteAction, ActionRow, InStepRow, ActionStates, Told
    <3>2. actions' = [actions EXCEPT ![a] = row]
      BY <2>1
    <3> QED BY <1>t, <1>1, <1>5, <3>1, <3>2 DEF ExecuteAction
  <2>2. CASE \E notSent \in {"revoked", "unknown"} : actions' = [actions EXCEPT ![a].state = notSent]
    <3>1. PICK notSent \in {"revoked", "unknown"} : actions' = [actions EXCEPT ![a].state = notSent]
      BY <2>2
    <3>2. actions[a].call = "none" /\ ~actions[a].done
      BY <1>t, <1>5 DEF ExecuteAction, InStepRow, Told
    <3>3. notSent \in ActionStates
      BY DEF ActionStates, Ended
    <3>4. UNCHANGED <<tab, prepared, tabQueue, runtimeUp>> /\ revokes' \subseteq BrowserTasks
      BY <1>t, <1>5 DEF ExecuteAction
    <3>5. ActionBecomes(notSent)
      BY <3>1, <3>2, <3>3, <3>4 DEF ActionBecomes
    <3> QED BY <1>3, <3>5
  <2> QED BY <1>5, <2>1, <2>2 DEF ExecuteAction
<1>6. CASE InspectUnknown(a)
  <2>1. /\ actions' = [actions EXCEPT ![a].state = "inspected"]
        /\ UNCHANGED <<tab, prepared, tabQueue, runtimeUp>> /\ revokes' \subseteq BrowserTasks
    BY <1>t, <1>6 DEF InspectUnknown
  <2>2. "inspected" \in ActionStates /\ "inspected" \in Told \ {"complete"}
    BY DEF ActionStates, Ended, Told
  <2>3. ActionBecomes("inspected")
    BY <2>1, <2>2 DEF ActionBecomes
  <2> QED BY <1>3, <2>3
<1>7. ASSUME NEW d \in {"approved", "rejected", "revoked"}, DecideAction(a, d) PROVE BrowsersInv'
  <2>1. actions[a].call = "none" /\ ~actions[a].done /\ actions[a].task \in BrowserTasks
    BY <1>t, <1>7 DEF DecideAction, InStepRow, Told, ActionRow
  <2>2. d \in ActionStates
    BY DEF ActionStates, Ended
  <2>3. /\ actions' = [actions EXCEPT ![a].state = d] /\ actions[a].state = "awaiting-approval"
        /\ UNCHANGED <<tab, prepared, tabQueue, runtimeUp>> /\ revokes' \subseteq BrowserTasks
    BY <1>t, <1>7, <2>1 DEF DecideAction
  <2>4. ActionBecomes(d)
    BY <2>1, <2>2, <2>3 DEF ActionBecomes
  <2> QED BY <1>3, <2>4
<1> QED BY <1>2, <1>4, <1>5, <1>6, <1>7 DEF RecordStep

\* A new action, and the two processes' ends.
LEMMA Proposed ==
  ASSUME BrowsersInv, NEW t \in BrowserTasks, NEW d \in Origins \cup {NoTask}, ProposeAction(t, d) PROVE BrowsersInv'
<1> USE BrowsersAssumption
<1>t. /\ tab \in Tabs /\ actions \in Seq(ActionRow) /\ prepared \subseteq Acts /\ tabQueue \in Seq(Acts)
      /\ revokes \subseteq BrowserTasks /\ runtimeUp \in BOOLEAN
      /\ \A a \in Acts : InStepRow(actions[a])
  BY BrowserTypes
<1> DEFINE row == [task |-> t, destination |-> d, origin |-> tab.origin, generation |-> 0,
                   attachment |-> 0, state |-> "preparing", call |-> "prepare", host |-> "sent",
                   code |-> "ok", done |-> FALSE]
<1>1. actions' = Append(actions, row)
  BY DEF ProposeAction
<1>2. row \in ActionRow /\ InStepRow(row)
  <2>1. tab.origin \in Origins /\ 0 \in 0..MaxGenerations
    BY <1>t DEF Tabs
  <2> QED BY <2>1 DEF ActionRow, ActionStates, InStepRow, Told
<1> HIDE DEF row
<1>3. /\ actions' \in Seq(ActionRow) /\ Len(actions') = Len(actions) + 1 /\ Len(actions) \in Nat
      /\ \A a \in 1..Len(actions') : actions'[a] = IF a = Len(actions) + 1 THEN row ELSE actions[a]
  BY <1>t, <1>1, <1>2
<1>4. Len(actions') <= MaxActions
  BY <1>3 DEF ProposeAction
<1>5. Acts \subseteq Acts'
  BY <1>3 DEF Acts
<1>6. ActionsInStep'
  <2>1. ASSUME NEW a \in 1..Len(actions') PROVE InStepRow(actions'[a])
    <3>1. a # Len(actions) + 1 => a \in Acts
      BY <1>3 DEF Acts
    <3> QED BY <1>t, <1>2, <1>3, <3>1
  <2> QED BY <2>1 DEF ActionsInStep, Acts
<1>7. UNCHANGED <<tab, prepared, tabQueue, revokes, runtimeUp>>
  BY DEF ProposeAction
<1>8. tabQueue \in Seq(Acts')
  BY <1>t, <1>5
<1> QED BY <1>t, <1>3, <1>4, <1>5, <1>6, <1>7, <1>8 DEF BrowsersInv, BrowsersTyped

\* The runtime ends: its actions are given up.
LEMMA RuntimeGone == BrowsersInv /\ RuntimeEnds => BrowsersInv'
<1> SUFFICES ASSUME BrowsersInv, RuntimeEnds PROVE BrowsersInv'
  OBVIOUS
<1> USE BrowsersAssumption
<1>t. /\ tab \in Tabs /\ actions \in Seq(ActionRow) /\ prepared \subseteq Acts /\ tabQueue \in Seq(Acts)
      /\ \A a \in Acts : actions[a] \in ActionRow /\ InStepRow(actions[a])
  BY BrowserTypes
<1>1. \A state \in ActionStates : RecoveredApproval(state) \in ActionStates
  BY DEF RecoveredApproval, ActionStates, Ended
<1>2. \A a \in Acts : [actions[a] EXCEPT !.state = RecoveredApproval(@)] \in ActionRow
                      /\ InStepRow([actions[a] EXCEPT !.state = RecoveredApproval(@)])
  <2>1. ASSUME NEW row \in ActionRow, InStepRow(row)
        PROVE  [row EXCEPT !.state = RecoveredApproval(@)] \in ActionRow
               /\ InStepRow([row EXCEPT !.state = RecoveredApproval(@)])
    <3> DEFINE to == [row EXCEPT !.state = RecoveredApproval(@)]
    <3>1. row.state \in ActionStates
      BY DEF ActionRow
    <3>2. to \in ActionRow
      BY <1>1, <3>1 DEF ActionRow
    <3>3. /\ to.state = RecoveredApproval(row.state) /\ to.call = row.call /\ to.host = row.host
          /\ to.done = row.done /\ to.code = row.code
      BY DEF ActionRow
    <3>4. /\ RecoveredApproval(row.state) \notin {"preparing", "awaiting-approval", "approved", "executing"}
          /\ row.state \in Told => RecoveredApproval(row.state) \in Told
          /\ row.state \in Told \ {"complete"} => RecoveredApproval(row.state) \in Told \ {"complete"}
      BY <3>1 DEF RecoveredApproval, ActionStates, Ended, Told
    <3> HIDE DEF to
    <3>5. InStepRow(to)
      BY <2>1, <3>3, <3>4 DEF InStepRow
    <3> QED BY <3>2, <3>5 DEF to
  <2> QED BY <1>t, <2>1
<1>3. actions' = [a \in 1..Len(actions) |-> [actions[a] EXCEPT !.state = RecoveredApproval(@)]]
  BY DEF RuntimeEnds, Acts
<1>4. actions' \in Seq(ActionRow) /\ Len(actions') = Len(actions)
  <2>1. \A a \in 1..Len(actions) : [actions[a] EXCEPT !.state = RecoveredApproval(@)] \in ActionRow
    BY <1>2 DEF Acts
  <2>2. Len(actions) \in Nat
    BY <1>t
  <2>3. actions' \in [1..Len(actions) -> ActionRow]
    BY <1>3, <2>1
  <2> QED BY <2>2, <2>3
<1>5. ActionsInStep'
  BY <1>2, <1>3, <1>4 DEF ActionsInStep, Acts
<1>6. tab' \in Tabs /\ prepared' = {}
  BY <1>t, TabMoves DEF RuntimeEnds, NewGeneration, MayShow
<1> QED BY <1>t, <1>4, <1>5, <1>6, RowsTyped DEF RuntimeEnds

\* The desktop is started again with a new tab.
LEMMA DesktopAgain == BrowsersInv /\ DesktopRestarts => BrowsersInv'
<1> SUFFICES ASSUME BrowsersInv, DesktopRestarts PROVE BrowsersInv'
  OBVIOUS
<1> USE BrowsersAssumption
<1>t. /\ tab \in Tabs /\ actions \in Seq(ActionRow) /\ revokes \subseteq BrowserTasks
      /\ \A a \in Acts : actions[a] \in ActionRow /\ InStepRow(actions[a])
  BY BrowserTypes
<1>1. \A a \in Acts : [actions[a] EXCEPT !.host = "none"] \in ActionRow /\ InStepRow([actions[a] EXCEPT !.host = "none"])
  <2>1. ASSUME NEW row \in ActionRow, InStepRow(row)
        PROVE  [row EXCEPT !.host = "none"] \in ActionRow /\ InStepRow([row EXCEPT !.host = "none"])
    <3> DEFINE to == [row EXCEPT !.host = "none"]
    <3>1. to \in ActionRow /\ to.state = row.state /\ to.call = row.call /\ to.host = "none" /\ to.done = row.done
      BY DEF ActionRow
    <3> HIDE DEF to
    <3>2. InStepRow(to)
      BY <2>1, <3>1 DEF InStepRow
    <3> QED BY <3>1, <3>2 DEF to
  <2> QED BY <1>t, <2>1
<1>2. actions' = [a \in 1..Len(actions) |-> [actions[a] EXCEPT !.host = "none"]]
  BY DEF DesktopRestarts, Acts
<1>3. actions' \in Seq(ActionRow) /\ Len(actions') = Len(actions)
  BY <1>t, <1>1, <1>2 DEF Acts
<1>4. ActionsInStep'
  BY <1>1, <1>2, <1>3 DEF ActionsInStep, Acts
<1>5. tab' \in Tabs
  <2>1. tab.origin \in Origins /\ tab.generation \in 0..MaxGenerations /\ 0 \in 0..MaxGenerations
    BY <1>t DEF Tabs
  <2>2. NewTab(tab.origin) \in Tabs
    BY <2>1 DEF NewTab, Tabs
  <2> QED BY <2>1, <2>2 DEF DesktopRestarts, Tabs
<1>6. prepared' = {} /\ tabQueue' = << >> /\ revokes' = revokes /\ runtimeUp' = TRUE /\ << >> \in Seq(Acts)
  BY DEF DesktopRestarts
<1> QED BY <1>t, <1>3, <1>4, <1>5, <1>6, RowsTyped

\* Every step keeps BrowsersInv.
LEMMA BrowsersStep == BrowsersInv /\ [BrowsersNext]_brVars => BrowsersInv'
<1> SUFFICES ASSUME BrowsersInv, [BrowsersNext]_brVars PROVE BrowsersInv'
  OBVIOUS
<1>1. CASE PageStep
  BY <1>1, PageSteps
<1>2. CASE \E a \in Acts : HostStep(a)
  BY <1>2, HostSteps
<1>3. CASE \E a \in Acts : RecordStep(a)
  BY <1>3, RecordSteps
<1>4. CASE \E t \in BrowserTasks, d \in Origins \cup {NoTask} : ProposeAction(t, d)
  BY <1>4, Proposed
<1>5. CASE RuntimeEnds \/ DesktopRestarts
  BY <1>5, RuntimeGone, DesktopAgain
<1>6. CASE UNCHANGED brVars
  BY <1>6 DEF brVars, BrowsersInv, BrowsersTyped, ActionsInStep, Acts
<1> QED BY <1>1, <1>2, <1>3, <1>4, <1>5, <1>6 DEF BrowsersNext, PageStep, HostStep, RecordStep

\* BrowsersInv holds in every reachable state.
LEMMA BrowsersInvariant == BrowsersSpec => []BrowsersInv
BY BrowsersStart, BrowsersStep, PTL DEF BrowsersSpec

\* The tab, the actions and the queues between the two processes hold what they are
\* declared to.
THEOREM BrowsersTypeCorrect == BrowsersSpec => []BrowsersTypeOK
<1>1. BrowsersInv => BrowsersTypeOK
  <2> SUFFICES ASSUME BrowsersInv PROVE BrowsersTypeOK
    OBVIOUS
  <2>1. \A a \in Acts : actions[a] \in ActionRow
    BY BrowserTypes
  <2>2. \A i \in DOMAIN tabQueue : tabQueue[i] \in Acts
    BY BrowserTypes
  <2> QED BY <2>1, <2>2 DEF BrowsersInv, BrowsersTyped, BrowsersTypeOK, Tabs, ActionRow, ActionStates
<1> QED BY <1>1, BrowsersInvariant, PTL

\* An action that was carried out is never reported as rejected, revoked, failed or
\* refused, for any pages and actions and whichever process ends in between.
THEOREM BrowsersTellTheTruth == BrowsersSpec => []NotDoneAsReported
<1>1. BrowsersInv => NotDoneAsReported
  BY DEF BrowsersInv, ActionsInStep, InStepRow, Told, NotDoneAsReported
<1> QED BY <1>1, BrowsersInvariant, PTL

----
(***************************************************************************)
(* Schedules: the code's search finds the latest day that was due, in any  *)
(* zone that does not show again what it skipped.                          *)
(***************************************************************************)

SchedulesSpec == SchedulesInit /\ [][SchedulesNext]_scVars

\* Quotient and remainder.
LEMMA DivMod ==
  ASSUME NEW a \in Int, NEW n \in Nat \ {0}
  PROVE  a = n * (a \div n) + (a % n) /\ a % n \in 0..(n - 1) /\ a \div n \in Int
OBVIOUS

\* A multiple is at least one multiplicand below the next.
LEMMA NextMultiple ==
  ASSUME NEW n \in Nat \ {0}, NEW k \in Int, NEW m \in Int, k < m
  PROVE  n * k + n <= n * m
OBVIOUS

\* A remainder is determined.
LEMMA OneRemainder ==
  ASSUME NEW n \in Nat \ {0}, NEW q \in Int, NEW r \in 0..(n - 1)
  PROVE  (n * q + r) % n = r
OBVIOUS

\* Numbers with the same remainder lie n apart.
LEMMA SameRemainder ==
  ASSUME NEW n \in Nat \ {0}, NEW a \in Int, NEW b \in Int, a % n = b % n, a < b
  PROVE  a + n <= b
<1> DEFINE q == a \div n
           p == b \div n
           r == a % n
<1>1. a = n * q + r /\ b = n * p + r /\ r \in Int /\ q \in Int /\ p \in Int
  BY DivMod
<1> HIDE DEF q, p, r
<1>2. q < p
  <2> SUFFICES ASSUME p <= q PROVE FALSE
    BY <1>1
  <2>1. n * p <= n * q
    BY <1>1, NextMultiple
  <2>2. n * p \in Int /\ n * q \in Int
    BY <1>1
  <2> QED BY <1>1, <2>1, <2>2
<1>3. n * q + n <= n * p
  BY <1>1, <1>2, NextMultiple
<1>4. n * p \in Int /\ n * q \in Int
  BY <1>1
<1> QED BY <1>1, <1>3, <1>4

\* What lies n before has the same remainder.
LEMMA RemainderBefore ==
  ASSUME NEW n \in Nat \ {0}, NEW a \in Int
  PROVE  (a - n) % n = a % n
<1> DEFINE q == a \div n
           r == a % n
<1>1. a = n * q + r /\ r \in 0..(n - 1) /\ q \in Int /\ q - 1 \in Int
  BY DivMod
<1> HIDE DEF q, r
<1>2. a - n = n * (q - 1) + r
  BY <1>1
<1>3. (a - n) % n = r
  BY <1>1, <1>2, OneRemainder
<1> QED BY <1>3 DEF r

\* Every n numbers in a row have one with a given remainder.
LEMMA RemainderInWindow ==
  ASSUME NEW n \in Nat \ {0}, NEW a \in Int, NEW r \in 0..(n - 1)
  PROVE  \E d \in (a - n + 1)..a : d % n = r
<1> DEFINE b == a - r
           q == b \div n
           k == b % n
           d == a - k
<1>1. b \in Int /\ b = n * q + k /\ k \in 0..(n - 1) /\ q \in Int
  BY DivMod
<1> HIDE DEF q, k
<1>2. d = n * q + r /\ d \in (a - n + 1)..a
  BY <1>1
<1>3. d % n = r
  BY <1>1, <1>2, OneRemainder
<1> QED BY <1>2, <1>3

----
\* The wall time that a schedule names on a day.
TargetOf(day, time) == day * DayLength + time

\* The constants' types, and those of what is computed from them.
LEMMA ZoneFacts ==
  /\ LastInstant \in Nat /\ DayLength \in Nat \ {0} /\ WeekLength \in Nat \ {0} /\ Instants = 0..LastInstant
  /\ \A t \in Instants : ZoneOffset[t] \in Nat /\ Wall(t) \in Nat /\ LocalDay(t) \in Nat
  /\ \A t \in Instants : TargetOf(LocalDay(t), 0) <= Wall(t) /\ Wall(t) < TargetOf(LocalDay(t), 0) + DayLength
  /\ \A day \in Int : \A time \in Int : TargetOf(day, time) \in Int /\ TargetOf(day, time) = TargetOf(day, 0) + time
  /\ \A day, later \in Int : day < later => TargetOf(day, 0) + DayLength <= TargetOf(later, 0)
<1>1. LastInstant \in Nat /\ DayLength \in Nat \ {0} /\ WeekLength \in Nat \ {0} /\ Instants = 0..LastInstant
  BY SchedulesAssumption DEF Instants
<1>2. \A t \in Instants : ZoneOffset[t] \in Nat /\ Wall(t) \in Nat
  BY <1>1, SchedulesAssumption DEF Wall
<1>3. ASSUME NEW t \in Instants
      PROVE  /\ LocalDay(t) \in Nat
             /\ TargetOf(LocalDay(t), 0) <= Wall(t) /\ Wall(t) < TargetOf(LocalDay(t), 0) + DayLength
  <2> DEFINE w == Wall(t)
             q == w \div DayLength
             k == w % DayLength
  <2>1. w \in Nat /\ w \in Int
    BY <1>2
  <2> HIDE DEF w
  <2>2. w = DayLength * q + k /\ k \in 0..(DayLength - 1) /\ q \in Int
    BY <1>1, <2>1, DivMod
  <2> HIDE DEF q, k
  <2>3. q >= 0
    <3> SUFFICES ASSUME q < 0 PROVE FALSE
      BY <2>2
    <3>1. DayLength * q + DayLength <= DayLength * 0
      BY <1>1, <2>2, NextMultiple
    <3>2. DayLength * 0 = 0 /\ DayLength * q \in Int
      BY <1>1, <2>2
    <3> QED BY <1>1, <2>1, <2>2, <3>1, <3>2
  <2>4. LocalDay(t) = q /\ TargetOf(q, 0) = DayLength * q /\ DayLength * q \in Int
    BY <1>1, <2>2 DEF LocalDay, TargetOf, q, w
  <2> QED BY <1>1, <2>2, <2>3, <2>4 DEF w
<1>4. \A day \in Int : \A time \in Int : TargetOf(day, time) \in Int /\ TargetOf(day, time) = TargetOf(day, 0) + time
  BY <1>1 DEF TargetOf
<1>5. ASSUME NEW day \in Int, NEW later \in Int, day < later PROVE TargetOf(day, 0) + DayLength <= TargetOf(later, 0)
  <2>1. DayLength * day + DayLength <= DayLength * later
    BY <1>1, <1>5, NextMultiple
  <2>2. TargetOf(day, 0) = DayLength * day /\ TargetOf(later, 0) = DayLength * later
    BY <1>1 DEF TargetOf
  <2> QED BY <2>1, <2>2
<1> QED BY <1>1, <1>2, <1>3, <1>4, <1>5

\* The earliest of some instants.
LEMMA Earliest ==
  ASSUME NEW S \in SUBSET Nat, S # {}
  PROVE  Smallest(S) \in S /\ \A x \in S : Smallest(S) <= x
<1>1. \E x \in S : \A y \in S : x <= y
  BY LeastNumber
<1> QED BY <1>1, Zenon DEF Smallest

\* What the code resolves a wall time to is the instant that first passes it.
LEMMA ResolvedIsFirst ==
  ASSUME NEW day \in Int, NEW time \in Nat
  PROVE  /\ Resolved(day, time) \in Nat
         /\ \A t \in Instants : Wall(t) >= TargetOf(day, time) => Resolved(day, time) <= t
         /\ \A t \in Instants : Resolved(day, time) <= t => \E u \in 0..t : Wall(u) >= TargetOf(day, time)
<1> DEFINE w == TargetOf(day, time)
           r == Resolved(day, time)
           p == day * DayLength
<1>0. LastInstant \in Nat /\ Instants = 0..LastInstant /\ \A t \in Instants : Wall(t) \in Nat /\ ZoneOffset[t] \in Nat
  BY ZoneFacts
<1>a. p \in Int /\ time \in Int /\ w = p + time
  BY ZoneFacts DEF TargetOf
<1>b. Candidates(day, time) = {p + time - ZoneOffset[t] : t \in Instants}
  BY DEF Candidates
<1>c. /\ Exact(day, time) = {t \in Candidates(day, time) \cap Instants : Wall(t) = w}
      /\ AfterGap(day, time) = {t \in Instants : (\E c \in Candidates(day, time) : c <= t) /\ Wall(t) >= w}
  BY DEF Exact, AfterGap, TargetOf
<1> HIDE DEF p, w
<1>1. Exact(day, time) = {t \in Instants : Wall(t) = w}
  <2>1. ASSUME NEW t \in Instants, Wall(t) = w PROVE t \in Candidates(day, time)
    <3>1. t \in Int /\ ZoneOffset[t] \in Int /\ w = p + time /\ p \in Int /\ time \in Int /\ w = t + ZoneOffset[t]
      BY <1>0, <1>a, <2>1 DEF Wall
    <3>2. t = p + time - ZoneOffset[t]
      BY <3>1
    <3> QED BY <1>b, <3>2
  <2> QED BY <1>c, <2>1
<1>2. AfterGap(day, time) = {t \in Instants : Wall(t) >= w}
  <2>1. ASSUME NEW t \in Instants, Wall(t) >= w PROVE \E c \in Candidates(day, time) : c <= t
    <3>1. t \in Int /\ ZoneOffset[t] \in Int /\ w = p + time /\ p \in Int /\ time \in Int /\ w <= t + ZoneOffset[t]
      BY <1>0, <1>a, <2>1 DEF Wall
    <3>2. p + time - ZoneOffset[t] <= t
      BY <3>1
    <3> QED BY <1>b, <3>2
  <2> QED BY <1>c, <2>1
<1>d. w \in Int
  BY <1>a
<1>3. CASE Exact(day, time) # {}
  <2> DEFINE E == Exact(day, time)
  <2>1. E \in SUBSET Nat /\ E \subseteq Instants
    BY <1>0, <1>1
  <2>2. r = Smallest(E)
    BY <1>3 DEF Resolved
  <2>3. r \in E /\ \A x \in E : r <= x
    <3> HIDE DEF E, r
    <3> QED BY <1>3, <2>1, <2>2, Earliest DEF E
  <2>4. r \in Instants /\ Wall(r) = w
    BY <1>1, <2>3
  <2> HIDE DEF r
  <2>5. ASSUME NEW t \in Instants, Wall(t) >= w PROVE r <= t
    <3> SUFFICES ASSUME t < r PROVE FALSE
      BY <1>0, <2>4
    <3>1. Wall(t) # w
      <4> SUFFICES ASSUME Wall(t) = w PROVE FALSE
        OBVIOUS
      <4>1. t \in E
        BY <1>1
      <4> QED BY <1>0, <2>3, <2>4, <4>1
    <3>2. Wall(r) < Wall(t)
      BY <1>0, <1>d, <2>4, <2>5, <3>1
    <3>3. PICK v \in 0..(t - 1) : Wall(v) = Wall(r)
      BY <2>4, <3>2, ZoneAssumption
    <3>4. v \in Instants /\ v < r
      BY <1>0, <2>4, <3>3
    <3>5. v \in E
      BY <1>1, <2>4, <3>3, <3>4
    <3> QED BY <1>0, <2>3, <2>4, <3>4, <3>5
  <2>6. ASSUME NEW t \in Instants, r <= t PROVE \E u \in 0..t : Wall(u) >= w
    <3>1. r \in 0..t /\ Wall(r) >= w
      BY <1>0, <2>4, <2>6
    <3> QED BY <3>1
  <2>7. r \in Nat
    BY <1>0, <2>4
  <2> QED BY <2>5, <2>6, <2>7 DEF r, w
<1>4. CASE Exact(day, time) = {} /\ AfterGap(day, time) # {}
  <2> DEFINE E == AfterGap(day, time)
  <2>1. E \in SUBSET Nat
    BY <1>0, <1>2
  <2>2. r = Smallest(E)
    BY <1>4 DEF Resolved
  <2>3. r \in E /\ \A x \in E : r <= x
    <3> HIDE DEF E, r
    <3> QED BY <1>4, <2>1, <2>2, Earliest DEF E
  <2>4. r \in Instants /\ Wall(r) >= w /\ \A t \in Instants : Wall(t) >= w => r <= t
    BY <1>2, <2>3
  <2> HIDE DEF r
  <2>5. ASSUME NEW t \in Instants, r <= t PROVE \E u \in 0..t : Wall(u) >= w
    <3>1. r \in 0..t
      BY <1>0, <2>4, <2>5
    <3> QED BY <2>4, <3>1
  <2>6. r \in Nat
    BY <1>0, <2>4
  <2> QED BY <2>4, <2>5, <2>6 DEF r, w
<1>5. CASE Exact(day, time) = {} /\ AfterGap(day, time) = {}
  <2>1. r = LastInstant + 1
    BY <1>5 DEF Resolved
  <2>2. \A t \in Instants : ~(Wall(t) >= w)
    BY <1>2, <1>5
  <2>3. \A t \in Instants : ~(r <= t) /\ r \in Nat
    BY <1>0, <2>1
  <2> HIDE DEF r
  <2> QED BY <1>0, <2>1, <2>2, <2>3 DEF r, w
<1> QED BY <1>3, <1>4, <1>5

\* What is resolved is reached at that instant, and later days are not before it.
LEMMA ResolvedInOrder ==
  ASSUME NEW day \in Int, NEW time \in Nat, NEW later \in Int, day <= later, Resolved(later, time) \in Instants
  PROVE  /\ Wall(Resolved(later, time)) >= TargetOf(later, time)
         /\ Resolved(day, time) <= Resolved(later, time)
<1> DEFINE r == Resolved(later, time)
<1>a. LastInstant \in Nat /\ Instants = 0..LastInstant /\ \A t \in Instants : Wall(t) \in Nat
  BY ZoneFacts
<1>b. time \in Int /\ r \in Instants
  OBVIOUS
<1>0. /\ LastInstant \in Nat /\ Instants = 0..LastInstant /\ time \in Int /\ r \in Instants
      /\ \A t \in Instants : Wall(t) \in Nat
  BY <1>a, <1>b
<1>1. /\ \A t \in Instants : Wall(t) >= TargetOf(later, time) => r <= t
      /\ \A t \in Instants : r <= t => \E u \in 0..t : Wall(u) >= TargetOf(later, time)
  BY ResolvedIsFirst
<1> HIDE DEF r
<1>2. Wall(r) >= TargetOf(later, time)
  <2>1. r <= r
    BY <1>0
  <2>2. PICK u \in 0..r : Wall(u) >= TargetOf(later, time)
    BY <1>0, <1>1, <2>1
  <2>3. u \in Instants /\ r <= u
    BY <1>0, <1>1, <2>2
  <2>4. u = r
    BY <1>0, <2>3
  <2> QED BY <2>2, <2>4
<1>3. TargetOf(day, time) <= TargetOf(later, time) /\ TargetOf(day, time) \in Int /\ TargetOf(later, time) \in Int
  <2>1. TargetOf(day, 0) \in Int /\ TargetOf(later, 0) \in Int /\ DayLength \in Nat
    BY ZoneFacts
  <2>2. TargetOf(day, 0) <= TargetOf(later, 0)
    <3>1. CASE day = later
      BY <2>1, <3>1
    <3>2. CASE day < later
      <4>1. TargetOf(day, 0) + DayLength <= TargetOf(later, 0)
        BY <3>2, ZoneFacts
      <4> QED BY <2>1, <4>1
    <3> QED BY <3>1, <3>2
  <2>3. TargetOf(day, time) = TargetOf(day, 0) + time /\ TargetOf(later, time) = TargetOf(later, 0) + time
    BY <1>0, ZoneFacts
  <2> QED BY <1>0, <2>1, <2>2, <2>3
<1>4. Wall(r) >= TargetOf(day, time)
  BY <1>0, <1>2, <1>3
<1>5. Resolved(day, time) <= r
  BY <1>0, <1>4, ResolvedIsFirst
<1> QED BY <1>2, <1>5 DEF r

\* The types of a schedule, and the local days.
LEMMA ScheduleFacts ==
  ASSUME NEW s \in ScheduleData
  PROVE  /\ s.cadence \in {"once", "daily", "weekly"} /\ s.weekDay \in 0..(WeekLength - 1)
         /\ s.time \in Nat /\ s.time < DayLength /\ s.startAt \in Instants
         /\ StartDay(s) \in LocalDays /\ StartDay(s) \in Nat
         /\ LocalDays \subseteq Nat /\ \A t \in Instants : 0..LocalDay(t) \subseteq LocalDays
<1>1. s.cadence \in {"once", "daily", "weekly"} /\ s.weekDay \in 0..(WeekLength - 1) /\ s.time \in WallTimes /\ s.startAt \in StartInstants
      /\ s.startDate \in StartDates
  BY DEF ScheduleData
<1>2. s.time \in 0..(DayLength - 1) /\ s.startAt \in Instants /\ DayLength \in Nat
  BY <1>1, SchedulesAssumption DEF Instants
<1>4. LocalDays \subseteq Nat
  BY ZoneFacts DEF LocalDays
<1>5. \A t \in Instants : 0..LocalDay(t) \subseteq LocalDays
  BY DEF LocalDays
<1>3. StartDay(s) \in LocalDays
  <2>1. CASE s.startDate = NoDate
    <3>1. LocalDay(s.startAt) \in Nat
      BY <1>2, ZoneFacts
    <3>2. LocalDay(s.startAt) \in 0..LocalDay(s.startAt)
      BY <3>1
    <3> QED BY <1>2, <1>5, <2>1, <3>2 DEF StartDay
  <2>2. CASE s.startDate # NoDate
    BY <1>1, <2>2, StartDatesAssumption DEF StartDay
  <2> QED BY <2>1, <2>2
<1>6. StartDay(s) \in LocalDays /\ StartDay(s) \in Nat
  BY <1>3, <1>4
<1> QED BY <1>1, <1>2, <1>4, <1>5, <1>6

\* A day is due when the code's instant for it is one at which the schedule was active.
LEMMA DueMeans ==
  ASSUME NEW s \in ScheduleData, clock \in Instants, NEW d \in LocalDays
  PROVE  d \in DueDays(s) <=>
           /\ d >= StartDay(s) /\ Resolved(d, s.time) >= s.startAt /\ Resolved(d, s.time) <= clock
           /\ IF s.cadence = "once" THEN d = StartDay(s) ELSE d <= LocalDay(clock)
           /\ s.cadence = "weekly" => d % WeekLength = s.weekDay
<1> DEFINE r == Resolved(d, s.time)
           w == TargetOf(d, s.time)
<1>a. d \in Nat /\ s.time \in Nat /\ s.startAt \in Instants
  BY ScheduleFacts
<1>b. d \in Int /\ s.time \in Int
  BY <1>a
<1>c. LastInstant \in Nat /\ Instants = 0..LastInstant /\ w \in Int /\ \A t \in Instants : Wall(t) \in Nat
  BY <1>b, ZoneFacts
<1>d. r \in Nat /\ \A t \in Instants : Wall(t) >= w => r <= t
  BY <1>a, <1>b, ResolvedIsFirst
<1>e. r \in Instants => Wall(r) >= w
  <2>1. d <= d
    BY <1>b
  <2> QED BY <1>a, <1>b, <2>1, ResolvedInOrder
<1> HIDE DEF r, w
<1>0. /\ LastInstant \in Nat /\ Instants = 0..LastInstant /\ d \in Int /\ s.startAt \in Instants
      /\ w \in Int /\ r \in Nat /\ \A t \in Instants : Wall(t) \in Nat
  BY <1>a, <1>b, <1>c, <1>d
<1>1. /\ \A t \in Instants : Wall(t) >= w => r <= t
      /\ r \in Instants => Wall(r) >= w
  BY <1>d, <1>e
<1>2. Reached(s, d) <=> (\E t \in s.startAt..clock : Wall(t) >= w) /\ (\A t \in 0..(s.startAt - 1) : Wall(t) < w)
  BY DEF Reached, TargetOf, w
<1>3. Reached(s, d) <=> r >= s.startAt /\ r <= clock
  <2>1. ASSUME Reached(s, d) PROVE r >= s.startAt /\ r <= clock
    <3>1. PICK t \in s.startAt..clock : Wall(t) >= w
      BY <1>2, <2>1
    <3>2. t \in Instants /\ r <= t
      BY <1>0, <1>1, <3>1
    <3>3. r <= clock /\ r \in Instants
      BY <1>0, <3>1, <3>2
    <3>4. ASSUME r < s.startAt PROVE FALSE
      <4>1. r \in 0..(s.startAt - 1)
        BY <1>0, <3>4
      <4>2. Wall(r) < w /\ Wall(r) >= w
        BY <1>1, <1>2, <2>1, <3>3, <4>1
      <4> QED BY <1>0, <3>3, <4>2
    <3> QED BY <1>0, <3>3, <3>4
  <2>2. ASSUME r >= s.startAt, r <= clock PROVE Reached(s, d)
    <3>1. r \in Instants /\ r \in s.startAt..clock
      BY <1>0, <2>2
    <3>2. ASSUME NEW t \in 0..(s.startAt - 1) PROVE Wall(t) < w
      <4>1. t \in Instants /\ ~(r <= t)
        BY <1>0, <2>2
      <4> QED BY <1>0, <1>1, <4>1
    <3> QED BY <1>1, <1>2, <3>1, <3>2
  <2> QED BY <2>1, <2>2
<1> QED BY <1>3 DEF DueDays, r

\* The latest day on which a schedule falls, and the one before it.
LEMMA LatestFacts ==
  ASSUME NEW s \in ScheduleData, NEW day \in Int
  PROVE  /\ Period(s) \in Nat \ {0} /\ LatestOn(s, day) \in Int /\ LatestOn(s, day) <= day
         /\ LatestOn(s, day) - Period(s) < day
         /\ s.cadence = "weekly" => /\ LatestOn(s, day) % WeekLength = s.weekDay
                                    /\ (LatestOn(s, day) - Period(s)) % WeekLength = s.weekDay
         /\ \A d \in Int : d <= day /\ (s.cadence = "weekly" => d % WeekLength = s.weekDay) =>
              d <= LatestOn(s, day) /\ (d < LatestOn(s, day) => d <= LatestOn(s, day) - Period(s))
<1>1. CASE s.cadence # "weekly"
  BY <1>1 DEF LatestOn, Period
<1>2. CASE s.cadence = "weekly"
  <2> DEFINE l == LatestOn(s, day)
             n == WeekLength
  <2>1. n \in Nat \ {0} /\ s.weekDay \in 0..(n - 1) /\ Period(s) = n
    BY <1>2, ZoneFacts, ScheduleFacts DEF Period
  <2>2. l = CHOOSE d \in (day - n + 1)..day : d % n = s.weekDay
    BY <1>2 DEF LatestOn
  <2> HIDE DEF l, n
  <2>3. \E d \in (day - n + 1)..day : d % n = s.weekDay
    <3>1. \A a \in Int : \A r \in 0..(n - 1) : \E d \in (a - n + 1)..a : d % n = r
      BY <2>1, RemainderInWindow
    <3> QED BY <2>1, <3>1, Zenon
  <2>4. l \in (day - n + 1)..day /\ l % n = s.weekDay
    BY <2>2, <2>3
  <2>5. l \in Int /\ l <= day /\ day < l + n /\ l - n < day
    BY <2>1, <2>4
  <2>6. (l - n) % n = s.weekDay
    BY <2>1, <2>4, <2>5, RemainderBefore
  <2>7. ASSUME NEW d \in Int, d <= day, d % n = s.weekDay PROVE d <= l /\ (d < l => d <= l - n)
    <3>1. ASSUME l < d PROVE FALSE
      <4>1. l + n <= d
        BY <2>1, <2>4, <2>5, <2>7, <3>1, SameRemainder
      <4> QED BY <2>1, <2>5, <2>7, <4>1
    <3>2. ASSUME d < l PROVE d <= l - n
      <4>1. d + n <= l
        BY <2>1, <2>4, <2>5, <2>7, <3>2, SameRemainder
      <4> QED BY <2>1, <2>5, <4>1
    <3> QED BY <2>5, <3>1, <3>2
  <2> QED BY <1>2, <2>1, <2>4, <2>5, <2>6, <2>7 DEF l, n
<1> QED BY <1>1, <1>2

\* The code's search, which looks at two days at most, finds the latest day that was due.
LEMMA DueIsLatest ==
  ASSUME NEW s \in ScheduleData, clock \in Instants
  PROVE  DueOccurrence(s, clock) = {d \in DueDays(s) : \A e \in DueDays(s) : e <= d}
<1> DEFINE R(d) == Resolved(d, s.time)
           today == LocalDay(clock)
           latest == LatestOn(s, today)
           c == IF s.cadence = "once" THEN StartDay(s) ELSE IF R(latest) > clock THEN latest - Period(s) ELSE latest
<1>0. /\ LastInstant \in Nat /\ Instants = 0..LastInstant /\ DayLength \in Nat
      /\ s.time \in Nat /\ s.time \in Int /\ s.time < DayLength /\ s.startAt \in Instants /\ StartDay(s) \in Nat
      /\ LocalDays \subseteq Nat /\ 0..today \subseteq LocalDays /\ today \in Nat /\ StartDay(s) \in LocalDays
  <2>1. StartDay(s) \in LocalDays
    BY ScheduleFacts
  <2>2. /\ s.time \in Nat /\ s.time < DayLength /\ s.startAt \in Instants /\ StartDay(s) \in Nat
        /\ LocalDays \subseteq Nat /\ \A t \in Instants : 0..LocalDay(t) \subseteq LocalDays
    BY ScheduleFacts
  <2>3. LastInstant \in Nat /\ Instants = 0..LastInstant /\ DayLength \in Nat /\ today \in Nat
    BY ZoneFacts
  <2>4. s.time \in Int
    BY <2>2
  <2> QED BY <2>1, <2>2, <2>3, <2>4
<1>1. \A d : d \in DueOccurrence(s, clock) <=>
               /\ d = c /\ clock >= s.startAt /\ d >= StartDay(s) /\ R(d) >= s.startAt
               /\ s.cadence = "once" => R(d) <= clock
  BY Zenon DEF DueOccurrence
<1>2. DueDays(s) \subseteq LocalDays
  BY DEF DueDays
<1>3. \A d \in Int : R(d) \in Nat
  BY <1>0, ResolvedIsFirst
<1>4. ASSUME c \in DueDays(s) => c \in DueOccurrence(s, clock), \A d \in DueDays(s) : c \in DueDays(s) /\ d <= c,
             c \in DueOccurrence(s, clock) => c \in DueDays(s)
      PROVE  DueOccurrence(s, clock) = {d \in DueDays(s) : \A e \in DueDays(s) : e <= d}
  <2> HIDE DEF c
  <2>1. ASSUME NEW d \in DueOccurrence(s, clock) PROVE d \in DueDays(s) /\ \A e \in DueDays(s) : e <= d
    BY <1>1, <1>4, <2>1
  <2>2. ASSUME NEW d \in DueDays(s), \A e \in DueDays(s) : e <= d PROVE d \in DueOccurrence(s, clock)
    <3>1. c \in DueDays(s) /\ d <= c /\ c <= d
      BY <1>4, <2>2
    <3>2. d \in Nat /\ c \in Nat
      BY <1>0, <1>2, <3>1
    <3>3. d = c
      BY <3>1, <3>2
    <3> QED BY <1>4, <3>1, <3>3
  <2> QED BY <2>1, <2>2
<1>5. CASE s.cadence = "once"
  <2>1. c = StartDay(s)
    BY <1>5
  <2>2. \A d \in DueDays(s) : d = c
    BY <1>5, <2>1 DEF DueDays
  <2>3. c \in LocalDays /\ c \in Int
    BY <1>0, <2>1
  <2>4. c \in DueDays(s) <=> R(c) >= s.startAt /\ R(c) <= clock
    BY <1>0, <1>5, <2>1, <2>3, DueMeans
  <2>5. c \in DueOccurrence(s, clock) <=> clock >= s.startAt /\ R(c) >= s.startAt /\ R(c) <= clock
    <3>1. c >= StartDay(s)
      BY <1>0, <2>1
    <3> HIDE DEF c, R
    <3> QED BY <1>1, <1>5, <3>1
  <2>6. R(c) \in Nat /\ clock \in Nat /\ s.startAt \in Nat
    <3>1. R(c) \in Nat
      BY <1>3, <2>3
    <3>2. clock \in Nat /\ s.startAt \in Nat
      BY <1>0
    <3> QED BY <3>1, <3>2
  <2> HIDE DEF c, R
  <2>7. c \in DueDays(s) <=> c \in DueOccurrence(s, clock)
    BY <2>4, <2>5, <2>6
  <2>8. \A d \in DueDays(s) : c \in DueDays(s) /\ d <= c
    BY <2>2, <2>3
  <2> QED BY <1>4, <2>7, <2>8
<1>6. CASE s.cadence # "once"
  <2> DEFINE p == Period(s)
             Q(d) == s.cadence = "weekly" => d % WeekLength = s.weekDay
  <2>1. /\ p \in Nat \ {0} /\ latest \in Int /\ latest <= today /\ latest - p < today /\ Q(latest) /\ Q(latest - p)
        /\ \A d \in Int : d <= today /\ Q(d) => d <= latest /\ (d < latest => d <= latest - p)
    <3>1. today \in Int
      BY <1>0
    <3> HIDE DEF today
    <3> QED BY <3>1, LatestFacts
  <2>2. c = IF R(latest) > clock THEN latest - p ELSE latest
    BY <1>6
  <2> HIDE DEF latest, p, c, Q
  <2>3. c \in Int /\ c <= today /\ Q(c)
    BY <1>0, <2>1, <2>2
  <2>4. R(latest - p) <= clock
    <3>1. latest - p \in Int /\ today \in Int
      BY <1>0, <2>1
    <3>2. TargetOf(latest - p, 0) + DayLength <= TargetOf(today, 0) /\ TargetOf(today, 0) <= Wall(clock)
      BY <2>1, <3>1, ZoneFacts
    <3>3. /\ TargetOf(latest - p, s.time) = TargetOf(latest - p, 0) + s.time
          /\ TargetOf(latest - p, 0) \in Int /\ TargetOf(today, 0) \in Int /\ Wall(clock) \in Int
      <4>1. 0 \in Int /\ s.time \in Int
        BY <1>0
      <4>2. Wall(clock) \in Nat
        BY ZoneFacts
      <4>3. Wall(clock) \in Int
        BY <4>2
      <4> HIDE DEF today
      <4> QED BY <3>1, <4>1, <4>3, ZoneFacts
    <3>4. Wall(clock) >= TargetOf(latest - p, s.time)
      BY <1>0, <3>2, <3>3
    <3> QED BY <1>0, <3>1, <3>4, ResolvedIsFirst
  <2>5. R(c) <= clock /\ R(c) \in Nat /\ clock \in Nat
    <3>1. R(latest) \in Nat /\ clock \in Nat /\ R(c) \in Nat
      BY <1>0, <1>3, <2>1, <2>3
    <3> HIDE DEF R
    <3> QED BY <2>2, <2>4, <3>1
  <2>6. ASSUME NEW d \in LocalDays
        PROVE  d \in DueDays(s) <=> d >= StartDay(s) /\ R(d) >= s.startAt /\ R(d) <= clock /\ d <= today /\ Q(d)
    BY <1>6, DueMeans DEF Q
  <2>7. c >= StartDay(s) => c \in LocalDays
    BY <1>0, <2>3
  <2>8. c \in DueOccurrence(s, clock) <=> clock >= s.startAt /\ c >= StartDay(s) /\ R(c) >= s.startAt
    <3> HIDE DEF R
    <3> QED BY <1>1, <1>6
  <2>9. c \in DueDays(s) <=> c \in DueOccurrence(s, clock)
    <3>1. c \in DueDays(s) => c >= StartDay(s)
      BY DEF DueDays
    <3>2. c >= StartDay(s) => (c \in DueDays(s) <=> R(c) >= s.startAt)
      BY <2>3, <2>5, <2>6, <2>7
    <3>3. R(c) >= s.startAt => clock >= s.startAt
      <4> HIDE DEF R
      <4> QED BY <1>0, <2>5
    <3> QED BY <2>8, <3>1, <3>2, <3>3
  <2>10. ASSUME NEW d \in DueDays(s) PROVE c \in DueDays(s) /\ d <= c
    <3>1. d \in LocalDays /\ d \in Int /\ d \in Nat
      <4>1. d \in LocalDays
        BY <1>2
      <4> QED BY <1>0, <4>1
    <3>2. d >= StartDay(s) /\ R(d) >= s.startAt /\ R(d) <= clock /\ d <= today /\ Q(d)
      BY <2>6, <3>1
    <3>3. d <= latest /\ (d < latest => d <= latest - p)
      BY <2>1, <3>1, <3>2
    <3>4. d <= c
      <4>1. CASE d < latest
        <5>1. d <= latest - p
          BY <3>3, <4>1
        <5> QED BY <2>1, <2>2, <3>1, <3>3, <5>1
      <4>2. CASE d = latest
        <5>1. R(latest) \in Nat /\ clock \in Nat /\ R(latest) <= clock
          BY <1>3, <2>1, <2>5, <3>2, <4>2
        <5> HIDE DEF R
        <5>2. ~(R(latest) > clock)
          BY <5>1
        <5>3. c = latest
          BY <2>2, <5>2
        <5> QED BY <2>1, <4>2, <5>3
      <4> QED BY <2>1, <3>1, <3>3, <4>1, <4>2
    <3>5. R(c) \in Instants
      BY <1>0, <2>5
    <3>6. R(d) <= R(c)
      BY <1>0, <2>3, <3>1, <3>4, <3>5, ResolvedInOrder
    <3>7. R(d) \in Nat
      BY <1>3, <3>1
    <3> HIDE DEF R
    <3>8. c >= StartDay(s) /\ R(c) >= s.startAt
      BY <1>0, <2>3, <2>5, <3>1, <3>2, <3>4, <3>6, <3>7
    <3> QED BY <2>3, <2>5, <2>6, <2>7, <3>4, <3>8
  <2> QED BY <1>4, <2>9, <2>10
<1> QED BY <1>5, <1>6

----
\* The inductive invariant of schedules.
SchedulesInv == SchedulesTypeOK /\ EachDueDayDraftsOnce

LEMMA SchedulesStart == SchedulesInit => SchedulesInv
<1> SUFFICES ASSUME SchedulesInit PROVE SchedulesInv
  OBVIOUS
<1>1. \E s \in ScheduleData : ~s.enabled
  <2>1. PICK time \in WallTimes, at \in StartInstants, date \in StartDates : TRUE
    BY SchedulesAssumption, StartDatesAssumption
  <2>2. 0 \in 0..(WeekLength - 1)
    BY SchedulesAssumption
  <2> DEFINE s == [cadence |-> "once", weekDay |-> 0, time |-> time, startAt |-> at, startDate |-> date,
              enabled |-> FALSE]
  <2>3. s \in ScheduleData /\ ~s.enabled
    BY <2>1, <2>2 DEF ScheduleData
  <2> QED BY <2>3
<1>2. schedule \in ScheduleData
  BY <1>1 DEF SchedulesInit
<1>3. scheduleRow \in 0..MaxScheduleRevisions
  BY SchedulesAssumption DEF SchedulesInit
<1>4. lastTick \in [done: BOOLEAN, days: SUBSET LocalDays] /\ ~lastTick.done
  BY DEF SchedulesInit, NoTick
<1>5. SchedulesTypeOK
  BY <1>2, <1>3, <1>4 DEF SchedulesInit, SchedulesTypeOK
<1>6. EachDueDayDraftsOnce
  BY <1>4 DEF SchedulesInit, EachDueDayDraftsOnce
<1> QED BY <1>5, <1>6 DEF SchedulesInv

\* What is due depends on the schedule and the clock alone.
LEMMA SameDue ==
  ASSUME UNCHANGED <<clock, schedule>>
  PROVE  DueDays(schedule)' = DueDays(schedule)
BY DEF DueDays, Reached

\* A tick drafts the latest day that was due, unless it is drafted.
LEMMA TickDrafts == SchedulesInv /\ Tick => SchedulesInv'
<1> SUFFICES ASSUME SchedulesInv, Tick PROVE SchedulesInv'
  OBVIOUS
<1> DEFINE latest == {d \in DueDays(schedule) : \A e \in DueDays(schedule) : e <= d}
           days == {d \in latest : occurrences[<<scheduleRow, d>>] = 0}
<1>1. /\ clock \in Instants /\ schedule \in ScheduleData /\ scheduleRow \in 0..MaxScheduleRevisions
      /\ occurrences \in [Keys -> 0..2] /\ scheduling \in BOOLEAN /\ \A k \in Keys : occurrences[k] <= 1
  BY DEF SchedulesInv, SchedulesTypeOK, EachDueDayDraftsOnce
<1>2. latest = DueOccurrence(schedule, clock) /\ latest \subseteq LocalDays
  BY <1>1, DueIsLatest DEF DueDays
<1>3. /\ occurrences' = [k \in Keys |-> occurrences[k] + IF k[1] = scheduleRow /\ k[2] \in days THEN 1 ELSE 0]
      /\ lastTick' = [done |-> TRUE, days |-> days] /\ scheduleRow # 0
      /\ UNCHANGED <<clock, schedule, scheduleRow, scheduling>>
  BY <1>2 DEF Tick
<1>4. latest' = latest
  BY <1>3, SameDue
<1> HIDE DEF latest
<1>5. scheduleRow \in 1..MaxScheduleRevisions
  BY <1>1, <1>3, SchedulesAssumption
<1>6. ASSUME NEW k \in Keys PROVE occurrences'[k] \in 0..1
  <2>1. occurrences[k] \in 0..1 /\ occurrences'[k] = occurrences[k] + IF k[1] = scheduleRow /\ k[2] \in days THEN 1 ELSE 0
    BY <1>1, <1>3
  <2>2. k = <<k[1], k[2]>>
    BY DEF Keys
  <2>3. k[1] = scheduleRow /\ k[2] \in days => occurrences[k] = 0
    BY <2>2
  <2> HIDE DEF days
  <2> QED BY <2>1, <2>3
<1>7. occurrences' \in [Keys -> 0..2] /\ \A k \in Keys : occurrences'[k] <= 1
  <2>1. occurrences' = [k \in Keys |-> occurrences'[k]]
    BY <1>3
  <2>2. \A k \in Keys : occurrences'[k] \in 0..2 /\ occurrences'[k] <= 1
    BY <1>6
  <2> QED BY <2>1, <2>2
<1>8. ASSUME NEW d \in latest PROVE occurrences'[<<scheduleRow, d>>] = 1
  <2>1. <<scheduleRow, d>> \in Keys
    BY <1>2, <1>5 DEF Keys
  <2>2. occurrences[<<scheduleRow, d>>] \in 0..1
    BY <1>1, <2>1
  <2>3. occurrences'[<<scheduleRow, d>>] = occurrences[<<scheduleRow, d>>] + IF d \in days THEN 1 ELSE 0
    BY <1>3, <2>1
  <2>4. d \in days <=> occurrences[<<scheduleRow, d>>] = 0
    OBVIOUS
  <2> QED BY <2>2, <2>3, <2>4
<1>9. lastTick' \in [done: BOOLEAN, days: SUBSET LocalDays] /\ lastTick'.done /\ lastTick'.days = days /\ days \subseteq latest
  BY <1>2, <1>3
<1>10. SchedulesTypeOK'
  BY <1>1, <1>3, <1>7, <1>9 DEF SchedulesTypeOK
<1>11. EachDueDayDraftsOnce'
  BY <1>3, <1>4, <1>7, <1>8, <1>9 DEF EachDueDayDraftsOnce, latest
<1> QED BY <1>10, <1>11 DEF SchedulesInv

LEMMA SchedulesStep == SchedulesInv /\ [SchedulesNext]_scVars => SchedulesInv'
<1> SUFFICES ASSUME SchedulesInv, [SchedulesNext]_scVars PROVE SchedulesInv'
  OBVIOUS
<1>1. CASE Tick
  BY <1>1, TickDrafts
<1>2. ASSUME SchedulesTypeOK', UNCHANGED occurrences, lastTick' = NoTick PROVE SchedulesInv'
  <2>1. ~lastTick'.done
    BY <1>2 DEF NoTick
  <2> QED BY <1>2, <2>1 DEF SchedulesInv, EachDueDayDraftsOnce
<1>3. NoTick \in [done: BOOLEAN, days: SUBSET LocalDays]
  BY DEF NoTick
<1>4. CASE ClockMoves
  <2>1. SchedulesTypeOK'
    BY <1>3, <1>4 DEF SchedulesInv, SchedulesTypeOK, ClockMoves
  <2> QED BY <1>2, <1>4, <2>1 DEF ClockMoves
<1>5. ASSUME NEW s \in ScheduleData, SaveSchedule(s) PROVE SchedulesInv'
  <2>1. scheduleRow' \in 0..MaxScheduleRevisions
    <3>1. scheduleRow \in 0..MaxScheduleRevisions /\ MaxScheduleRevisions \in Nat
      BY SchedulesAssumption DEF SchedulesInv, SchedulesTypeOK
    <3>2. scheduleRow' \in {scheduleRow, scheduleRow + 1} /\ scheduleRow' <= MaxScheduleRevisions
      BY <1>5 DEF SaveSchedule
    <3> QED BY <3>1, <3>2
  <2>2. SchedulesTypeOK'
    BY <1>3, <1>5, <2>1 DEF SchedulesInv, SchedulesTypeOK, SaveSchedule
  <2> QED BY <1>2, <1>5, <2>2 DEF SaveSchedule
<1>6. CASE AdmitScheduling
  <2>1. SchedulesTypeOK'
    BY <1>6 DEF SchedulesInv, SchedulesTypeOK, AdmitScheduling
  <2>2. DueDays(schedule)' = DueDays(schedule)
    BY <1>6, SameDue DEF AdmitScheduling
  <2>3. EachDueDayDraftsOnce'
    BY <1>6, <2>2 DEF SchedulesInv, EachDueDayDraftsOnce, AdmitScheduling
  <2> QED BY <2>1, <2>3 DEF SchedulesInv
<1>7. CASE UNCHANGED scVars
  <2>1. SchedulesTypeOK'
    BY <1>7 DEF SchedulesInv, SchedulesTypeOK, scVars
  <2>2. DueDays(schedule)' = DueDays(schedule)
    BY <1>7, SameDue DEF scVars
  <2>3. EachDueDayDraftsOnce'
    BY <1>7, <2>2 DEF SchedulesInv, EachDueDayDraftsOnce, scVars
  <2> QED BY <2>1, <2>3 DEF SchedulesInv
<1> QED BY <1>1, <1>4, <1>5, <1>6, <1>7 DEF SchedulesNext

LEMMA SchedulesInvariant == SchedulesSpec => []SchedulesInv
BY SchedulesStart, SchedulesStep, PTL DEF SchedulesSpec

\* The clock, the schedule, its revision and its occurrences keep their types
\* (automation.ts:464-570).
THEOREM SchedulesTypeCorrect == SchedulesSpec => []SchedulesTypeOK
<1>1. SchedulesInv => SchedulesTypeOK
  BY DEF SchedulesInv
<1> QED BY <1>1, SchedulesInvariant, PTL

\* In any zone that does not show again what it skipped, whatever the clock and
\* the schedule do, a tick leaves the latest day that was due drafted, what it
\* drafts is that day, and no day of a revision is drafted twice
\* (automation.ts:464-486, 524-570).
THEOREM EachDayDraftsOnce == SchedulesSpec => []EachDueDayDraftsOnce
<1>1. SchedulesInv => EachDueDayDraftsOnce
  BY DEF SchedulesInv
<1> QED BY <1>1, SchedulesInvariant, PTL

----
(***************************************************************************)
(* The services beside each other, as they are model-checked.              *)
(***************************************************************************)

\* Whichever one a behaviour is about, each of them behaves as it does alone.
LEMMA ServicesAreTheirParts ==
  ServicesSpec => /\ BudgetSpec /\ TurnsSpec /\ AutomationsSpec /\ SchedulesSpec /\ StreamsSpec
                  /\ McpSpec /\ BrowsersSpec /\ DraftsSpec /\ CompactionsSpec
<1>1. ServicesInit => /\ BudgetInit /\ TurnsInit /\ AutomationsInit /\ SchedulesInit /\ StreamsInit
                      /\ McpInit /\ BrowsersInit /\ DraftsInit /\ CompactionsInit
  BY DEF ServicesInit
<1>2. [ServicesNext]_<<focus, budgetVars, atVars, auVars, scVars, psVars, mcVars, brVars, drVars, cpVars>> =>
        /\ [BudgetNext]_budgetVars /\ [TurnsNext]_atVars /\ [AutomationsNext]_auVars /\ [SchedulesNext]_scVars
        /\ [StreamsNext]_psVars /\ [McpNext]_mcVars /\ [BrowsersNext]_brVars /\ [DraftsNext]_drVars
        /\ [CompactionsNext]_cpVars
  BY DEF ServicesNext
<1> QED BY <1>1, <1>2, PTL
        DEF ServicesSpec, BudgetSpec, TurnsSpec, AutomationsSpec, SchedulesSpec, StreamsSpec, McpSpec, BrowsersSpec,
            DraftsSpec, CompactionsSpec

\* The rows of drafts and reviews have their types.
LEMMA DraftsTypedRows == DraftsInv => DraftsTypeOK
<1> SUFFICES ASSUME DraftsInv PROVE DraftsTypeOK
  OBVIOUS
<1>1. \A a \in Reviews : reviews[a] \in ReviewRow
  BY DEF DraftsInv, Typed, Reviews
<1> QED BY <1>1 DEF DraftsInv, Typed, DraftsTypeOK, DraftRow, Preparing, ReviewRow, Outcomes

\* Every service keeps its types through every interleaving of its calls, answers
\* and crashes (budget-ledger.ts, agent-loop.ts, automation.ts, providers/src/index.ts,
\* mcp.ts, browser-manager.ts, compaction.ts).
THEOREM ServicesTypeCorrect == ServicesSpec => []TypesOK
<1>1. DraftsInit => DraftsInv
  BY InitialDrafts
<1>2. DraftsInv /\ [DraftsNext]_drVars => DraftsInv'
  BY DraftsStep
<1>3. DraftsSpec => []DraftsTypeOK
  BY <1>1, <1>2, DraftsTypedRows, PTL DEF DraftsSpec
<1>4. BudgetTypeOK /\ TurnsTypeOK /\ AutomationsTypeOK /\ SchedulesTypeOK /\ StreamsTypeOK
        /\ McpTypeOK /\ BrowsersTypeOK /\ DraftsTypeOK /\ CompactionsTypeOK => TypesOK
  BY DEF TypesOK
<1> QED BY <1>3, <1>4, ServicesAreTheirParts, TypeCorrect, TurnsTypeCorrect, AutomationsTypeCorrect, SchedulesTypeCorrect,
           StreamsTypeCorrect, McpTypeCorrect, BrowsersTypeCorrect, CompactionsTypeCorrect, PTL
====
