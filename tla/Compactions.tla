------------------------------ MODULE Compactions ------------------------------
(***************************************************************************)
(* Controlled compaction of a task's conversation (compaction.ts and       *)
(* WorkspaceOperations.compact).  There are two views of it: the messages, *)
(* of which a compaction summarises a range, and the native history of the *)
(* provider, of which it replaces everything before a cut by the same      *)
(* summary.  Turns (agent-loop.ts) add to both.                            *)
(***************************************************************************)
EXTENDS Integers, Sequences, FiniteSets, SequencesExt

CONSTANTS KeepRecents,   \* how many recent messages a compaction may keep
          MaxTalk,       \* bound on the messages of the task
          MaxReplyRounds \* bound on the requests of a turn

ASSUME CompactionsAssumption ==
  KeepRecents \subseteq Nat \ {0} /\ MaxTalk \in Nat /\ MaxReplyRounds \in Nat

VARIABLES api,          \* the profile's kind: "chat" (responses too) or "anthropic"
          messages,     \* messages of the task, by ordinal
          compactions,  \* rows of compactions: a range of ordinals and the messages summarised
          continuation, \* the provider state's items; empty if there is none
          reply         \* the turn: what its request carries

cpVars == <<api, messages, compactions, continuation, reply>>

\* An item of the native history: the messages it quotes, the messages its
\* summary stands for.
Item(kind, quoted) == [kind |-> kind, of |-> quoted, summed |-> {}]
Summary(quoted, ids) == [kind |-> "user", of |-> quoted, summed |-> ids]
Items == [kind: {"system", "user", "asked", "said", "results"}, of: SUBSET (1..MaxTalk), summed: SUBSET (1..MaxTalk)]
NoReply == [step |-> "none", rounds |-> 0, sent |-> << >>]

CompactionsTypeOK ==
  /\ api \in {"chat", "anthropic"}
  /\ \A i \in DOMAIN messages : messages[i] \in [role: {"user", "assistant"}, status: {"streaming", "complete", "failed"}]
  /\ \A k \in DOMAIN compactions : compactions[k] \in [from: 1..MaxTalk, to: 1..MaxTalk, ids: SUBSET (1..MaxTalk)]
  /\ \A i \in DOMAIN continuation : continuation[i] \in Items
  /\ reply.step \in {"none", "sent", "answered", "told"} /\ \A i \in DOMAIN reply.sent : reply.sent[i] \in Items

CompactionsInit ==
  /\ api \in {"chat", "anthropic"}
  /\ messages = << >> /\ compactions = << >> /\ continuation = << >>
  /\ reply = NoReply

CompleteIds == {i \in DOMAIN messages : messages[i].status = "complete"}
InRange(row, i) == row.from <= i /\ i <= row.to
Covered(i) == \E k \in DOMAIN compactions : InRange(compactions[k], i)

\* applyCompactions: the complete messages, each range once as its summary, which
\* goes into the user item before it if there is one.
AddSummary(history, row) ==
  IF history # << >> /\ Last(history).kind = "user"
  THEN [history EXCEPT ![Len(history)].summed = @ \cup row.ids]
  ELSE Append(history, Summary({}, row.ids))
AddMessage(history, i) ==
  LET ranges == {k \in DOMAIN compactions : InRange(compactions[k], i)} IN
  IF messages[i].status # "complete" THEN history
  ELSE IF ranges = {} THEN Append(history, Item(IF messages[i].role = "user" THEN "user" ELSE "said", {i}))
  ELSE LET row == compactions[CHOOSE k \in ranges : \A m \in ranges : k <= m] IN
       IF \E j \in 1..(i - 1) : messages[j].status = "complete" /\ InRange(row, j) THEN history
       ELSE AddSummary(history, row)
History == FoldLeft(AddMessage, << >>, [i \in DOMAIN messages |-> i])

\* enrich: new messages of the project channel go ahead of the user's words.
Contexts == {<< >>, <<Item("user", {})>>}

\* nativeRequest: unfinished calls are answered first; Anthropic takes a single
\* user message into the item that carries the results.
Continued(next) ==
  IF Last(continuation).kind # "asked" THEN continuation \o next
  ELSE IF api = "anthropic" /\ Len(next) = 1 THEN Append(continuation, Item("results", next[1].of))
  ELSE Append(continuation, Item("results", {})) \o next
Opening(context, u) ==
  IF continuation # << >> THEN Continued(context \o <<Item("user", {u})>>)
  ELSE (IF api = "anthropic" THEN << >> ELSE <<Item("system", {})>>) \o context \o History \o <<Item("user", {u})>>

\* startTurn and prepareRequest.  A task without tools has no native history.
StartReply ==
  /\ reply.step = "none" /\ Len(messages) + 2 <= MaxTalk
  /\ messages' = messages \o <<[role |-> "user", status |-> "complete"], [role |-> "assistant", status |-> "streaming"]>>
  /\ \/ \E context \in Contexts :
          reply' = [step |-> "sent", rounds |-> 1, sent |-> Opening(context, Len(messages) + 1)]
     \/ continuation = << >> /\ reply' = [step |-> "sent", rounds |-> 1, sent |-> << >>]
  /\ UNCHANGED <<api, compactions, continuation>>

\* The provider state is saved with the answer, which is streaming until the
\* next transaction.
TakeAnswer(calls) ==
  /\ reply.step = "sent"
  /\ calls => reply.sent # << >> /\ reply.rounds < MaxReplyRounds
  /\ continuation' = IF reply.sent = << >> THEN continuation
               ELSE Append(reply.sent, Item(IF calls THEN "asked" ELSE "said", {Len(messages)}))
  /\ reply' = [reply EXCEPT !.step = IF calls THEN "answered" ELSE "told", !.sent = << >>]
  /\ UNCHANGED <<api, messages, compactions>>

NextRound ==
  /\ reply.step = "answered"
  /\ \E context \in Contexts :
       reply' = [step |-> "sent", rounds |-> reply.rounds + 1, sent |-> Continued(context)]
  /\ UNCHANGED <<api, messages, compactions, continuation>>

EndReply(status) ==
  /\ messages' = [messages EXCEPT ![Len(messages)].status = status]
  /\ reply' = NoReply
  /\ UNCHANGED <<api, compactions, continuation>>
FinishReply == reply.step = "told" /\ EndReply("complete")
\* Failed, cancelled, or interrupted by a restart: `failed' stands for the three.
BreakReply == reply.step # "none" /\ EndReply("failed")

\* Mutant: messages of an earlier range are planned again.
OlderAgain(keepRecent) ==
  {i \in CompleteIds : Cardinality({j \in CompleteIds : j > i}) >= keepRecent}

\* planMessageCompaction: complete messages before the recent ones, in no range.
Older(keepRecent) ==
  {i \in CompleteIds : ~Covered(i) /\ Cardinality({j \in CompleteIds : j > i}) >= keepRecent}

\* continuationIssues: results follow their calls, calls without results are last.
Issues(items) ==
  {i \in DOMAIN items : \/ items[i].kind = "results" /\ (i = 1 \/ items[i - 1].kind # "asked")
                        \/ items[i].kind = "asked" /\ i < Len(items) /\ items[i + 1].kind # "results"}

\* compactContinuation: a cut is at a user item other than the first, with at
\* least `kept' user items from it on.  The system items, which are all alike, stay.
Boundaries == {i \in DOMAIN continuation : continuation[i].kind = "user"}
Cuts(kept) == {cut \in Boundaries : /\ \E b \in Boundaries : b < cut
                                    /\ Cardinality({b \in Boundaries : b >= cut}) >= kept}
SystemItems(items) ==
  [i \in 1..Cardinality({k \in DOMAIN items : items[k].kind = "system"}) |-> Item("system", {})]
Retained(cut, ids) ==
  LET before == SubSeq(continuation, 1, cut - 1)
      prior == {i \in DOMAIN before : before[i].summed # {}} IN
  SystemItems(before)
  \o <<Summary(UNION {before[i].of : i \in prior}, ids \cup UNION {before[i].summed : i \in prior})>>
  \o SubSeq(continuation, cut, Len(continuation))
ValidCuts(kept, ids) ==
  {cut \in Cuts(kept) : /\ Issues(Retained(cut, ids)) = {}
                        /\ \E i \in 1..(cut - 1) : continuation[i].kind # "system"}

\* keptTurns: as many user turns as the messages that stay, at least one.
KeptTurns(last) ==
  LET turns == Cardinality({i \in CompleteIds : i > last /\ messages[i].role = "user"}) IN
  IF turns = 0 THEN 1 ELSE turns

\* compact, one transaction; whatever it refuses (running, retired, unknown
\* outcomes, another profile, nothing to cut, no smaller) leaves all as it was.
Compact(keepRecent) ==
  LET older == Older(keepRecent)
      row == [from |-> Min(older), to |-> Max(older), ids |-> older]
      cuts == ValidCuts(KeptTurns(row.to), older) IN
  /\ reply.step = "none" /\ older # {}
  /\ continuation # << >> => Issues(continuation) = {} /\ cuts # {}
  /\ compactions' = Append(compactions, row)
  /\ continuation' = IF continuation = << >> THEN continuation ELSE Retained(Max(cuts), older)
  /\ UNCHANGED <<api, messages, reply>>

CompactionsNext ==
  \/ StartReply \/ NextRound \/ FinishReply \/ BreakReply
  \/ \E calls \in BOOLEAN : TakeAnswer(calls)
  \/ \E keepRecent \in KeepRecents : Compact(keepRecent)

CompactionsSpec == CompactionsInit /\ [][CompactionsNext]_cpVars

-----------------------------------------------------------------------------
\* However turns fail and compactions with different limits follow one another,
\* the messages' view tells every complete message exactly once, itself or in one
\* summary; in the native history every call is answered or last, and what was
\* summarised before a later compaction is still summarised after it.  (Not that
\* the native history tells every message: see BothViewsAgree.)
ConversationIsTold ==
  /\ \A i \in CompleteIds : Cardinality({k \in DOMAIN History : i \in History[k].of \cup History[k].summed}) = 1
  /\ Issues(continuation) = {}
  /\ continuation # << >> => \A k \in DOMAIN compactions : compactions[k].ids \subseteq UNION {continuation[i].summed : i \in DOMAIN continuation}

\* workspace-operations.ts:53: as many user turns stay in the native history as
\* the messages that stay contain, so both views agree on what stays verbatim.
\* Then no request of the user that a compaction leaves in the messages' view
\* leaves the native history.  It does: a message of the channel counts as a turn
\* there.
Quoted(items) == UNION {items[i].of : i \in DOMAIN items}
BothViewsAgree ==
  [][compactions' # compactions =>
       \A i \in CompleteIds : messages[i].role = "user" /\ i \in Quoted(continuation) /\ ~Covered(i)'
                              => i \in Quoted(continuation')]_cpVars
=============================================================================
