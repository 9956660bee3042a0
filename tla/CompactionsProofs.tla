---- MODULE CompactionsProofs ----
(***************************************************************************)
(* Proofs about compactions of a conversation: nothing complete is missing *)
(* from the history, nothing is told twice, and what was summarised stays  *)
(* summarised.  For any number of messages and rounds, and any number of   *)
(* messages kept.                                                          *)
(***************************************************************************)
EXTENDS Compactions, SequenceTheorems, FiniteFacts, TLAPS


\* The types of messages, ranges and replies.
Message == [role: {"user", "assistant"}, status: {"streaming", "complete", "failed"}]
Span == [from: 1..MaxTalk, to: 1..MaxTalk, ids: SUBSET (1..MaxTalk)]
Reply == [step: {"none", "sent", "answered", "told"}, rounds: Nat, sent: Seq(Items)]
CompactionsTyped ==
  /\ api \in {"chat", "anthropic"}
  /\ messages \in Seq(Message) /\ Len(messages) <= MaxTalk
  /\ compactions \in Seq(Span) /\ continuation \in Seq(Items) /\ reply \in Reply

\* Only the last message is streaming, and only while the turn is under way.
LastStreams ==
  /\ reply.step # "none" => messages # << >>
  /\ \A i \in DOMAIN messages : messages[i].status = "streaming" <=> reply.step # "none" /\ i = Len(messages)

\* The ranges lie one behind the other; each was made of the complete messages
\* in it, and leaves none behind it that is in no range.
RangesInOrder ==
  /\ \A k \in DOMAIN compactions :
       LET row == compactions[k] IN
       /\ row.ids = {i \in CompleteIds : InRange(row, i)} /\ row.from \in row.ids /\ row.to \in row.ids
       /\ \A i \in CompleteIds : i <= row.to => Covered(i)
  /\ \A k, m \in DOMAIN compactions : k < m => compactions[k].to < compactions[m].from

\* What is summarised in a history; a history that carries every range, in which
\* results follow their calls; one that can be sent has no call at the end.
Summarised(items) == UNION {items[i].summed : i \in DOMAIN items}
Carries(items) == Issues(items) = {} /\ \A k \in DOMAIN compactions : compactions[k].ids \subseteq Summarised(items)
NativeIsWhole ==
  /\ continuation # << >> => Carries(continuation)
  /\ reply.sent # << >> => reply.step = "sent" /\ Carries(reply.sent) /\ Last(reply.sent).kind # "asked"
  /\ reply.step = "answered" => continuation # << >> /\ Last(continuation).kind = "asked"

CompactionsInv == CompactionsTyped /\ LastStreams /\ RangesInOrder /\ NativeIsWhole

----
\* What makes g the function that folds the messages of each set, the last first.
Folds(N, g) ==
  g = [s \in SUBSET (1..N) |-> IF s = {} THEN << >> ELSE AddMessage(g[s \ {Max(s)}], Max(s))]

\* A set of numbers up to N has a greatest one.
LEMMA GreatestOne ==
  ASSUME NEW N \in Nat, NEW s \in SUBSET (1..N), s # {}
  PROVE  Max(s) \in s /\ \A x \in s : x <= Max(s)
<1> DEFINE Up == {n \in Nat : \A x \in s : x <= n}
<1>1. N \in Up
  OBVIOUS
<1>2. Up \in SUBSET Nat /\ Up # {}
  BY <1>1
<1>3. PICK m \in Up : \A n \in Up : m <= n
  <2> HIDE DEF Up
  <2> QED BY <1>2, LeastNumber
<1>4. m \in s
  <2> SUFFICES ASSUME m \notin s PROVE FALSE
    OBVIOUS
  <2>1. \A x \in s : x <= m - 1 /\ m # 0 /\ m - 1 \in Nat
    OBVIOUS
  <2>2. m - 1 \in Up
    BY <2>1
  <2> QED BY <1>3, <2>2
<1>5. \E x \in s : \A y \in s : x >= y
  BY <1>4
<1>6. Max(s) \in s /\ \A y \in s : Max(s) >= y
  BY <1>5, Zenon DEF Max
<1> QED BY <1>6

\* And a least one.
LEMMA SmallestOne ==
  ASSUME NEW s \in SUBSET Nat, s # {}
  PROVE  Min(s) \in s /\ \A x \in s : Min(s) <= x
<1>1. \E x \in s : \A y \in s : x =< y
  BY LeastNumber
<1> QED BY <1>1, Zenon DEF Min

\* There is such a function, however many messages there are.
LEMMA FoldsExist == ASSUME NEW N \in Nat PROVE \E g : Folds(N, g)
<1> DEFINE Not == {n \in Nat : ~ \E g : Folds(n, g)}
<1>1. \E g : Folds(0, g)
  <2> DEFINE g == [s \in SUBSET (1..0) |-> << >>]
  <2>1. \A s \in SUBSET (1..0) : s = {}
    OBVIOUS
  <2>2. Folds(0, g)
    BY <2>1 DEF Folds
  <2> QED BY <2>2
<1>2. ASSUME NEW n \in Nat, NEW g, Folds(n, g) PROVE \E h : Folds(n + 1, h)
  <2> DEFINE B(s) == IF s = {} THEN << >> ELSE AddMessage(g[s \ {Max(s)}], Max(s))
             h == [s \in SUBSET (1..(n + 1)) |-> B(s)]
  <2>1. ASSUME NEW s \in SUBSET (1..(n + 1)), s # {} PROVE s \ {Max(s)} \in SUBSET (1..n)
    <3>0. n + 1 \in Nat
      OBVIOUS
    <3>1. Max(s) \in s /\ \A x \in s : x <= Max(s)
      <4> HIDE DEF B, h
      <4> QED BY <2>1, <3>0, GreatestOne
    <3>2. ASSUME NEW x \in s, x # Max(s) PROVE x \in 1..n
      <4>1. x \in 1..(n + 1) /\ Max(s) \in 1..(n + 1) /\ x <= Max(s)
        BY <3>1
      <4> QED BY <3>2, <4>1
    <3> QED BY <3>2
  <2>2. ASSUME NEW s \in SUBSET (1..n) PROVE g[s] = h[s]
    <3>1. g = [t \in SUBSET (1..n) |-> B(t)]
      BY <1>2 DEF Folds
    <3>2. s \in SUBSET (1..(n + 1))
      OBVIOUS
    <3> HIDE DEF B
    <3>3. g[s] = B(s)
      BY <3>1
    <3> QED BY <3>2, <3>3
  <2>3. ASSUME NEW s \in SUBSET (1..(n + 1))
        PROVE  B(s) = IF s = {} THEN << >> ELSE AddMessage(h[s \ {Max(s)}], Max(s))
    <3> HIDE DEF h
    <3> QED BY <2>1, <2>2
  <2>4. h = [s \in SUBSET (1..(n + 1)) |-> IF s = {} THEN << >> ELSE AddMessage(h[s \ {Max(s)}], Max(s))]
    <3> DEFINE k == [s \in SUBSET (1..(n + 1)) |-> IF s = {} THEN << >> ELSE AddMessage(h[s \ {Max(s)}], Max(s))]
    <3>1. \A s \in SUBSET (1..(n + 1)) : h[s] = k[s]
      <4> SUFFICES ASSUME NEW s \in SUBSET (1..(n + 1)) PROVE h[s] = k[s]
        OBVIOUS
      <4>1. h[s] = B(s)
        <5> HIDE DEF B
        <5> QED OBVIOUS
      <4>2. k[s] = IF s = {} THEN << >> ELSE AddMessage(h[s \ {Max(s)}], Max(s))
        <5> HIDE DEF h
        <5> QED OBVIOUS
      <4> HIDE DEF h, k, B
      <4> QED BY <4>1, <4>2, <2>3
    <3> QED BY <3>1, Zenon
  <2> HIDE DEF h
  <2> QED BY <2>4, Zenon DEF Folds
<1>3. Not = {}
  <2> SUFFICES ASSUME Not # {} PROVE FALSE
    OBVIOUS
  <2>1. PICK n \in Not : \A m \in Not : n <= m
    BY LeastNumber
  <2>2. n # 0
    BY <1>1
  <2>3. n - 1 \in Nat /\ ~(n <= n - 1) /\ (n - 1) + 1 = n
    BY <2>2
  <2>4. \E g : Folds(n - 1, g)
    BY <2>1, <2>3
  <2> QED BY <1>2, <2>1, <2>3, <2>4
<1> QED BY <1>3

\* The history of the first n messages, and the equation it is computed by.
HistoryOf(n) == (CHOOSE g : Folds(Len(messages), g))[1..n]
LEMMA HistoryUnfolds ==
  ASSUME messages \in Seq(Message)
  PROVE  /\ HistoryOf(0) = << >> /\ History = HistoryOf(Len(messages))
         /\ \A n \in 0..(Len(messages) - 1) : HistoryOf(n + 1) = AddMessage(HistoryOf(n), n + 1)
<1> DEFINE N == Len(messages)
           ids == [i \in DOMAIN messages |-> i]
           G == CHOOSE g : Folds(N, g)
<1>0. N \in Nat /\ DOMAIN messages = 1..N /\ DOMAIN ids = 1..N
  OBVIOUS
<1>1. \A i \in 1..N : ids[i] = i
  OBVIOUS
<1>2. Folds(N, G)
  <2> HIDE DEF N
  <2> QED BY <1>0, FoldsExist
<1>3. \A s \in SUBSET (1..N) : G[s] = IF s = {} THEN << >> ELSE AddMessage(G[s \ {Max(s)}], Max(s))
  <2> HIDE DEF G, N
  <2> QED BY <1>2 DEF Folds
<1>4. History = G[1..N]
  <2>1. History = FoldLeft(AddMessage, << >>, ids)
    BY DEF History
  <2> HIDE DEF ids, N
  <2> DEFINE F(g) == g = [s \in SUBSET (1..N) |-> IF s = {} THEN << >> ELSE AddMessage(g[s \ {Max(s)}], ids[Max(s)])]
  <2>2. FoldLeft(AddMessage, << >>, ids) = (CHOOSE g : F(g))[1..N]
    BY <1>0 DEF FoldLeft, MapThenFoldSet
  <2>3. ASSUME NEW g PROVE F(g) <=> Folds(N, g)
    <3>1. \A s \in SUBSET (1..N) : s # {} => ids[Max(s)] = Max(s)
      BY <1>0, <1>1, GreatestOne
    <3> DEFINE L == [s \in SUBSET (1..N) |-> IF s = {} THEN << >> ELSE AddMessage(g[s \ {Max(s)}], ids[Max(s)])]
               R == [s \in SUBSET (1..N) |-> IF s = {} THEN << >> ELSE AddMessage(g[s \ {Max(s)}], Max(s))]
    <3>2. L = R
      BY <3>1
    <3> QED BY <3>2 DEF Folds
  <2>4. (CHOOSE g : F(g)) = (CHOOSE g : Folds(N, g))
    <3> HIDE DEF F
    <3> QED BY <2>3
  <2> QED BY <2>1, <2>2, <2>4
<1>5. \A n \in 0..N : HistoryOf(n) = G[1..n]
  BY DEF HistoryOf
<1>6. HistoryOf(0) = << >>
  <2> HIDE DEF G, N
  <2>1. 1..0 = {} /\ {} \in SUBSET (1..N)
    OBVIOUS
  <2>2. G[1..0] = << >>
    BY <1>3, <2>1
  <2> QED BY <1>0, <1>5, <2>2
<1>7. ASSUME NEW n \in 0..(N - 1) PROVE HistoryOf(n + 1) = AddMessage(HistoryOf(n), n + 1)
  <2> HIDE DEF G, N
  <2>0. n \in Nat /\ n + 1 \in Nat /\ n \in 0..N /\ n + 1 \in 0..N
    BY <1>0
  <2> DEFINE s == 1..(n + 1)
  <2>1. s \in SUBSET (1..N) /\ s # {} /\ n + 1 \in s /\ \A x \in s : x <= n + 1
    BY <1>0, <2>0
  <2>2. Max(s) = n + 1
    <3>1. Max(s) \in s /\ \A x \in s : x <= Max(s)
      <4> HIDE DEF s
      <4> QED BY <1>0, <2>1, GreatestOne
    <3> QED BY <3>1, <2>1
  <2>3. s \ {n + 1} = 1..n
    BY <2>0
  <2>4. G[s] = AddMessage(G[s \ {Max(s)}], Max(s))
    <3> HIDE DEF s
    <3> QED BY <1>3, <2>1
  <2>5. G[s] = AddMessage(G[1..n], n + 1)
    BY <2>2, <2>3, <2>4
  <2> QED BY <1>5, <2>0, <2>5
<1> QED BY <1>0, <1>4, <1>5, <1>6, <1>7

\* What an item tells of; what the history of the first n messages has to tell; a
\* history that tells it, each message in one item.
ToldBy(item) == item.of \cup item.summed
StillShown(n) == {i \in CompleteIds : ~Covered(i) /\ i <= n}
                 \cup UNION {compactions[k].ids : k \in {k \in DOMAIN compactions : compactions[k].from <= n}}
TellsAll(history, n) ==
  /\ history \in Seq(Items)
  /\ \A k \in DOMAIN history : history[k].kind \in {"user", "said"} /\ ToldBy(history[k]) \subseteq StillShown(n)
  /\ \A i \in StillShown(n) : \E k \in DOMAIN history : i \in ToldBy(history[k])
  /\ \A k, m \in DOMAIN history : k # m => ToldBy(history[k]) \cap ToldBy(history[m]) = {}
  /\ \A k \in DOMAIN compactions : compactions[k].from <= n => compactions[k].ids \subseteq Summarised(history)

\* An item about something new keeps a history telling.
LEMMA TellsMore ==
  ASSUME NEW n \in Nat, NEW history, TellsAll(history, n), NEW item \in Items, item.kind \in {"user", "said"},
         ToldBy(item) \cap StillShown(n) = {}, StillShown(n + 1) = StillShown(n) \cup ToldBy(item),
         \A k \in DOMAIN compactions : compactions[k].from <= n + 1 =>
             compactions[k].from <= n \/ compactions[k].ids \subseteq item.summed
  PROVE  TellsAll(Append(history, item), n + 1)
<1> DEFINE longer == Append(history, item)
<1>1. /\ history \in Seq(Items) /\ longer \in Seq(Items) /\ DOMAIN history = 1..Len(history) /\ Len(history) \in Nat
      /\ DOMAIN longer = 1..(Len(history) + 1) /\ longer[Len(history) + 1] = item
      /\ \A i \in 1..Len(history) : longer[i] = history[i]
  BY DEF TellsAll
<1> HIDE DEF longer
<1>2. \A i \in DOMAIN longer : i \in DOMAIN history \/ i = Len(history) + 1
  BY <1>1
<1>3. \A k \in DOMAIN longer : longer[k].kind \in {"user", "said"} /\ ToldBy(longer[k]) \subseteq StillShown(n + 1)
  BY <1>1, <1>2 DEF TellsAll
<1>4. \A i \in StillShown(n + 1) : \E k \in DOMAIN longer : i \in ToldBy(longer[k])
  <2> SUFFICES ASSUME NEW i \in StillShown(n + 1) PROVE \E k \in DOMAIN longer : i \in ToldBy(longer[k])
    OBVIOUS
  <2>1. CASE i \in StillShown(n)
    <3>1. PICK k \in DOMAIN history : i \in ToldBy(history[k])
      BY <2>1 DEF TellsAll
    <3> QED BY <1>1, <3>1
  <2>2. CASE i \in ToldBy(item)
    BY <1>1, <2>2
  <2> QED BY <2>1, <2>2
<1>5. \A k, m \in DOMAIN longer : k # m => ToldBy(longer[k]) \cap ToldBy(longer[m]) = {}
  <2> SUFFICES ASSUME NEW k \in DOMAIN longer, NEW m \in DOMAIN longer, k # m
               PROVE  ToldBy(longer[k]) \cap ToldBy(longer[m]) = {}
    OBVIOUS
  <2>1. CASE k \in DOMAIN history /\ m \in DOMAIN history
    BY <1>1, <2>1 DEF TellsAll
  <2>2. CASE k \in DOMAIN history /\ m = Len(history) + 1
    <3>1. ToldBy(history[k]) \subseteq StillShown(n)
      BY <2>2 DEF TellsAll
    <3> QED BY <1>1, <2>2, <3>1
  <2>3. CASE m \in DOMAIN history /\ k = Len(history) + 1
    <3>1. ToldBy(history[m]) \subseteq StillShown(n)
      BY <2>3 DEF TellsAll
    <3> QED BY <1>1, <2>3, <3>1
  <2> QED BY <1>2, <2>1, <2>2, <2>3
<1>6. \A k \in DOMAIN compactions : compactions[k].from <= n + 1 => compactions[k].ids \subseteq Summarised(longer)
  <2>1. Summarised(history) \subseteq Summarised(longer) /\ item.summed \subseteq Summarised(longer)
    BY <1>1 DEF Summarised
  <2> QED BY <2>1 DEF TellsAll
<1> QED BY <1>1, <1>3, <1>4, <1>5, <1>6 DEF TellsAll, longer

\* So does a summary that goes into its last item.
LEMMA TellsInto ==
  ASSUME NEW n \in Nat, NEW history, TellsAll(history, n), history # << >>, Last(history).kind = "user",
         NEW ids \in SUBSET (1..MaxTalk), ids \cap StillShown(n) = {}, StillShown(n + 1) = StillShown(n) \cup ids,
         \A k \in DOMAIN compactions : compactions[k].from <= n + 1 =>
             compactions[k].from <= n \/ compactions[k].ids \subseteq ids
  PROVE  TellsAll([history EXCEPT ![Len(history)].summed = @ \cup ids], n + 1)
<1> DEFINE fuller == [history EXCEPT ![Len(history)].summed = @ \cup ids]
           last == Len(history)
<1>1. /\ history \in Seq(Items) /\ DOMAIN history = 1..last /\ last \in DOMAIN history /\ last \in Nat
      /\ history[last].kind = "user"
  BY DEF TellsAll, Last
<1>2. history[last] \in Items
  BY <1>1
<1> DEFINE item == [history[last] EXCEPT !.summed = @ \cup ids]
<1>3. /\ item \in Items /\ item.kind = "user" /\ item.summed = history[last].summed \cup ids
      /\ ToldBy(item) = ToldBy(history[last]) \cup ids
  BY <1>1, <1>2 DEF Items, ToldBy
<1>4. /\ fuller \in Seq(Items) /\ DOMAIN fuller = DOMAIN history /\ fuller[last] = item
      /\ \A i \in DOMAIN history : i # last => fuller[i] = history[i]
  <2>1. fuller = [history EXCEPT ![last] = item]
    BY <1>1
  <2> HIDE DEF item, fuller
  <2> QED BY <1>1, <1>3, <2>1
<1> HIDE DEF item, fuller, last
<1>5. \A k \in DOMAIN fuller : fuller[k].kind \in {"user", "said"} /\ ToldBy(fuller[k]) \subseteq StillShown(n + 1)
  BY <1>1, <1>3, <1>4 DEF TellsAll
<1>6. \A i \in StillShown(n + 1) : \E k \in DOMAIN fuller : i \in ToldBy(fuller[k])
  <2> SUFFICES ASSUME NEW i \in StillShown(n + 1) PROVE \E k \in DOMAIN fuller : i \in ToldBy(fuller[k])
    OBVIOUS
  <2>1. CASE i \in StillShown(n)
    <3>1. PICK k \in DOMAIN history : i \in ToldBy(history[k])
      BY <2>1 DEF TellsAll
    <3> QED BY <1>1, <1>3, <1>4, <3>1
  <2>2. CASE i \in ids
    BY <1>1, <1>3, <1>4, <2>2
  <2> QED BY <2>1, <2>2
<1>7. \A k, m \in DOMAIN fuller : k # m => ToldBy(fuller[k]) \cap ToldBy(fuller[m]) = {}
  <2>1. \A k \in DOMAIN history : ToldBy(history[k]) \cap ids = {}
    BY DEF TellsAll
  <2>2. \A k, m \in DOMAIN history : k # m => ToldBy(history[k]) \cap ToldBy(history[m]) = {}
    BY DEF TellsAll
  <2> QED BY <1>1, <1>3, <1>4, <2>1, <2>2
<1>8. \A k \in DOMAIN compactions : compactions[k].from <= n + 1 => compactions[k].ids \subseteq Summarised(fuller)
  <2>1. Summarised(history) \subseteq Summarised(fuller)
    <3> SUFFICES ASSUME NEW k \in DOMAIN history PROVE history[k].summed \subseteq fuller[k].summed
      BY <1>4 DEF Summarised
    <3> QED BY <1>3, <1>4
  <2>2. ids \subseteq Summarised(fuller)
    BY <1>1, <1>3, <1>4 DEF Summarised
  <2> QED BY <2>1, <2>2 DEF TellsAll
<1> QED BY <1>4, <1>5, <1>6, <1>7, <1>8 DEF TellsAll, fuller, last

\* Two ranges have nothing in common.
LEMMA OneRange ==
  ASSUME RangesInOrder, CompactionsTyped,
         NEW k \in DOMAIN compactions, NEW m \in DOMAIN compactions,
         NEW i \in Nat, InRange(compactions[k], i), InRange(compactions[m], i)
  PROVE  k = m
<1>1. k \in Nat /\ m \in Nat /\ compactions[k] \in Span /\ compactions[m] \in Span
  BY DEF CompactionsTyped
<1>2. k < m => compactions[k].to < compactions[m].from
  BY DEF RangesInOrder
<1>3. m < k => compactions[m].to < compactions[k].from
  BY DEF RangesInOrder
<1> QED BY <1>1, <1>2, <1>3 DEF InRange, Span

\* One more message keeps the history telling.
LEMMA HistoryGrows ==
  ASSUME CompactionsTyped, RangesInOrder, NEW n \in Nat, n + 1 \in DOMAIN messages,
         NEW history, TellsAll(history, n)
  PROVE  TellsAll(AddMessage(history, n + 1), n + 1)
<1> DEFINE i == n + 1
           ranges == {k \in DOMAIN compactions : InRange(compactions[k], i)}
<1>0. i \in Nat /\ i \in 1..MaxTalk /\ messages[i] \in Message /\ MaxTalk \in Nat
  BY CompactionsAssumption DEF CompactionsTyped
<1>1. \A k \in DOMAIN compactions : compactions[k].from \in CompleteIds /\ compactions[k].from \in 1..MaxTalk
  <2> SUFFICES ASSUME NEW k \in DOMAIN compactions
               PROVE  compactions[k].from \in CompleteIds /\ compactions[k].from \in 1..MaxTalk
    OBVIOUS
  <2>1. compactions[k] \in Span
    BY DEF CompactionsTyped
  <2>2. compactions[k].from \in compactions[k].ids /\ compactions[k].ids \subseteq CompleteIds
    BY DEF RangesInOrder
  <2> QED BY <2>1, <2>2 DEF Span
<1>2. CASE messages[i].status # "complete"
  <2>1. i \notin CompleteIds
    BY <1>2 DEF CompleteIds
  <2>2. \A k \in DOMAIN compactions : compactions[k].from <= n + 1 <=> compactions[k].from <= n
    BY <1>0, <1>1, <2>1
  <2>3. \A j \in CompleteIds : j <= n + 1 <=> j <= n
    BY <1>0, <2>1 DEF CompleteIds, CompactionsTyped
  <2>4. StillShown(n + 1) = StillShown(n)
    BY <2>2, <2>3 DEF StillShown
  <2>5. AddMessage(history, n + 1) = history
    BY <1>2 DEF AddMessage
  <2> QED BY <2>2, <2>4, <2>5 DEF TellsAll
<1>3. CASE messages[i].status = "complete" /\ ranges = {}
  <2> DEFINE item == Item(IF messages[i].role = "user" THEN "user" ELSE "said", {i})
  <2>1. AddMessage(history, n + 1) = Append(history, item)
    BY <1>3 DEF AddMessage
  <2>2. item \in Items /\ item.kind \in {"user", "said"} /\ ToldBy(item) = {i} /\ item.summed = {}
    BY <1>0 DEF Item, Items, ToldBy
  <2>3. i \in CompleteIds /\ ~Covered(i)
    BY <1>3 DEF CompleteIds, Covered
  <2>4. \A k \in DOMAIN compactions : /\ compactions[k].from <= n + 1 <=> compactions[k].from <= n
                                      /\ compactions[k].ids \subseteq {j \in CompleteIds : Covered(j)}
    <3>1. ASSUME NEW k \in DOMAIN compactions PROVE compactions[k].ids \subseteq {j \in CompleteIds : Covered(j)}
      BY DEF RangesInOrder, Covered
    <3>2. ASSUME NEW k \in DOMAIN compactions PROVE compactions[k].from # n + 1
      <4>1. compactions[k].from \in compactions[k].ids
        BY DEF RangesInOrder
      <4> QED BY <2>3, <3>1, <4>1
    <3> QED BY <1>1, <3>1, <3>2
  <2>5. \A j \in CompleteIds : j <= n + 1 <=> j <= n \/ j = i
    BY DEF CompleteIds, CompactionsTyped
  <2>6. StillShown(n + 1) = StillShown(n) \cup {i}
    BY <2>3, <2>4, <2>5 DEF StillShown
  <2>7. i \notin StillShown(n)
    BY <2>3, <2>4 DEF StillShown
  <2> HIDE DEF item
  <2>8. ToldBy(item) \cap StillShown(n) = {} /\ StillShown(n + 1) = StillShown(n) \cup ToldBy(item)
    BY <2>2, <2>6, <2>7
  <2>9. \A k \in DOMAIN compactions : compactions[k].from <= n + 1 =>
          compactions[k].from <= n \/ compactions[k].ids \subseteq item.summed
    BY <2>4
  <2>10. TellsAll(Append(history, item), n + 1)
    BY <2>2, <2>8, <2>9, TellsMore
  <2> QED BY <2>1, <2>10
<1>4. CASE messages[i].status = "complete" /\ ranges # {}
  <2> DEFINE row == compactions[CHOOSE k \in ranges : \A m \in ranges : k <= m]
  <2>1. PICK k \in ranges : TRUE
    BY <1>4
  <2>2. ranges = {k} /\ k \in DOMAIN compactions /\ k \in Nat
    BY <1>0, <2>1, OneRange DEF CompactionsTyped
  <2>3. (CHOOSE x \in ranges : \A m \in ranges : x <= m) = k
    <3> HIDE DEF ranges
    <3> QED BY <2>2
  <2>4. row = compactions[k]
    BY <2>3
  <2> HIDE DEF row
  <2>5. i \in CompleteIds /\ InRange(row, i) /\ row \in Span /\ Covered(i)
    BY <1>4, <2>2, <2>4 DEF CompleteIds, Covered, CompactionsTyped
  <2>6. row.ids = {j \in CompleteIds : InRange(row, j)} /\ row.from \in row.ids
    BY <2>2, <2>4 DEF RangesInOrder
  <2>7. \A m \in DOMAIN compactions : compactions[m].from = i => m = k
    <3> SUFFICES ASSUME NEW m \in DOMAIN compactions, compactions[m].from = i PROVE m \in ranges
      BY <2>2
    <3>1. compactions[m].from \in compactions[m].ids /\ compactions[m].ids = {j \in CompleteIds : InRange(compactions[m], j)}
      BY DEF RangesInOrder
    <3> QED BY <3>1
  <2>8. \A j \in CompleteIds : j <= n + 1 <=> j <= n \/ j = i
    BY DEF CompleteIds, CompactionsTyped
  <2>9. CASE \E j \in 1..(i - 1) : messages[j].status = "complete" /\ InRange(row, j)
    <3>1. AddMessage(history, n + 1) = history
      <4>1. AddMessage(history, i) = IF \E j \in 1..(i - 1) : messages[j].status = "complete" /\ InRange(row, j)
                                     THEN history ELSE AddSummary(history, row)
        BY <1>4 DEF AddMessage, row
      <4> QED BY <2>9, <4>1
    <3>2. row.from <= n
      BY <1>0, <2>5, <2>9 DEF InRange, Span
    <3>3. \A m \in DOMAIN compactions : compactions[m].from <= n + 1 <=> compactions[m].from <= n
      BY <1>1, <2>4, <2>7, <3>2
    <3>4. StillShown(n + 1) = StillShown(n)
      BY <2>5, <2>8, <3>3 DEF StillShown
    <3> QED BY <3>1, <3>3, <3>4 DEF TellsAll
  <2>10. CASE ~ \E j \in 1..(i - 1) : messages[j].status = "complete" /\ InRange(row, j)
    <3>1. AddMessage(history, n + 1) = AddSummary(history, row)
      <4>1. AddMessage(history, i) = IF \E j \in 1..(i - 1) : messages[j].status = "complete" /\ InRange(row, j)
                                     THEN history ELSE AddSummary(history, row)
        BY <1>4 DEF AddMessage, row
      <4> QED BY <2>10, <4>1
    <3>2. row.from = i
      <4>1. row.from \in CompleteIds /\ InRange(row, row.from) /\ row.from \in 1..MaxTalk
        BY <2>5, <2>6 DEF Span
      <4>2. row.from <= i
        BY <2>5 DEF InRange
      <4>3. ~(row.from \in 1..(i - 1))
        BY <2>10, <4>1 DEF CompleteIds
      <4> QED BY <1>0, <4>1, <4>2, <4>3
    <3>3. \A m \in DOMAIN compactions : /\ compactions[m].from <= n + 1 <=> compactions[m].from <= n \/ m = k
                                        /\ compactions[m].from <= n => m # k
      BY <1>1, <2>4, <2>7, <3>2
    <3>4. StillShown(n + 1) = StillShown(n) \cup row.ids
      BY <2>2, <2>4, <2>5, <2>8, <3>3 DEF StillShown
    <3>5. row.ids \cap StillShown(n) = {}
      <4> SUFFICES ASSUME NEW j \in row.ids, j \in StillShown(n) PROVE FALSE
        OBVIOUS
      <4>1. j \in CompleteIds /\ InRange(row, j) /\ Covered(j) /\ j \in Nat
        BY <2>2, <2>4, <2>6 DEF Covered, CompleteIds, CompactionsTyped
      <4>2. PICK m \in DOMAIN compactions : compactions[m].from <= n /\ j \in compactions[m].ids
        BY <4>1 DEF StillShown
      <4>3. InRange(compactions[m], j)
        BY <4>2 DEF RangesInOrder
      <4>4. m = k
        BY <2>2, <2>4, <4>1, <4>3, OneRange
      <4> QED BY <3>3, <4>2, <4>4
    <3>6. row.ids \in SUBSET (1..MaxTalk)
      BY <2>5 DEF Span
    <3>7. \A m \in DOMAIN compactions : compactions[m].from <= n + 1 =>
            compactions[m].from <= n \/ compactions[m].ids \subseteq row.ids
      BY <2>4, <3>3
    <3>8. CASE history # << >> /\ Last(history).kind = "user"
      <4>1. AddSummary(history, row) = [history EXCEPT ![Len(history)].summed = @ \cup row.ids]
        BY <3>8 DEF AddSummary
      <4> DEFINE ids == row.ids
      <4>2. /\ ids \in SUBSET (1..MaxTalk) /\ ids \cap StillShown(n) = {} /\ StillShown(n + 1) = StillShown(n) \cup ids
            /\ \A m \in DOMAIN compactions : compactions[m].from <= n + 1 =>
                 compactions[m].from <= n \/ compactions[m].ids \subseteq ids
        BY <3>4, <3>5, <3>6, <3>7
      <4> HIDE DEF ids
      <4>3. TellsAll([history EXCEPT ![Len(history)].summed = @ \cup ids], n + 1)
        BY <3>8, <4>2, TellsInto
      <4> QED BY <3>1, <4>1, <4>3 DEF ids
    <3>9. CASE ~(history # << >> /\ Last(history).kind = "user")
      <4> DEFINE item == Summary({}, row.ids)
      <4>1. AddSummary(history, row) = Append(history, item)
        BY <3>9 DEF AddSummary
      <4>2. item \in Items /\ item.kind = "user" /\ ToldBy(item) = row.ids /\ item.summed = row.ids
        BY <3>6 DEF Summary, Items, ToldBy
      <4> HIDE DEF item
      <4> QED BY <3>1, <3>4, <3>5, <3>7, <4>1, <4>2, TellsMore
    <3> QED BY <3>8, <3>9
  <2> QED BY <2>9, <2>10
<1> QED BY <1>2, <1>3, <1>4

\* The whole history tells of all messages.
LEMMA HistoryTells ==
  ASSUME CompactionsTyped, RangesInOrder
  PROVE  TellsAll(History, Len(messages))
<1> DEFINE N == Len(messages)
           Not == {n \in 0..N : ~TellsAll(HistoryOf(n), n)}
<1>0. messages \in Seq(Message) /\ N \in Nat /\ DOMAIN messages = 1..N
  BY DEF CompactionsTyped
<1>1. TellsAll(HistoryOf(0), 0)
  <2>1. HistoryOf(0) = << >>
    BY <1>0, HistoryUnfolds
  <2>2. \A k \in DOMAIN compactions : ~(compactions[k].from <= 0)
    <3> SUFFICES ASSUME NEW k \in DOMAIN compactions PROVE ~(compactions[k].from <= 0)
      OBVIOUS
    <3>1. compactions[k] \in Span
      BY DEF CompactionsTyped
    <3> QED BY <3>1 DEF Span
  <2>3. StillShown(0) = {}
    BY <2>2 DEF StillShown, CompleteIds, CompactionsTyped
  <2>4. TellsAll(<< >>, 0)
    BY <2>2, <2>3 DEF TellsAll
  <2> QED BY <2>1, <2>4
<1>2. Not = {}
  <2> SUFFICES ASSUME Not # {} PROVE FALSE
    OBVIOUS
  <2>1. PICK n \in Not : \A m \in Not : n <= m
    <3>1. Not \in SUBSET Nat
      BY <1>0
    <3> HIDE DEF Not
    <3> QED BY <3>1, LeastNumber
  <2>2. n # 0 /\ n \in Nat
    BY <1>0, <1>1
  <2> DEFINE m == n - 1
  <2>3. m \in Nat /\ m \in 0..N /\ m \in 0..(N - 1) /\ ~(n <= m) /\ m + 1 = n /\ m + 1 \in DOMAIN messages
    BY <1>0, <2>2
  <2>4. TellsAll(HistoryOf(m), m)
    BY <2>1, <2>3
  <2> HIDE DEF m
  <2>5. HistoryOf(m + 1) = AddMessage(HistoryOf(m), m + 1)
    BY <1>0, <2>3, HistoryUnfolds
  <2>6. TellsAll(HistoryOf(m + 1), m + 1)
    BY <2>3, <2>4, <2>5, HistoryGrows
  <2> QED BY <2>1, <2>3, <2>6
<1>3. TellsAll(HistoryOf(N), N)
  BY <1>0, <1>2
<1> QED BY <1>0, <1>3, HistoryUnfolds

----
\* Initially nothing was said.
LEMMA CompactionsStart == CompactionsInit => CompactionsInv
<1> SUFFICES ASSUME CompactionsInit PROVE CompactionsInv
  OBVIOUS
<1>1. CompactionsTyped
  BY CompactionsAssumption DEF CompactionsInit, CompactionsTyped, Reply, NoReply
<1>2. LastStreams /\ NativeIsWhole
  BY DEF CompactionsInit, NoReply, LastStreams, NativeIsWhole
<1>3. RangesInOrder
  BY DEF CompactionsInit, RangesInOrder
<1> QED BY <1>1, <1>2, <1>3 DEF CompactionsInv

\* A history without calls and results has no issues.
Plain(items) == \A k \in DOMAIN items : items[k].kind \notin {"asked", "results"}
LEMMA PlainHasNoIssues == ASSUME NEW items, Plain(items) PROVE Issues(items) = {}
BY DEF Plain, Issues

\* An item that takes the place it needs makes no issues.
LEMMA OneMoreTurn ==
  ASSUME NEW items \in Seq(Items), Carries(items), NEW item \in Items,
         item.kind = "results" <=> items # << >> /\ Last(items).kind = "asked"
  PROVE  Append(items, item) \in Seq(Items) /\ Carries(Append(items, item)) /\ Last(Append(items, item)) = item
<1> DEFINE longer == Append(items, item)
           n == Len(items)
<1>1. /\ longer \in Seq(Items) /\ n \in Nat /\ DOMAIN items = 1..n /\ DOMAIN longer = 1..(n + 1)
      /\ Len(longer) = n + 1 /\ longer[n + 1] = item /\ \A i \in 1..n : longer[i] = items[i]
      /\ Last(longer) = item
  BY DEF Last
<1>2. n # 0 => Last(items) = items[n] /\ items # << >>
  BY DEF Last
<1>3. n = 0 => items = << >>
  OBVIOUS
<1> HIDE DEF longer, n
<1>4. Issues(longer) = {}
  <2> SUFFICES ASSUME NEW i \in Issues(longer) PROVE FALSE
    OBVIOUS
  <2>1. i \in 1..(n + 1)
    BY <1>1 DEF Issues
  <2>2. CASE longer[i].kind = "results" /\ (i = 1 \/ longer[i - 1].kind # "asked")
    <3>1. CASE i = n + 1
      BY <1>1, <1>2, <1>3, <2>2, <3>1
    <3>2. CASE i \in 1..n
      <4>1. i = 1 \/ (i - 1 \in 1..n /\ longer[i - 1] = items[i - 1])
        BY <1>1, <3>2
      <4>2. i \in Issues(items)
        BY <1>1, <2>2, <3>2, <4>1 DEF Issues
      <4> QED BY <4>2 DEF Carries
    <3> QED BY <1>1, <2>1, <3>1, <3>2
  <2>3. CASE longer[i].kind = "asked" /\ i < Len(longer) /\ longer[i + 1].kind # "results"
    <3>1. i \in 1..n /\ i + 1 \in 1..(n + 1) /\ longer[i] = items[i]
      BY <1>1, <2>1, <2>3
    <3>2. CASE i = n
      BY <1>1, <1>2, <2>3, <3>1, <3>2
    <3>3. CASE i + 1 \in 1..n
      <4>1. longer[i + 1] = items[i + 1] /\ Len(items) = n /\ i < n
        BY <1>1, <3>1, <3>3 DEF n
      <4>2. i \in Issues(items)
        BY <1>1, <2>3, <3>1, <4>1 DEF Issues
      <4> QED BY <4>2 DEF Carries
    <3> QED BY <1>1, <3>1, <3>2, <3>3
  <2> QED BY <2>2, <2>3 DEF Issues
<1>5. Summarised(items) \subseteq Summarised(longer)
  BY <1>1 DEF Summarised
<1> QED BY <1>1, <1>4, <1>5 DEF Carries, longer

\* One item behind a sequence, and two.
LEMMA OneBehind ==
  ASSUME NEW S, NEW s \in Seq(S), NEW t \in Seq(S), Len(t) = 1
  PROVE  s \o t = Append(s, t[1])
<1>1. t[1] \in S /\ Len(s) \in Nat
  BY LenProperties, 1 \in 1..Len(t), ElementOfSeq
<1>2. /\ s \o t \in Seq(S) /\ Len(s \o t) = Len(s) + 1
      /\ \A i \in 1..(Len(s) + 1) : (s \o t)[i] = IF i <= Len(s) THEN s[i] ELSE t[i - Len(s)]
  <2>1. /\ s \o t \in Seq(S) /\ Len(s \o t) = Len(s) + Len(t)
        /\ \A i \in 1..(Len(s) + Len(t)) : (s \o t)[i] = IF i <= Len(s) THEN s[i] ELSE t[i - Len(s)]
    BY ConcatProperties, Zenon
  <2> QED BY <2>1
<1>3. /\ Append(s, t[1]) \in Seq(S) /\ Len(Append(s, t[1])) = Len(s) + 1
      /\ \A i \in 1..(Len(s) + 1) : Append(s, t[1])[i] = IF i <= Len(s) THEN s[i] ELSE t[1]
  BY <1>1
<1>4. \A i \in 1..(Len(s) + 1) : (s \o t)[i] = Append(s, t[1])[i]
  <2> SUFFICES ASSUME NEW i \in 1..(Len(s) + 1) PROVE (s \o t)[i] = Append(s, t[1])[i]
    OBVIOUS
  <2>1. i <= Len(s) \/ i - Len(s) = 1
    BY <1>1
  <2> QED BY <1>2, <1>3, <2>1
<1> QED BY <1>2, <1>3, <1>4, SeqEqual

LEMMA TwoBehind ==
  ASSUME NEW S, NEW s \in Seq(S), NEW t \in Seq(S), Len(t) = 2
  PROVE  s \o t = Append(Append(s, t[1]), t[2])
<1>1. t[1] \in S /\ t[2] \in S /\ Len(s) \in Nat
  BY LenProperties, 1 \in 1..Len(t), 2 \in 1..Len(t), ElementOfSeq
<1> DEFINE u == Append(s, t[1])
           v == Append(u, t[2])
<1>2. /\ s \o t \in Seq(S) /\ Len(s \o t) = Len(s) + 2
      /\ \A i \in 1..(Len(s) + 2) : (s \o t)[i] = IF i <= Len(s) THEN s[i] ELSE t[i - Len(s)]
  <2>1. /\ s \o t \in Seq(S) /\ Len(s \o t) = Len(s) + Len(t)
        /\ \A i \in 1..(Len(s) + Len(t)) : (s \o t)[i] = IF i <= Len(s) THEN s[i] ELSE t[i - Len(s)]
    BY ConcatProperties, Zenon
  <2> QED BY <2>1
<1>3. /\ u \in Seq(S) /\ Len(u) = Len(s) + 1
      /\ \A i \in 1..(Len(s) + 1) : u[i] = IF i <= Len(s) THEN s[i] ELSE t[1]
  BY <1>1
<1>4. /\ v \in Seq(S) /\ Len(v) = Len(s) + 2
      /\ \A i \in 1..(Len(s) + 2) : v[i] = IF i <= Len(s) + 1 THEN u[i] ELSE t[2]
  <2> HIDE DEF u
  <2> QED BY <1>1, <1>3
<1> HIDE DEF u, v
<1>5. \A i \in 1..(Len(s) + 2) : (s \o t)[i] = v[i]
  <2> SUFFICES ASSUME NEW i \in 1..(Len(s) + 2) PROVE (s \o t)[i] = v[i]
    OBVIOUS
  <2>1. i <= Len(s) \/ i - Len(s) = 1 \/ i - Len(s) = 2
    BY <1>1
  <2>2. CASE i <= Len(s)
    BY <1>1, <1>2, <1>3, <1>4, <2>2
  <2>3. CASE i - Len(s) = 1
    BY <1>1, <1>2, <1>3, <1>4, <2>3
  <2>4. CASE i - Len(s) = 2
    BY <1>1, <1>2, <1>4, <2>4
  <2> QED BY <2>1, <2>2, <2>3, <2>4
<1> QED BY <1>2, <1>4, <1>5, SeqEqual DEF u, v

\* What a context adds: nothing, or an item of the user.
LEMMA ContextFacts ==
  ASSUME NEW context \in Contexts
  PROVE  /\ context \in Seq(Items) /\ Len(context) <= 1 /\ Len(context) \in Nat
         /\ \A k \in DOMAIN context : context[k].kind = "user"
<1> DEFINE hint == <<Item("user", {})>>
<1>1. CASE context = << >>
  BY <1>1
<1>2. CASE context = hint
  <2>1. Item("user", {}) \in Items /\ Item("user", {}).kind = "user"
    BY DEF Item, Items
  <2>2. hint \in Seq(Items) /\ Len(hint) = 1 /\ DOMAIN hint = {1} /\ hint[1].kind = "user"
    BY <2>1
  <2> HIDE DEF hint
  <2> QED BY <1>2, <2>2
<1> QED BY <1>1, <1>2 DEF Contexts

\* Words of the user after a history that carries every range.
LEMMA UserSpeaks ==
  ASSUME NEW items \in Seq(Items), Carries(items), items # << >> => Last(items).kind # "asked",
         NEW next \in Seq(Items), Len(next) <= 2, \A k \in DOMAIN next : next[k].kind = "user",
         items # << >> \/ next # << >>
  PROVE  /\ items \o next \in Seq(Items) /\ items \o next # << >>
         /\ Carries(items \o next) /\ Last(items \o next).kind # "asked"
<1>1. CASE next = << >>
  <2>1. items \o next = items
    BY <1>1
  <2> QED BY <1>1, <2>1
<1>2. CASE next # << >>
  <2> DEFINE one == Append(items, next[1])
  <2>1. next[1] \in Items /\ next[1].kind = "user"
    BY <1>2
  <2>2. one \in Seq(Items) /\ Carries(one) /\ Last(one) = next[1]
    BY <2>1, OneMoreTurn
  <2>3. CASE Len(next) = 1
    <3>1. items \o next = one
      BY <2>3, OneBehind
    <3> QED BY <2>1, <2>2, <3>1
  <2>4. CASE Len(next) = 2
    <3>1. items \o next = Append(one, next[2]) /\ next[2] \in Items /\ next[2].kind = "user"
      BY <2>4, TwoBehind
    <3> HIDE DEF one
    <3>2. Append(one, next[2]) \in Seq(Items) /\ Carries(Append(one, next[2])) /\ Last(Append(one, next[2])) = next[2]
      BY <2>1, <2>2, <3>1, OneMoreTurn
    <3> QED BY <3>1, <3>2
  <2>5. Len(next) = 1 \/ Len(next) = 2
    <3>1. Len(next) \in Nat \ {0}
      BY <1>2, EmptySeq
    <3>2. \A n \in Nat \ {0} : n <= 2 => n = 1 \/ n = 2
      OBVIOUS
    <3> QED BY <3>1, <3>2
  <2>6. items \o next \in Seq(Items) /\ items \o next # << >>
    BY <1>2, ConcatEqualIffEmpty, ConcatProperties
  <2> QED BY <2>3, <2>4, <2>5, <2>6
<1> QED BY <1>1, <1>2

\* However a request goes on, what it sends carries every range and ends in no call.
LEMMA ContinuedCarries ==
  ASSUME CompactionsTyped, NativeIsWhole, continuation # << >>,
         NEW next \in Seq(Items), Len(next) <= 2, \A k \in DOMAIN next : next[k].kind = "user",
         next # << >> \/ Last(continuation).kind = "asked"
  PROVE  /\ Continued(next) \in Seq(Items) /\ Continued(next) # << >>
         /\ Carries(Continued(next)) /\ Last(Continued(next)).kind # "asked"
<1>1. continuation \in Seq(Items) /\ Carries(continuation)
  BY DEF CompactionsTyped, NativeIsWhole
<1>2. CASE Last(continuation).kind # "asked"
  <2>1. Continued(next) = continuation \o next
    BY <1>2 DEF Continued
  <2> QED BY <1>1, <1>2, <2>1, UserSpeaks
<1>3. CASE Last(continuation).kind = "asked" /\ api = "anthropic" /\ Len(next) = 1
  <2> DEFINE item == Item("results", next[1].of)
  <2>1. Continued(next) = Append(continuation, item)
    BY <1>3 DEF Continued
  <2>2. next[1] \in Items
    BY <1>3
  <2>3. item \in Items /\ item.kind = "results"
    BY <2>2 DEF Item, Items
  <2> HIDE DEF item
  <2>4. Append(continuation, item) # << >>
    BY <1>1
  <2> QED BY <1>1, <1>3, <2>1, <2>3, <2>4, OneMoreTurn
<1>4. CASE Last(continuation).kind = "asked" /\ ~(api = "anthropic" /\ Len(next) = 1)
  <2> DEFINE item == Item("results", {})
             one == Append(continuation, item)
  <2>1. Continued(next) = one \o next
    BY <1>4 DEF Continued
  <2>2. item \in Items /\ item.kind = "results"
    BY DEF Item, Items
  <2> HIDE DEF item
  <2>3. one \in Seq(Items) /\ Carries(one) /\ Last(one) = item /\ one # << >>
    BY <1>1, <1>4, <2>2, OneMoreTurn
  <2> HIDE DEF one
  <2> QED BY <2>1, <2>2, <2>3, UserSpeaks
<1> QED BY <1>2, <1>3, <1>4

\* A first request carries the messages' history, and with it every range.
LEMMA OpeningCarries ==
  ASSUME CompactionsTyped, RangesInOrder, NativeIsWhole, NEW context \in Contexts, NEW u \in 1..MaxTalk
  PROVE  /\ Opening(context, u) \in Seq(Items) /\ Opening(context, u) # << >>
         /\ Carries(Opening(context, u)) /\ Last(Opening(context, u)).kind # "asked"
<1> DEFINE words == <<Item("user", {u})>>
<1>1. words \in Seq(Items) /\ Len(words) = 1 /\ DOMAIN words = {1} /\ words[1].kind = "user" /\ words # << >>
  BY DEF Item, Items
<1> HIDE DEF words
<1>2. /\ context \in Seq(Items) /\ Len(context) <= 1 /\ Len(context) \in Nat
      /\ \A k \in DOMAIN context : context[k].kind = "user"
  BY ContextFacts
<1>3. CASE continuation # << >>
  <2> DEFINE next == context \o words
  <2>1. next \in Seq(Items) /\ Len(next) <= 2 /\ next # << >> /\ \A k \in DOMAIN next : next[k].kind = "user"
    <3>1. /\ next \in Seq(Items) /\ Len(next) = Len(context) + 1 /\ DOMAIN next = 1..Len(next)
          /\ \A i \in 1..Len(next) : next[i] = IF i <= Len(context) THEN context[i] ELSE words[i - Len(context)]
      <4>1. /\ next \in Seq(Items) /\ Len(next) = Len(context) + Len(words)
            /\ \A i \in 1..(Len(context) + Len(words)) : next[i] = IF i <= Len(context) THEN context[i] ELSE words[i - Len(context)]
        <5>1. context \in Seq(Items) /\ words \in Seq(Items)
          BY <1>1, <1>2
        <5> QED BY <5>1, ConcatProperties, ZenonT(40)
      <4> HIDE DEF next
      <4> QED BY <1>1, <1>2, <4>1, LenProperties
    <3> HIDE DEF next
    <3>2. ASSUME NEW i \in DOMAIN next PROVE next[i].kind = "user"
      <4>1. CASE i <= Len(context)
        <5>1. i \in DOMAIN context
          BY <1>2, <3>1, <4>1
        <5> QED BY <1>2, <3>1, <4>1, <5>1
      <4>2. CASE i - Len(context) = 1
        BY <1>1, <1>2, <3>1, <4>2
      <4> QED BY <1>2, <3>1, <4>1, <4>2
    <3>3. next # << >>
      BY <1>2, <3>1
    <3> QED BY <1>2, <3>1, <3>2, <3>3
  <2>2. Opening(context, u) = Continued(next)
    BY <1>3 DEF Opening, words
  <2> HIDE DEF next
  <2> QED BY <1>3, <2>1, <2>2, ContinuedCarries
<1>4. CASE continuation = << >>
  <2> DEFINE first == IF api = "anthropic" THEN << >> ELSE <<Item("system", {})>>
             before == first \o context
  <2>1. Opening(context, u) = ((first \o context) \o History) \o words
    BY <1>4 DEF Opening, words
  <2>2. first \in Seq(Items) /\ Plain(first)
    <3> DEFINE system == Item("system", {})
    <3>1. system \in Items /\ system.kind = "system"
      BY DEF Item, Items
    <3> HIDE DEF system
    <3>2. <<system>> \in Seq(Items) /\ Plain(<<system>>) /\ Plain(<< >>)
      BY <3>1 DEF Plain
    <3> QED BY <3>2 DEF system
  <2>3. before \in Seq(Items) /\ Plain(before)
    <3> HIDE DEF first
    <3>1. before \in Seq(Items) /\ Len(before) = Len(first) + Len(context) /\ Len(first) \in Nat
      BY <1>2, <2>2
    <3>2. \A k \in DOMAIN before : IF k <= Len(first) THEN k \in DOMAIN first /\ before[k] = first[k]
                                   ELSE k - Len(first) \in DOMAIN context /\ before[k] = context[k - Len(first)]
      BY <1>2, <2>2
    <3> QED BY <1>2, <2>2, <3>1, <3>2 DEF Plain
  <2> HIDE DEF first, before
  <2>4. TellsAll(History, Len(messages)) /\ Len(messages) \in Nat
    BY HistoryTells DEF CompactionsTyped
  <2>5. History \in Seq(Items) /\ Plain(History)
    BY <2>4 DEF TellsAll, Plain
  <2> DEFINE items == before \o History
  <2>6. items \in Seq(Items) /\ Len(items) = Len(before) + Len(History) /\ Len(before) \in Nat /\ Len(History) \in Nat
    BY <2>3, <2>5
  <2>7. \A k \in DOMAIN items : IF k <= Len(before) THEN k \in DOMAIN before /\ items[k] = before[k]
                                ELSE k - Len(before) \in DOMAIN History /\ items[k] = History[k - Len(before)]
    BY <2>3, <2>5
  <2>8. \A k \in DOMAIN History : Len(before) + k \in DOMAIN items /\ items[Len(before) + k] = History[k]
    BY <2>3, <2>5
  <2>9. Plain(items)
    BY <2>3, <2>5, <2>7 DEF Plain
  <2> HIDE DEF items
  <2>10. Summarised(History) \subseteq Summarised(items)
    BY <2>8 DEF Summarised
  <2>11. \A k \in DOMAIN compactions : compactions[k].from <= Len(messages)
    <3> SUFFICES ASSUME NEW k \in DOMAIN compactions PROVE compactions[k].from <= Len(messages)
      OBVIOUS
    <3>1. compactions[k].from \in CompleteIds
      BY DEF RangesInOrder
    <3> QED BY <3>1 DEF CompleteIds, CompactionsTyped
  <2>12. Carries(items)
    BY <2>4, <2>9, <2>10, <2>11, PlainHasNoIssues DEF Carries, TellsAll
  <2>13. items # << >> => Last(items).kind # "asked"
    <3> SUFFICES ASSUME items # << >> PROVE Last(items).kind # "asked"
      OBVIOUS
    <3>1. Len(items) \in DOMAIN items
      BY <2>6
    <3> QED BY <2>9, <3>1 DEF Plain, Last
  <2>14. /\ items \o words \in Seq(Items) /\ items \o words # << >>
         /\ Carries(items \o words) /\ Last(items \o words).kind # "asked"
    <3>1. Len(words) <= 2 /\ \A k \in DOMAIN words : words[k].kind = "user"
      BY <1>1
    <3> QED BY <1>1, <2>6, <2>12, <2>13, <3>1, UserSpeaks
  <2> QED BY <2>1, <2>14 DEF items, before
<1> QED BY <1>3, <1>4

\* The messages may grow or settle, where no range reaches.
LEMMA RangesStay ==
  ASSUME CompactionsTyped, CompactionsTyped', RangesInOrder, UNCHANGED compactions,
         \A i \in DOMAIN messages : i \in DOMAIN messages',
         \A i \in CompleteIds : i \in CompleteIds',
         \A i \in CompleteIds' : i \in CompleteIds \/ \A k \in DOMAIN compactions : compactions[k].to < i
  PROVE  RangesInOrder'
<1>1. ASSUME NEW k \in DOMAIN compactions
      PROVE  LET row == compactions[k] IN
             /\ row.ids = {i \in CompleteIds' : InRange(row, i)} /\ row.from \in row.ids /\ row.to \in row.ids
             /\ \A i \in CompleteIds' : i <= row.to => \E m \in DOMAIN compactions : InRange(compactions[m], i)
  <2> DEFINE row == compactions[k]
  <2>1. /\ row.ids = {i \in CompleteIds : InRange(row, i)} /\ row.from \in row.ids /\ row.to \in row.ids
        /\ \A i \in CompleteIds : i <= row.to => \E m \in DOMAIN compactions : InRange(compactions[m], i)
    BY DEF RangesInOrder, Covered
  <2>2. row.to \in Nat /\ CompleteIds' \subseteq Nat
    <3>1. row \in Span
      BY DEF CompactionsTyped
    <3> QED BY <3>1 DEF Span, CompleteIds, CompactionsTyped
  <2>3. \A i \in CompleteIds' : i <= row.to => i \in CompleteIds
    BY <2>2
  <2> HIDE DEF row
  <2>4. \A i \in CompleteIds' : InRange(row, i) => i \in CompleteIds
    BY <2>3 DEF InRange
  <2> QED BY <2>1, <2>3, <2>4 DEF row
<1>2. \A k, m \in DOMAIN compactions : k < m => compactions[k].to < compactions[m].from
  BY DEF RangesInOrder
<1> QED BY <1>1, <1>2 DEF RangesInOrder, Covered

\* The ranges do not reach to a message that is streaming, or not there yet.
LEMMA RangesEndBefore ==
  ASSUME CompactionsTyped, RangesInOrder
  PROVE  \A k \in DOMAIN compactions : compactions[k].to \in DOMAIN messages /\ messages[compactions[k].to].status = "complete"
BY DEF RangesInOrder, CompleteIds

\* A compaction adds a range behind the others that leaves nothing out.
LEMMA RangeIsAdded ==
  ASSUME CompactionsInv, NEW keepRecent \in KeepRecents, Compact(keepRecent)
  PROVE  CompactionsTyped' /\ RangesInOrder'
<1> DEFINE older == Older(keepRecent)
           row == [from |-> Min(older), to |-> Max(older), ids |-> older]
           N == Len(messages)
<1>1. CompactionsTyped /\ RangesInOrder /\ UNCHANGED <<api, messages, reply>> /\ compactions' = Append(compactions, row) /\ older # {}
  BY DEF CompactionsInv, Compact
<1>2. N \in Nat /\ N <= MaxTalk /\ MaxTalk \in Nat /\ CompleteIds \subseteq 1..N /\ older \subseteq CompleteIds /\ IsFiniteSet(CompleteIds)
  <2>1. N \in Nat /\ CompleteIds \subseteq 1..N /\ older \subseteq CompleteIds
    BY <1>1 DEF CompactionsTyped, CompleteIds, Older
  <2> HIDE DEF older, N
  <2>2. IsFiniteSet(CompleteIds)
    <3>1. IsFiniteSet(1..N)
      BY <2>1, FS_Interval
    <3> QED BY <2>1, <3>1, FS_Subset
  <2>3. N <= MaxTalk /\ MaxTalk \in Nat
    BY <1>1, CompactionsAssumption DEF CompactionsTyped, N
  <2> QED BY <2>1, <2>2, <2>3
<1> HIDE DEF N
<1>3. /\ row.from = Min(older) /\ row.to = Max(older) /\ row.ids = older
      /\ row.from \in older /\ row.to \in older /\ \A i \in older : row.from <= i /\ i <= row.to
  <2> HIDE DEF older
  <2>1. Max(older) \in older /\ \A i \in older : i <= Max(older)
    BY <1>1, <1>2, GreatestOne
  <2>2. Min(older) \in older /\ \A i \in older : Min(older) <= i
    BY <1>1, <1>2, SmallestOne
  <2> QED BY <2>1, <2>2
<1>4. row \in Span
  <2> HIDE DEF older
  <2>1. older \in SUBSET (1..MaxTalk)
    BY <1>2
  <2> QED BY <1>3, <2>1 DEF Span
<1>5. ASSUME NEW i \in CompleteIds, i <= row.to, ~Covered(i) PROVE i \in older
  <2>1. {j \in CompleteIds : j > row.to} \subseteq {j \in CompleteIds : j > i}
    <3>1. CompleteIds \subseteq Nat /\ row.to \in Nat
      BY <1>2, <1>4 DEF Span
    <3> HIDE DEF row
    <3>2. \A j \in CompleteIds : j > row.to => j > i
      BY <1>5, <3>1
    <3> QED BY <3>2
  <2>2. IsFiniteSet({j \in CompleteIds : j > i}) /\ IsFiniteSet({j \in CompleteIds : j > row.to})
    BY <1>2, FS_Subset
  <2>3. Cardinality({j \in CompleteIds : j > row.to}) <= Cardinality({j \in CompleteIds : j > i})
    BY <2>1, <2>2, FS_Subset
  <2>4. Cardinality({j \in CompleteIds : j > row.to}) >= keepRecent
    BY <1>3 DEF Older
  <2>5. /\ Cardinality({j \in CompleteIds : j > row.to}) \in Nat /\ Cardinality({j \in CompleteIds : j > i}) \in Nat
        /\ keepRecent \in Nat
    BY <2>2, FS_CardinalityType, CompactionsAssumption
  <2>6. Cardinality({j \in CompleteIds : j > i}) >= keepRecent
    BY <2>3, <2>4, <2>5
  <2> QED BY <1>5, <2>6 DEF Older
<1>6. \A i \in older : ~Covered(i)
  BY DEF Older
<1> HIDE DEF older, row
<1>7. \A k \in DOMAIN compactions : compactions[k].to < row.from /\ compactions[k] \in Span
  <2> SUFFICES ASSUME NEW k \in DOMAIN compactions PROVE compactions[k].to < row.from /\ compactions[k] \in Span
    OBVIOUS
  <2>1. row.from <= compactions[k].to => Covered(row.from)
    BY <1>1, <1>2, <1>3 DEF RangesInOrder
  <2>2. compactions[k] \in Span
    BY <1>1 DEF CompactionsTyped
  <2> QED BY <1>3, <1>4, <1>6, <2>1, <2>2 DEF Span
<1>8. row.ids = {i \in CompleteIds : InRange(row, i)}
  <2>1. ASSUME NEW i \in CompleteIds, InRange(row, i) PROVE i \in older
    <3>1. ~Covered(i)
      <4> SUFFICES ASSUME NEW k \in DOMAIN compactions, InRange(compactions[k], i) PROVE FALSE
        BY DEF Covered
      <4>1. i <= compactions[k].to /\ compactions[k].to < row.from /\ row.from <= i
        BY <1>7, <2>1 DEF InRange
      <4> QED BY <1>2, <1>4, <1>7, <4>1 DEF Span
    <3> QED BY <1>5, <2>1, <3>1 DEF InRange
  <2> QED BY <1>2, <1>3, <2>1 DEF InRange
<1> DEFINE more == Append(compactions, row)
           n == Len(compactions)
<1>9. /\ more \in Seq(Span) /\ n \in Nat /\ DOMAIN compactions = 1..n /\ DOMAIN more = 1..(n + 1)
      /\ more[n + 1] = row /\ \A k \in 1..n : more[k] = compactions[k]
  BY <1>1, <1>4 DEF CompactionsTyped
<1> HIDE DEF more, n
<1>10. CompleteIds' = CompleteIds /\ compactions' = more
  BY <1>1 DEF CompleteIds, more
<1>11. continuation' \in Seq(Items)
  <2>1. CASE continuation = << >>
    BY <1>1, <2>1 DEF Compact, CompactionsInv, CompactionsTyped
  <2>2. CASE continuation # << >>
    <3> DEFINE cuts == ValidCuts(KeptTurns(row.to), older)
               cut == Max(cuts)
               before == SubSeq(continuation, 1, cut - 1)
               ids == {i \in DOMAIN before : before[i].summed # {}}
               summary == Summary(UNION {before[i].of : i \in ids}, older \cup UNION {before[i].summed : i \in ids})
    <3>1. continuation' = (SystemItems(before) \o <<summary>>) \o SubSeq(continuation, cut, Len(continuation)) /\ cuts # {}
      BY <2>2 DEF Compact, Retained, row, older
    <3>2. continuation \in Seq(Items) /\ Len(continuation) \in Nat /\ cuts \in SUBSET (1..Len(continuation))
      BY <1>1 DEF CompactionsTyped, ValidCuts, Cuts, Boundaries
    <3>3. cut \in 1..Len(continuation)
      <4> HIDE DEF cuts
      <4> QED BY <3>1, <3>2, GreatestOne
    <3> HIDE DEF cut
    <3>4. /\ before \in Seq(Items) /\ SubSeq(continuation, cut, Len(continuation)) \in Seq(Items)
          /\ \A i \in DOMAIN before : before[i] \in Items
      BY <3>2, <3>3
    <3> HIDE DEF before
    <3>5. summary \in Items
      <4>1. older \in SUBSET (1..MaxTalk)
        BY <1>3, <1>4 DEF Span
      <4>2. \A i \in ids : before[i].of \in SUBSET (1..MaxTalk) /\ before[i].summed \in SUBSET (1..MaxTalk)
        BY <3>4 DEF Items
      <4> HIDE DEF ids
      <4>3. /\ UNION {before[i].of : i \in ids} \in SUBSET (1..MaxTalk)
            /\ older \cup UNION {before[i].summed : i \in ids} \in SUBSET (1..MaxTalk)
        BY <4>1, <4>2
      <4> QED BY <4>3 DEF Summary, Items
    <3>6. SystemItems(before) \in Seq(Items)
      <4>1. Item("system", {}) \in Items
        BY DEF Item, Items
      <4>2. Len(before) \in Nat /\ DOMAIN before = 1..Len(before)
        BY <3>4
      <4>3. Cardinality({k \in DOMAIN before : before[k].kind = "system"}) \in Nat
        <5>1. IsFiniteSet(DOMAIN before)
          BY <4>2, FS_Interval
        <5>2. IsFiniteSet({k \in DOMAIN before : before[k].kind = "system"})
          BY <5>1, FS_Subset
        <5> QED BY <5>2, FS_CardinalityType
      <4> QED BY <4>1, <4>3 DEF SystemItems
    <3> HIDE DEF summary
    <3> QED BY <3>1, <3>4, <3>5, <3>6
  <2> QED BY <2>1, <2>2
<1>12. CompactionsTyped'
  BY <1>1, <1>9, <1>10, <1>11 DEF CompactionsTyped
<1>13. \A i \in CompleteIds : Covered(i)' <=> Covered(i) \/ InRange(row, i)
  BY <1>9, <1>10 DEF Covered
<1>14. ASSUME NEW k \in DOMAIN more
       PROVE  /\ more[k].ids = {i \in CompleteIds : InRange(more[k], i)}
              /\ more[k].from \in more[k].ids /\ more[k].to \in more[k].ids
              /\ \A i \in CompleteIds : i <= more[k].to => Covered(i)'
  <2>1. CASE k \in DOMAIN compactions
    BY <1>1, <1>9, <1>13, <2>1 DEF RangesInOrder
  <2>2. CASE k = n + 1
    <3>1. \A i \in CompleteIds : i <= row.to => Covered(i) \/ InRange(row, i)
      BY <1>3, <1>5 DEF InRange
    <3> QED BY <1>3, <1>8, <1>9, <1>13, <2>2, <3>1
  <2> QED BY <1>9, <2>1, <2>2
<1>15. \A k, m \in DOMAIN more : k < m => more[k].to < more[m].from
  <2> SUFFICES ASSUME NEW k \in DOMAIN more, NEW m \in DOMAIN more, k < m PROVE more[k].to < more[m].from
    OBVIOUS
  <2>1. k \in DOMAIN compactions /\ more[k] = compactions[k]
    BY <1>9
  <2>2. CASE m = n + 1
    BY <1>7, <1>9, <2>1, <2>2
  <2>3. CASE m \in DOMAIN compactions
    BY <1>1, <1>9, <2>1, <2>3 DEF RangesInOrder
  <2> QED BY <1>9, <2>2, <2>3
<1> QED BY <1>10, <1>12, <1>14, <1>15 DEF RangesInOrder

\* It leaves what was summarised, with what it summarises, in the native history.
LEMMA RetainedCarries ==
  ASSUME CompactionsInv, NEW keepRecent \in KeepRecents, Compact(keepRecent), continuation # << >>
  PROVE  Carries(continuation)'
<1> DEFINE older == Older(keepRecent)
           row == [from |-> Min(older), to |-> Max(older), ids |-> older]
           cuts == ValidCuts(KeptTurns(row.to), older)
           cut == Max(cuts)
           before == SubSeq(continuation, 1, cut - 1)
           after == SubSeq(continuation, cut, Len(continuation))
           prior == {i \in DOMAIN before : before[i].summed # {}}
           summary == Summary(UNION {before[i].of : i \in prior}, older \cup UNION {before[i].summed : i \in prior})
           retained == (SystemItems(before) \o <<summary>>) \o after
<1>1. CompactionsTyped /\ Carries(continuation)
  BY DEF CompactionsInv, NativeIsWhole
<1>2. /\ continuation' = Retained(cut, older) /\ Retained(cut, older) = retained /\ cuts # {}
      /\ compactions' = Append(compactions, row)
  BY DEF Compact, Retained
<1>3. continuation \in Seq(Items) /\ Len(continuation) \in Nat /\ cuts \in SUBSET (1..Len(continuation))
  BY <1>1 DEF CompactionsTyped, ValidCuts, Cuts, Boundaries
<1>4. cut \in cuts /\ cut \in 1..Len(continuation)
  <2> HIDE DEF cuts
  <2> QED BY <1>2, <1>3, GreatestOne
<1>5. Issues(Retained(cut, older)) = {}
  BY <1>4 DEF ValidCuts
<1> HIDE DEF cuts, cut
<1>6. /\ before \in Seq(Items) /\ after \in Seq(Items)
      /\ Len(before) = cut - 1 /\ \A i \in 1..(cut - 1) : before[i] = continuation[i]
      /\ Len(after) = Len(continuation) - cut + 1 /\ \A i \in 1..Len(after) : after[i] = continuation[cut + i - 1]
  BY <1>3, <1>4
<1>7. continuation' \in Seq(Items) /\ CompactionsTyped'
  BY RangeIsAdded DEF CompactionsTyped
<1>8. summary.summed = older \cup UNION {before[i].summed : i \in prior}
  BY DEF Summary
<1> HIDE DEF before, after, summary
<1> DEFINE heads == Cardinality({k \in DOMAIN before : before[k].kind = "system"})
<1>9. heads \in Nat
  <2>1. DOMAIN before = 1..Len(before) /\ Len(before) \in Nat
    BY <1>6
  <2>2. IsFiniteSet(DOMAIN before)
    BY <2>1, FS_Interval
  <2>3. IsFiniteSet({k \in DOMAIN before : before[k].kind = "system"})
    BY <2>2, FS_Subset
  <2> QED BY <2>3, FS_CardinalityType
<1> HIDE DEF heads
<1>10. /\ heads + 1 \in DOMAIN retained /\ retained[heads + 1] = summary
       /\ \A i \in 1..Len(after) : heads + 1 + i \in DOMAIN retained /\ retained[heads + 1 + i] = after[i]
  <2> DEFINE first == SystemItems(before)
             begin == first \o <<summary>>
             T == {Item("system", {}), summary} \cup Items
  <2>1. first \in Seq(T) /\ Len(first) = heads
    BY <1>9 DEF SystemItems, heads
  <2>2. <<summary>> \in Seq(T) /\ Len(<<summary>>) = 1 /\ <<summary>>[1] = summary
    OBVIOUS
  <2> HIDE DEF first
  <2>3. begin \in Seq(T) /\ Len(begin) = heads + 1 /\ begin[heads + 1] = summary
    BY <1>9, <2>1, <2>2
  <2>4. after \in Seq(T) /\ Len(after) \in Nat
    BY <1>6, SeqMonotonic
  <2> HIDE DEF begin, T
  <2>5. /\ begin \o after \in Seq(T) /\ Len(begin \o after) = Len(begin) + Len(after)
        /\ \A i \in 1..(Len(begin) + Len(after)) : (begin \o after)[i] = IF i <= Len(begin) THEN begin[i] ELSE after[i - Len(begin)]
    BY <2>3, <2>4, ConcatProperties, Zenon
  <2>6. DOMAIN (begin \o after) = 1..(heads + 1 + Len(after))
    BY <1>9, <2>3, <2>4, <2>5, LenProperties
  <2>7. heads + 1 \in DOMAIN (begin \o after) /\ (begin \o after)[heads + 1] = summary
    BY <1>9, <2>3, <2>4, <2>5, <2>6
  <2>8. ASSUME NEW i \in 1..Len(after)
        PROVE  heads + 1 + i \in DOMAIN (begin \o after) /\ (begin \o after)[heads + 1 + i] = after[i]
    <3>1. heads + 1 + i \in 1..(Len(begin) + Len(after)) /\ ~(heads + 1 + i <= Len(begin)) /\ heads + 1 + i - Len(begin) = i
      BY <1>9, <2>3, <2>4
    <3> QED BY <2>3, <2>5, <2>6, <3>1
  <2> QED BY <2>7, <2>8 DEF begin, first
<1> HIDE DEF retained
<1>11. summary.summed \subseteq Summarised(retained) /\ \A i \in 1..Len(after) : after[i].summed \subseteq Summarised(retained)
  <2>1. summary.summed \subseteq Summarised(retained)
    BY <1>10 DEF Summarised
  <2>2. ASSUME NEW i \in 1..Len(after) PROVE after[i].summed \subseteq Summarised(retained)
    BY <1>10 DEF Summarised
  <2> QED BY <2>1, <2>2
<1>12. Summarised(continuation) \subseteq Summarised(retained)
  <2> SUFFICES ASSUME NEW i \in DOMAIN continuation PROVE continuation[i].summed \subseteq Summarised(retained)
    BY DEF Summarised
  <2>0. i \in 1..Len(continuation)
    BY <1>3
  <2>1. CASE i \in 1..(cut - 1)
    <3>1. i \in DOMAIN before /\ before[i] = continuation[i]
      BY <1>3, <1>4, <1>6, <2>1
    <3>2. before[i].summed \subseteq summary.summed
      BY <1>8, <3>1
    <3> QED BY <1>11, <3>1, <3>2
  <2>2. CASE i \in cut..Len(continuation)
    <3>1. i - cut + 1 \in 1..Len(after) /\ cut + (i - cut + 1) - 1 = i
      BY <1>3, <1>4, <1>6, <2>2
    <3>2. after[i - cut + 1] = continuation[i]
      BY <1>6, <3>1
    <3> QED BY <1>11, <3>1, <3>2
  <2> QED BY <1>3, <1>4, <2>0, <2>1, <2>2
<1>13. \A k \in DOMAIN compactions' : compactions'[k].ids \subseteq Summarised(retained)
  <2> SUFFICES ASSUME NEW k \in DOMAIN compactions' PROVE compactions'[k].ids \subseteq Summarised(retained)
    OBVIOUS
  <2> HIDE DEF older
  <2>1. CASE k \in DOMAIN compactions
    <3>1. compactions'[k] = compactions[k]
      BY <1>1, <1>2, <2>1 DEF CompactionsTyped
    <3> QED BY <1>1, <1>12, <2>1, <3>1 DEF Carries
  <2>2. CASE k = Len(compactions) + 1
    <3>1. compactions'[k].ids = older
      BY <1>1, <1>2, <2>2 DEF CompactionsTyped
    <3> QED BY <1>8, <1>11, <3>1
  <2>3. k \in DOMAIN compactions \/ k = Len(compactions) + 1
    BY <1>1, <1>2 DEF CompactionsTyped
  <2> QED BY <2>1, <2>2, <2>3
<1>14. Issues(continuation') = {} /\ continuation' = retained
  BY <1>2, <1>5
<1>15. Issues(continuation)' = {} /\ \A k \in DOMAIN compactions' : compactions'[k].ids \subseteq Summarised(continuation)'
  BY <1>13, <1>14 DEF Issues, Summarised
<1> QED BY <1>15 DEF Carries

\* Every step keeps messages, ranges and the native history together.
LEMMA CompactionsStep == CompactionsInv /\ [CompactionsNext]_cpVars => CompactionsInv'
<1> SUFFICES ASSUME CompactionsInv, [CompactionsNext]_cpVars PROVE CompactionsInv'
  OBVIOUS
<1>t. /\ CompactionsTyped /\ LastStreams /\ RangesInOrder /\ NativeIsWhole
      /\ messages \in Seq(Message) /\ Len(messages) \in Nat /\ DOMAIN messages = 1..Len(messages) /\ reply \in Reply
      /\ \A k \in DOMAIN compactions : compactions[k].to \in DOMAIN messages /\ messages[compactions[k].to].status = "complete"
  BY RangesEndBefore DEF CompactionsInv, CompactionsTyped
<1>1. CASE StartReply
  <2> DEFINE N == Len(messages)
             new == <<[role |-> "user", status |-> "complete"], [role |-> "assistant", status |-> "streaming"]>>
  <2>1. /\ messages' = messages \o new /\ N + 2 <= MaxTalk /\ reply.step = "none"
        /\ UNCHANGED <<api, compactions, continuation>> /\ N + 1 \in 1..MaxTalk
    BY <1>1, <1>t, CompactionsAssumption DEF StartReply
  <2>2. new \in Seq(Message) /\ Len(new) = 2 /\ new[1].status = "complete" /\ new[2].status = "streaming"
    BY DEF Message
  <2> HIDE DEF new
  <2>3. /\ messages' \in Seq(Message) /\ Len(messages') = N + 2 /\ DOMAIN messages' = 1..(N + 2)
        /\ messages'[N + 1].status = "complete" /\ messages'[N + 2].status = "streaming"
        /\ \A i \in 1..N : messages'[i] = messages[i]
    <3>1. /\ messages \o new \in Seq(Message) /\ Len(messages \o new) = N + Len(new)
          /\ \A i \in 1..(N + Len(new)) : (messages \o new)[i] = IF i <= N THEN messages[i] ELSE new[i - N]
      BY <1>t, <2>2, ConcatProperties, Zenon
    <3>2. DOMAIN (messages \o new) = 1..(N + 2)
      BY <2>2, <3>1, LenProperties
    <3>3. N + 1 \in 1..(N + Len(new)) /\ N + 1 - N = 1 /\ ~(N + 1 <= N) /\ N + 2 \in 1..(N + Len(new)) /\ N + 2 - N = 2 /\ ~(N + 2 <= N)
      BY <1>t, <2>2
    <3>4. (messages \o new)[N + 1] = new[1] /\ (messages \o new)[N + 2] = new[2]
      BY <3>1, <3>3
    <3> QED BY <1>t, <2>1, <2>2, <3>1, <3>2, <3>4
  <2>4. /\ reply'.step = "sent" /\ reply' \in Reply
        /\ reply'.sent # << >> => Carries(reply'.sent) /\ Last(reply'.sent).kind # "asked"
    <3>1. ASSUME NEW context \in Contexts, reply' = [step |-> "sent", rounds |-> 1, sent |-> Opening(context, N + 1)]
          PROVE  /\ reply'.step = "sent" /\ reply' \in Reply
                 /\ reply'.sent # << >> => Carries(reply'.sent) /\ Last(reply'.sent).kind # "asked"
      <4> DEFINE o == Opening(context, N + 1)
      <4>1. o \in Seq(Items) /\ Carries(o) /\ Last(o).kind # "asked"
        BY <1>t, <2>1, OpeningCarries
      <4> HIDE DEF o
      <4>2. reply' = [step |-> "sent", rounds |-> 1, sent |-> o]
        BY <3>1 DEF o
      <4> QED BY <4>1, <4>2 DEF Reply
    <3>2. CASE reply' = [step |-> "sent", rounds |-> 1, sent |-> << >>]
      BY <3>2 DEF Reply
    <3> QED BY <1>1, <3>1, <3>2 DEF StartReply
  <2> HIDE DEF N
  <2>5. CompactionsTyped'
    BY <1>t, <2>1, <2>3, <2>4 DEF CompactionsTyped
  <2>6. LastStreams'
    <3>1. \A i \in 1..N : messages[i].status # "streaming"
      BY <1>t, <2>1 DEF LastStreams, N
    <3>2. \A i \in DOMAIN messages' : messages'[i].status = "streaming" <=> i = N + 2
      <4> SUFFICES ASSUME NEW i \in DOMAIN messages' PROVE messages'[i].status = "streaming" <=> i = N + 2
        OBVIOUS
      <4>1. i \in 1..N \/ i = N + 1 \/ i = N + 2
        BY <1>t, <2>3 DEF N
      <4> QED BY <1>t, <2>3, <3>1, <4>1 DEF N
    <3>3. messages' # << >>
      BY <1>t, <2>3 DEF N
    <3> QED BY <2>3, <2>4, <3>2, <3>3 DEF LastStreams
  <2>7. RangesInOrder'
    <3>1. \A i \in CompleteIds : i \in CompleteIds'
      BY <1>t, <2>3 DEF CompleteIds, N
    <3>2. \A i \in CompleteIds' : i \in CompleteIds \/ i = N + 1
      <4> SUFFICES ASSUME NEW i \in 1..(N + 2), messages'[i].status = "complete" PROVE i \in CompleteIds \/ i = N + 1
        BY <2>3 DEF CompleteIds
      <4>1. i \in 1..N \/ i = N + 1 \/ i = N + 2
        BY <1>t DEF N
      <4> QED BY <1>t, <2>3, <4>1 DEF CompleteIds, N
    <3>3. \A k \in DOMAIN compactions : compactions[k].to < N + 1
      BY <1>t DEF N
    <3>4. \A i \in DOMAIN messages : i \in DOMAIN messages'
      BY <1>t, <2>3 DEF N
    <3> QED BY <1>t, <2>1, <2>5, <3>1, <3>2, <3>3, <3>4, RangesStay
  <2>8. NativeIsWhole'
    <3>1. (Carries(continuation)' <=> Carries(continuation)) /\ (Carries(reply.sent)' <=> Carries(reply'.sent))
      BY <2>1 DEF Carries, Issues, Summarised
    <3>2. Last(reply.sent)' = Last(reply'.sent)
      BY DEF Last
    <3> QED BY <1>t, <2>1, <2>4, <3>1, <3>2 DEF NativeIsWhole
  <2> QED BY <2>5, <2>6, <2>7, <2>8 DEF CompactionsInv
<1>2. ASSUME NEW calls \in BOOLEAN, TakeAnswer(calls) PROVE CompactionsInv'
  <2>1. /\ UNCHANGED <<api, messages, compactions>> /\ reply.step = "sent" /\ Len(messages) \in 1..MaxTalk
        /\ reply'.step = (IF calls THEN "answered" ELSE "told") /\ reply'.sent = << >> /\ reply' \in Reply
        /\ calls => reply.sent # << >>
    <3>1. Len(messages) \in 1..MaxTalk
      BY <1>2, <1>t DEF TakeAnswer, LastStreams, CompactionsTyped
    <3>2. reply' = [reply EXCEPT !.step = IF calls THEN "answered" ELSE "told", !.sent = << >>]
      BY <1>2 DEF TakeAnswer
    <3>3. /\ reply'.step = (IF calls THEN "answered" ELSE "told") /\ reply'.sent = << >> /\ reply' \in Reply
      <4> DEFINE step == IF calls THEN "answered" ELSE "told"
      <4>1. step \in {"answered", "told"} /\ << >> \in Seq(Items)
        OBVIOUS
      <4> HIDE DEF step
      <4>2. reply' = [reply EXCEPT !.step = step, !.sent = << >>]
        BY <3>2 DEF step
      <4>3. reply'.step = step /\ reply'.sent = << >> /\ reply' \in Reply
        BY <1>t, <4>1, <4>2 DEF Reply
      <4> QED BY <4>3 DEF step
    <3> QED BY <1>2, <3>1, <3>3 DEF TakeAnswer
  <2>2. /\ continuation' \in Seq(Items) /\ (continuation' # << >> => Carries(continuation'))
        /\ calls => continuation' # << >> /\ Last(continuation').kind = "asked"
    <3>1. CASE reply.sent = << >>
      BY <1>2, <1>t, <2>1, <3>1 DEF TakeAnswer, NativeIsWhole, CompactionsTyped
    <3>2. CASE reply.sent # << >>
      <4> DEFINE item == Item(IF calls THEN "asked" ELSE "said", {Len(messages)})
                 sent == reply.sent
      <4>1. continuation' = Append(sent, item)
        BY <1>2, <3>2 DEF TakeAnswer
      <4>2. item \in Items /\ item.kind = IF calls THEN "asked" ELSE "said"
        BY <2>1 DEF Item, Items
      <4>3. sent \in Seq(Items) /\ Carries(sent) /\ Last(sent).kind # "asked"
        BY <1>t, <3>2 DEF Reply, NativeIsWhole
      <4> HIDE DEF item, sent
      <4>4. Append(sent, item) \in Seq(Items) /\ Carries(Append(sent, item)) /\ Last(Append(sent, item)) = item
        BY <4>2, <4>3, OneMoreTurn
      <4> QED BY <4>1, <4>2, <4>3, <4>4
    <3> QED BY <3>1, <3>2
  <2>3. NativeIsWhole'
    BY <2>1, <2>2 DEF NativeIsWhole, Carries, Issues, Summarised, Last
  <2>4. CompactionsTyped' /\ LastStreams' /\ RangesInOrder'
    BY <1>t, <2>1, <2>2 DEF CompactionsTyped, LastStreams, RangesInOrder, CompleteIds, Covered
  <2> QED BY <2>3, <2>4 DEF CompactionsInv
<1>3. CASE NextRound
  <2>1. PICK context \in Contexts : reply' = [step |-> "sent", rounds |-> reply.rounds + 1, sent |-> Continued(context)]
    BY <1>3 DEF NextRound
  <2>2. UNCHANGED <<api, messages, compactions, continuation>> /\ reply.step = "answered"
    BY <1>3 DEF NextRound
  <2> DEFINE c == Continued(context)
  <2>3. c \in Seq(Items) /\ Carries(c) /\ Last(c).kind # "asked"
    <3>1. continuation # << >> /\ Last(continuation).kind = "asked"
      BY <1>t, <2>2 DEF NativeIsWhole
    <3>2. context \in Seq(Items) /\ Len(context) <= 2 /\ \A k \in DOMAIN context : context[k].kind = "user"
      BY ContextFacts
    <3> QED BY <1>t, <3>1, <3>2, ContinuedCarries
  <2> HIDE DEF c
  <2>4. reply' = [step |-> "sent", rounds |-> reply.rounds + 1, sent |-> c]
    BY <2>1 DEF c
  <2>5. reply' \in Reply /\ reply'.step = "sent" /\ reply'.sent = c
    BY <1>t, <2>3, <2>4 DEF Reply
  <2>6. NativeIsWhole'
    <3>1. (Carries(continuation)' <=> Carries(continuation)) /\ (Carries(reply.sent)' <=> Carries(reply'.sent))
      BY <2>2 DEF Carries, Issues, Summarised
    <3>2. Last(reply.sent)' = Last(reply'.sent)
      BY DEF Last
    <3> QED BY <1>t, <2>2, <2>3, <2>5, <3>1, <3>2 DEF NativeIsWhole
  <2>7. CompactionsTyped' /\ LastStreams' /\ RangesInOrder'
    BY <1>t, <2>2, <2>5 DEF CompactionsTyped, LastStreams, RangesInOrder, CompleteIds, Covered
  <2> QED BY <2>6, <2>7 DEF CompactionsInv
<1>4. ASSUME NEW status \in {"complete", "failed"}, EndReply(status), reply.step # "none" PROVE CompactionsInv'
  <2> DEFINE N == Len(messages)
  <2>1. N \in DOMAIN messages /\ messages[N] \in Message /\ messages[N].status = "streaming"
    BY <1>t, <1>4 DEF LastStreams
  <2>2. /\ messages' \in Seq(Message) /\ Len(messages') = N /\ DOMAIN messages' = DOMAIN messages
        /\ messages'[N].status = status /\ \A i \in DOMAIN messages : i # N => messages'[i] = messages[i]
    <3> DEFINE ended == [messages[N] EXCEPT !.status = status]
    <3>1. ended \in Message /\ ended.status = status
      BY <2>1 DEF Message
    <3>2. messages' = [messages EXCEPT ![N] = ended]
      BY <1>4 DEF EndReply
    <3> HIDE DEF ended
    <3> QED BY <1>t, <2>1, <3>1, <3>2
  <2>3. UNCHANGED <<api, compactions, continuation>> /\ reply' = NoReply
    BY <1>4 DEF EndReply
  <2> HIDE DEF N
  <2>4. reply' \in Reply /\ reply'.step = "none" /\ reply'.sent = << >>
    BY <2>3 DEF NoReply, Reply
  <2>5. CompactionsTyped'
    BY <1>t, <2>2, <2>3, <2>4 DEF CompactionsTyped, N
  <2>6. LastStreams'
    BY <1>t, <1>4, <2>2, <2>4 DEF LastStreams, N
  <2>7. RangesInOrder'
    <3>1. \A k \in DOMAIN compactions : compactions[k].to < N
      BY <1>t, <2>1 DEF N
    <3>2. \A i \in CompleteIds : i \in CompleteIds'
      BY <2>1, <2>2 DEF CompleteIds
    <3>3. \A i \in CompleteIds' : i \in CompleteIds \/ i = N
      BY <2>2 DEF CompleteIds
    <3> QED BY <1>t, <2>2, <2>3, <2>5, <3>1, <3>2, <3>3, RangesStay
  <2>8. NativeIsWhole'
    BY <1>t, <2>3, <2>4 DEF NativeIsWhole, Carries, Issues, Summarised, Last
  <2> QED BY <2>5, <2>6, <2>7, <2>8 DEF CompactionsInv
<1>5. CASE FinishReply
  BY <1>4, <1>5 DEF FinishReply
<1>6. CASE BreakReply
  BY <1>4, <1>6 DEF BreakReply
<1>7. ASSUME NEW keepRecent \in KeepRecents, Compact(keepRecent) PROVE CompactionsInv'
  <2>1. CompactionsTyped' /\ RangesInOrder'
    BY <1>7, RangeIsAdded
  <2>2. UNCHANGED <<api, messages, reply>> /\ reply.step = "none"
    BY <1>7 DEF Compact
  <2>3. LastStreams'
    BY <1>t, <2>2 DEF LastStreams
  <2>4. (continuation # << >>)' => Carries(continuation)'
    <3>1. CASE continuation = << >>
      BY <1>7, <3>1 DEF Compact
    <3>2. CASE continuation # << >>
      BY <1>7, <3>2, RetainedCarries
    <3> QED BY <3>1, <3>2
  <2>5. reply.sent = << >>
    BY <1>t, <2>2 DEF NativeIsWhole
  <2>6. NativeIsWhole'
    BY <2>2, <2>4, <2>5 DEF NativeIsWhole
  <2> QED BY <2>1, <2>3, <2>6 DEF CompactionsInv
<1>8. CASE UNCHANGED cpVars
  <2>1. UNCHANGED <<api, messages, compactions, continuation, reply>>
    BY <1>8 DEF cpVars
  <2>2. CompactionsTyped' /\ LastStreams'
    BY <1>t, <2>1 DEF CompactionsTyped, LastStreams
  <2>3. RangesInOrder'
    BY <1>t, <2>1 DEF RangesInOrder, CompleteIds, Covered
  <2>4. NativeIsWhole'
    BY <1>t, <2>1 DEF NativeIsWhole, Carries, Issues, Summarised, Last
  <2> QED BY <2>2, <2>3, <2>4 DEF CompactionsInv
<1> QED BY <1>1, <1>2, <1>3, <1>5, <1>6, <1>7, <1>8 DEF CompactionsNext

\* CompactionsInv holds in every reachable state.
LEMMA CompactionsInvariant == CompactionsSpec => []CompactionsInv
BY CompactionsStart, CompactionsStep, PTL DEF CompactionsSpec

\* Messages, ranges, the native history and the request under way hold what they are
\* declared to, after any turns and compactions.
THEOREM CompactionsTypeCorrect == CompactionsSpec => []CompactionsTypeOK
<1>1. CompactionsInv => CompactionsTypeOK
  <2> SUFFICES ASSUME CompactionsInv PROVE CompactionsTypeOK
    OBVIOUS
  <2>1. CompactionsTyped
    BY DEF CompactionsInv
  <2>2. reply.step \in {"none", "sent", "answered", "told"} /\ \A i \in DOMAIN reply.sent : reply.sent[i] \in Items
    <3>1. reply.sent \in Seq(Items) /\ reply.step \in {"none", "sent", "answered", "told"}
      BY <2>1 DEF CompactionsTyped, Reply
    <3> QED BY <3>1
  <2>3. \A i \in DOMAIN messages : messages[i] \in Message
    BY <2>1 DEF CompactionsTyped
  <2>4. \A k \in DOMAIN compactions : compactions[k] \in Span
    BY <2>1 DEF CompactionsTyped
  <2>5. \A i \in DOMAIN continuation : continuation[i] \in Items
    BY <2>1 DEF CompactionsTyped
  <2> QED BY <2>1, <2>2, <2>3, <2>4, <2>5 DEF CompactionsTyped, CompactionsTypeOK, Message, Span
<1> QED BY <1>1, CompactionsInvariant, PTL

\* However many turns fail and compactions follow one another, every complete
\* message is shown exactly once, calls are answered, and what was summarised stays so
\* (compaction.ts: applyCompactions, compactContinuation).
THEOREM ConversationStaysTold == CompactionsSpec => []ConversationIsTold
<1>1. CompactionsInv => ConversationIsTold
  <2> SUFFICES ASSUME CompactionsInv PROVE ConversationIsTold
    OBVIOUS
  <2>1. TellsAll(History, Len(messages)) /\ CompactionsTyped /\ RangesInOrder
    BY HistoryTells DEF CompactionsInv
  <2>2. ASSUME NEW i \in CompleteIds
        PROVE  Cardinality({k \in DOMAIN History : i \in History[k].of \cup History[k].summed}) = 1
    <3>1. i \in StillShown(Len(messages))
      <4>1. i \in 1..Len(messages)
        BY <2>1 DEF CompleteIds, CompactionsTyped
      <4>2. CASE Covered(i)
        <5>1. PICK k \in DOMAIN compactions : InRange(compactions[k], i)
          BY <4>2 DEF Covered
        <5>2. i \in compactions[k].ids
          BY <2>1, <5>1 DEF RangesInOrder
        <5>3. compactions[k].from \in DOMAIN messages
          BY <2>1 DEF RangesInOrder, CompleteIds
        <5>4. compactions[k].from <= Len(messages)
          BY <2>1, <5>3 DEF CompactionsTyped
        <5> QED BY <5>2, <5>4 DEF StillShown
      <4> QED BY <4>1, <4>2 DEF StillShown
    <3>2. PICK k \in DOMAIN History : i \in ToldBy(History[k])
      BY <2>1, <3>1 DEF TellsAll
    <3>3. \A m \in DOMAIN History : i \in ToldBy(History[m]) => m = k
      BY <2>1, <3>2 DEF TellsAll
    <3>4. {m \in DOMAIN History : i \in History[m].of \cup History[m].summed} = {k}
      BY <3>2, <3>3 DEF ToldBy
    <3> QED BY <3>4, FS_Singleton
  <2>3. Issues(continuation) = {} /\ (continuation # << >> =>
          \A k \in DOMAIN compactions : compactions[k].ids \subseteq UNION {continuation[i].summed : i \in DOMAIN continuation})
    <3>1. continuation = << >> => Issues(continuation) = {}
      BY DEF Issues
    <3> QED BY <3>1 DEF CompactionsInv, NativeIsWhole, Carries, Summarised
  <2> QED BY <2>2, <2>3 DEF ConversationIsTold
<1> QED BY <1>1, CompactionsInvariant, PTL
====
