----------------------------- MODULE AgentProofs -----------------------------
(***************************************************************************)
(* Proofs about the agents.  First AgentRuntime, the event streams, the    *)
(* runtime cache and the shell jobs of a process, each for any number of   *)
(* actors.  Then SpecialistSessions, for every set of sessions and tool    *)
(* calls and every size of the lock pool: SInv is inductive; what a tool   *)
(* call holds follows its phase, so that a deletion meets no delegation, a *)
(* new session has a slot and a result that was recorded is found again.   *)
(***************************************************************************)
EXTENDS AgentRuntime, SpecialistSessions, FiniteSetTheorems, SequenceTheorems, TLAPS

-----------------------------------------------------------------------------
(* The event streams.                                                      *)

(* The items of w are events one after the other, the last one is hi.      *)
Consecutive(w, hi) ==
    \A i \in 1 .. Len(w) :
        /\ w[i].kind = "event" /\ 1 <= w[i].first /\ w[i].first <= w[i].last /\ w[i].last <= hi
        /\ IF i = Len(w) THEN w[i].last = hi ELSE w[i + 1].first = w[i].last + 1

(* The last event before the queue of a client.                            *)
Position(s, h) == IF s.replay # <<>> \/ h.last = 0 THEN s.joined ELSE h.last
InOrder(s, h, n) ==
    \A i \in 1 .. n : s.queue[i] = Events!Item("event", Position(s, h) + i, Position(s, h) + i)
ReplayInOrder(s, h) ==
    /\ Consecutive(s.replay, s.joined)
    /\ s.replay # <<>> /\ h.last # 0 => s.replay[1].first = h.last + 1

(* A client the Run still broadcasts to, one that has `done` in its queue  *)
(* or has received it, and one whose queue was full.                       *)
Live(c) ==
    LET s == stream[c]
    IN  /\ c \in listeners[s.run] /\ phase[s.run] # "finished" /\ heard[c].said = "nothing"
        /\ InOrder(s, heard[c], Len(s.queue))
        /\ Position(s, heard[c]) + Len(s.queue) = published[s.run]
Finishing(c) ==
    LET s == stream[c]
        n == Len(s.queue) - 2
    IN  /\ phase[s.run] = "finished" /\ heard[c].said = "nothing"
        /\ n \in Nat /\ InOrder(s, heard[c], n) /\ s.queue[n + 1] = Events!Done /\ s.queue[n + 2] = Events!EndMark
        /\ Position(s, heard[c]) + n = published[s.run]
ToldDone(c) ==
    LET s == stream[c]
    IN  /\ phase[s.run] = "finished" /\ heard[c].said = "done"
        /\ s.replay = <<>> /\ s.queue = <<Events!EndMark>>
        /\ Position(s, heard[c]) = published[s.run]
Cut(c) ==
    LET s == stream[c]
    IN  /\ c \notin listeners[s.run]
        /\ \/ heard[c].said = "nothing" /\ s.queue = <<Events!Dropped, Events!EndMark>>
           \/ heard[c].said = "error" /\ s.replay = <<>> /\ s.queue = <<Events!EndMark>>

Listening(c) ==
    /\ phase[stream[c].run] # "new"
    /\ ReplayInOrder(stream[c], heard[c])
    /\ Live(c) \/ Finishing(c) \/ ToldDone(c) \/ Cut(c)

(* A client of no Run is told `done` at once.                              *)
NothingToHear(c) ==
    LET s == stream[c]
    IN  /\ s.queue = <<Events!EndMark>> /\ heard[c].first = 0 /\ heard[c].last = 0
        /\ \/ s.replay = <<Events!Done>> /\ heard[c].said = "nothing"
           \/ s.replay = <<>> /\ heard[c].said = "done"

Heard(c) ==
    LET s == stream[c]
        h == heard[c]
    IN  /\ ~h.gap /\ h.first <= s.joined + 1 /\ (h.first = 0 <=> h.last = 0)
        /\ h.said = "done" /\ s.run # NoRun =>
             /\ phase[s.run] = "finished"
             /\ IF h.first = 0 THEN s.joined = published[s.run] ELSE h.last = published[s.run]
        /\ s.state = "away" => s = Events!Away
        /\ s.state = "starting" => s.run # NoRun /\ s.replay = <<>>
        /\ s.state \in {"away", "starting", "refused", "left"} => h = Events!Nothing
        /\ s.state = "closed" => h.said # "nothing"
        /\ s.state \notin {"starting", "open"} => s.queue = <<>> /\ s.replay = <<>>
        /\ Len(s.queue) <= QueueLimit
        /\ s.state \in {"starting", "open"} =>
             IF s.run = NoRun THEN NothingToHear(c) ELSE Listening(c)

RunsInOrder ==
    /\ registry # NoRun => phase[registry] \notin {"new", "finished"}
    /\ \A r \in Runs :
         /\ phase[r] \in {"new", "admitting"} => published[r] = 0
         /\ phase[r] = "new" => window[r] = <<>>
         /\ phase[r] # "finished" => Consecutive(Events!Items(window[r]), published[r])
         /\ \A c \in listeners[r] : stream[c].run = r /\ stream[c].state \in {"starting", "open"}

EventsInv == Events!TypeOK /\ RunsInOrder /\ \A c \in Clients : Heard(c)

-----------------------------------------------------------------------------
LEMMA EventsApart == NoRun \notin Runs /\ QueueLimit \in Nat /\ QueueLimit >= 2 /\ Large \in Nat
BY RuntimeAssumption DEF Events!EventsAssumption

LEMMA ItemTypes ==
    /\ Events!Done \in Events!QueueItems /\ Events!Dropped \in Events!QueueItems /\ Events!EndMark \in Events!QueueItems
    /\ \A n \in Nat : Events!Item("event", n, n) \in Events!QueueItems
    /\ Events!Done.kind = "done" /\ Events!Dropped.kind = "error" /\ Events!EndMark.kind = "end"
    /\ Events!Done # Events!EndMark /\ Events!Dropped # Events!EndMark
    /\ Events!Away \in Events!Streams /\ Events!Nothing \in Events!Histories
BY DEF Events!Done, Events!Dropped, Events!EndMark, Events!Item, Events!QueueItems, Events!Away, Events!Nothing, Events!Streams, Events!Histories, Events!States

LEMMA ItemsOfWindow ==
    ASSUME NEW w \in Seq(Events!WindowItems)
    PROVE  /\ Events!Items(w) \in Seq(Events!QueueItems) /\ Len(Events!Items(w)) = Len(w)
           /\ \A i \in 1 .. Len(w) : Events!Items(w)[i] = w[i].item
<1>1. w \in [1 .. Len(w) -> Events!WindowItems] /\ DOMAIN w = 1 .. Len(w) /\ Len(w) \in Nat
  BY LenProperties
<1>2. Events!Items(w) \in [1 .. Len(w) -> Events!QueueItems]
  BY <1>1 DEF Events!Items, Events!WindowItems
<1>3. Events!Items(w) \in Seq(Events!QueueItems)
  BY <1>1, <1>2, SeqDef
<1>4. DOMAIN Events!Items(w) = 1 .. Len(w) /\ DOMAIN Events!Items(w) = 1 .. Len(Events!Items(w)) /\ Len(Events!Items(w)) \in Nat
  BY <1>2, <1>3, LenProperties
<1>5. Len(Events!Items(w)) = Len(w)
  BY <1>1, <1>4
<1>. QED  BY <1>1, <1>3, <1>5 DEF Events!Items

LEMMA MergedInOrder ==
    ASSUME NEW w \in Seq(Events!WindowItems), NEW e \in Events!WindowItems, NEW continues \in BOOLEAN
    PROVE  /\ Events!Merged(w, e, continues) \in Seq(Events!WindowItems)
           /\ \A hi \in Nat : Consecutive(Events!Items(w), hi) /\ e.item = Events!Item("event", hi + 1, hi + 1)
                 => Consecutive(Events!Items(Events!Merged(w, e, continues)), hi + 1)
<1>1. CASE Events!Merged(w, e, continues) = Append(w, e)
  <2>1. Append(w, e) \in Seq(Events!WindowItems) /\ Len(Append(w, e)) = Len(w) + 1
        /\ \A i \in 1 .. Len(w) + 1 : Append(w, e)[i] = IF i = Len(w) + 1 THEN e ELSE w[i]
    OBVIOUS
  <2>2. ASSUME NEW hi \in Nat, Consecutive(Events!Items(w), hi), e.item = Events!Item("event", hi + 1, hi + 1)
        PROVE  Consecutive(Events!Items(Append(w, e)), hi + 1)
    <3>. DEFINE n == Len(w)
                a == Events!Items(Append(w, e))
    <3>1. n \in Nat /\ Len(Events!Items(w)) = n
          /\ \A i \in 1 .. n : Events!Items(w)[i] = w[i].item /\ Events!Items(w)[i].last \in Nat
      <4>1. n \in Nat /\ Len(Events!Items(w)) = n /\ \A i \in 1 .. n : Events!Items(w)[i] = w[i].item
        BY ItemsOfWindow, LenProperties
      <4>2. \A i \in 1 .. n : w[i] \in Events!WindowItems
        BY ElementOfSeq
      <4>. QED  BY <4>1, <4>2 DEF Events!WindowItems, Events!QueueItems
    <3>2. Len(a) = n + 1 /\ \A i \in 1 .. n + 1 : a[i] = IF i = n + 1 THEN e.item ELSE w[i].item
      <4>1. Len(a) = Len(Append(w, e)) /\ \A i \in 1 .. Len(Append(w, e)) : a[i] = Append(w, e)[i].item
        BY <2>1, ItemsOfWindow
      <4>. QED  BY <4>1, <2>1, <3>1
    <3>. HIDE DEF a, n
    <3>3. e.item.kind = "event" /\ e.item.first = hi + 1 /\ e.item.last = hi + 1
      BY <2>2 DEF Events!Item
    <3>4. ASSUME NEW i \in 1 .. n + 1
          PROVE  /\ a[i].kind = "event" /\ 1 <= a[i].first /\ a[i].first <= a[i].last /\ a[i].last <= hi + 1
                 /\ IF i = n + 1 THEN a[i].last = hi + 1 ELSE a[i + 1].first = a[i].last + 1
      <4>1. CASE i = n + 1
        BY <4>1, <3>1, <3>2, <3>3
      <4>2. CASE i # n + 1
        <5>1. i \in 1 .. n /\ i + 1 \in 1 .. n + 1 /\ a[i] = Events!Items(w)[i]
          BY <4>2, <3>1, <3>2
        <5>2. CASE i = n
          BY <5>1, <5>2, <2>2, <3>1, <3>2, <3>3 DEF Consecutive
        <5>3. CASE i # n
          <6>1. i + 1 \in 1 .. n /\ i + 1 # n + 1 /\ a[i + 1] = Events!Items(w)[i + 1]
            BY <5>1, <5>3, <3>1, <3>2
          <6>. QED  BY <4>2, <5>1, <5>3, <6>1, <2>2, <3>1 DEF Consecutive
        <5>. QED  BY <5>2, <5>3
      <4>. QED  BY <4>1, <4>2
    <3>. QED  BY <3>2, <3>4 DEF Consecutive, a
  <2>. QED  BY <1>1, <2>1, <2>2
<1>2. CASE w # <<>> /\ Events!Merged(w, e, continues) = Append(Events!Front(w), Events!Joined(Events!Last(w), e))
  <2>. DEFINE n == Len(w)
              j == Events!Joined(Events!Last(w), e)
              m == Append(Events!Front(w), j)
  <2>1. n \in Nat /\ n >= 1 /\ w[n] \in Events!WindowItems /\ Events!Last(w) = w[n]
    BY <1>2 DEF Events!Last
  <2>2. j \in Events!WindowItems /\ j.item = Events!Item("event", w[n].item.first, e.item.last)
    BY <2>1 DEF Events!Joined, Events!Kept, Events!Item, Events!WindowItems, Events!QueueItems
  <2>3. Events!Front(w) \in Seq(Events!WindowItems) /\ Len(Events!Front(w)) = n - 1
        /\ \A i \in 1 .. n - 1 : Events!Front(w)[i] = w[i]
    <3>1. 1 \in Int /\ n - 1 \in Int /\ \A i \in 1 .. n - 1 : w[i] \in Events!WindowItems
      BY <2>1, ElementOfSeq
    <3>2. /\ SubSeq(w, 1, n - 1) \in Seq(Events!WindowItems)
          /\ Len(SubSeq(w, 1, n - 1)) = IF 1 <= n - 1 THEN n - 1 - 1 + 1 ELSE 0
          /\ \A i \in 1 .. n - 1 - 1 + 1 : SubSeq(w, 1, n - 1)[i] = w[1 + i - 1]
      BY <3>1, SubSeqProperties
    <3>3. Events!Front(w) = SubSeq(w, 1, n - 1)
      BY DEF Events!Front
    <3>4. \A i \in 1 .. n - 1 : i \in 1 .. n - 1 - 1 + 1 /\ 1 + i - 1 = i
      <4>1. \A x \in Nat : \A i \in 1 .. x - 1 : i \in 1 .. x - 1 - 1 + 1 /\ 1 + i - 1 = i
        OBVIOUS
      <4>. QED  BY <2>1, <4>1
    <3>5. n - 1 = IF 1 <= n - 1 THEN n - 1 - 1 + 1 ELSE 0
      <4>1. \A x \in Nat : x >= 1 => x - 1 = IF 1 <= x - 1 THEN x - 1 - 1 + 1 ELSE 0
        OBVIOUS
      <4>. QED  BY <2>1, <4>1
    <3>6. \A i \in 1 .. n - 1 : SubSeq(w, 1, n - 1)[i] = w[i]
      BY <3>2, <3>4
    <3>. QED  BY <3>2, <3>3, <3>5, <3>6
  <2>. HIDE DEF j
  <2>4. m \in Seq(Events!WindowItems) /\ Len(m) = n /\ \A i \in 1 .. n : m[i] = IF i = n THEN j ELSE w[i]
    BY <2>1, <2>2, <2>3
  <2>. HIDE DEF m
  <2>5. ASSUME NEW hi \in Nat, Consecutive(Events!Items(w), hi), e.item = Events!Item("event", hi + 1, hi + 1)
        PROVE  Consecutive(Events!Items(m), hi + 1)
    <3>1. Len(Events!Items(m)) = n /\ \A i \in 1 .. n : Events!Items(m)[i] = IF i = n THEN j.item ELSE w[i].item
      BY <2>4, ItemsOfWindow
    <3>2. Len(Events!Items(w)) = n /\ \A i \in 1 .. n : Events!Items(w)[i] = w[i].item /\ w[i].item \in Events!QueueItems
      BY <2>1, ItemsOfWindow, ElementOfSeq DEF Events!WindowItems
    <3>3. j.item.kind = "event" /\ j.item.first = w[n].item.first /\ j.item.last = hi + 1
      BY <2>2, <2>5 DEF Events!Item
    <3>4. w[n].item.last = hi /\ 1 <= w[n].item.first /\ w[n].item.first <= w[n].item.last
      BY <2>1, <2>5, <3>2 DEF Consecutive
    <3>5. ASSUME NEW i \in 1 .. n
          PROVE  /\ Events!Items(m)[i].kind = "event" /\ 1 <= Events!Items(m)[i].first /\ Events!Items(m)[i].first <= Events!Items(m)[i].last
                 /\ Events!Items(m)[i].last <= hi + 1
                 /\ IF i = n THEN Events!Items(m)[i].last = hi + 1 ELSE Events!Items(m)[i + 1].first = Events!Items(m)[i].last + 1
      <4>1. CASE i = n
        BY <4>1, <2>1, <2>5, <3>1, <3>2, <3>3, <3>4 DEF Events!QueueItems
      <4>2. CASE i # n
        <5>1. i + 1 \in 1 .. n /\ Events!Items(m)[i] = Events!Items(w)[i] /\ Events!Items(m)[i + 1].first = Events!Items(w)[i + 1].first
          <6>1. i + 1 \in 1 .. n
            BY <4>2, <2>1
          <6>2. Events!Items(m)[i] = Events!Items(w)[i]
            BY <4>2, <3>1, <3>2
          <6>3. CASE i + 1 = n
            BY <6>1, <6>3, <3>1, <3>2, <3>3
          <6>4. CASE i + 1 # n
            BY <6>1, <6>4, <3>1, <3>2
          <6>. QED  BY <6>1, <6>2, <6>3, <6>4
        <5>. QED  BY <4>2, <5>1, <2>1, <2>5, <3>2 DEF Consecutive, Events!QueueItems
      <4>. QED  BY <4>1, <4>2
    <3>. QED  BY <3>1, <3>5 DEF Consecutive
  <2>. QED  BY <1>2, <2>4, <2>5 DEF m, j
<1>. QED  BY <1>1, <1>2 DEF Events!Merged

(* The instance of RunEvents has the operator of FiniteSets as its own.     *)
LEMMA SameCardinality == \A S : Events!Cardinality(S) = Cardinality(S)
BY DEF Events!Cardinality, Cardinality

LEMMA CachedInOrder ==
    ASSUME NEW w \in Seq(Events!WindowItems), NEW e \in Events!WindowItems, NEW continues \in BOOLEAN
    PROVE  /\ Events!Cached(w, e, continues) \in Seq(Events!WindowItems)
           /\ \A hi \in Nat : Consecutive(Events!Items(w), hi) /\ e.item = Events!Item("event", hi + 1, hi + 1)
                 => Consecutive(Events!Items(Events!Cached(w, e, continues)), hi + 1)
<1>. DEFINE m == Events!Merged(w, e, continues)
            n == Len(m)
            tooLong == {k \in 0 .. n - 1 : ~Events!Fits(SubSeq(m, k + 1, n))}
            d == Cardinality(tooLong)
            t == SubSeq(m, d + 1, n)
<1>1. m \in Seq(Events!WindowItems) /\ n \in Nat
  BY MergedInOrder
<1>. HIDE DEF m
<1>2. d \in 0 .. n
  <2>1. IsFiniteSet(0 .. n - 1) /\ Cardinality(0 .. n - 1) = n
    <3>1. 0 \in Int /\ n - 1 \in Int
      BY <1>1
    <3>2. IsFiniteSet(0 .. n - 1) /\ Cardinality(0 .. n - 1) = IF 0 > n - 1 THEN 0 ELSE n - 1 - 0 + 1
      BY <3>1, FS_Interval
    <3>. QED  BY <1>1, <3>2
  <2>2. tooLong \subseteq 0 .. n - 1
    OBVIOUS
  <2>. HIDE DEF tooLong
  <2>3. IsFiniteSet(tooLong) /\ Cardinality(tooLong) <= n
    BY <2>1, <2>2, FS_Subset
  <2>4. Cardinality(tooLong) \in Nat
    BY <2>3, FS_CardinalityType
  <2>. QED  BY <1>1, <2>3, <2>4
<1>. HIDE DEF d, n
<1>3. t \in Seq(Events!WindowItems) /\ Len(t) = n - d /\ \A i \in 1 .. n - d : t[i] = m[d + i]
  BY <1>1, <1>2 DEF n
<1>. HIDE DEF t
<1>4. \A hi \in Nat : Consecutive(Events!Items(m), hi) => Consecutive(Events!Items(t), hi)
  <2>1. SUFFICES ASSUME NEW hi \in Nat, Consecutive(Events!Items(m), hi), NEW i \in 1 .. Len(Events!Items(t))
                 PROVE  /\ Events!Items(t)[i].kind = "event" /\ 1 <= Events!Items(t)[i].first
                        /\ Events!Items(t)[i].first <= Events!Items(t)[i].last /\ Events!Items(t)[i].last <= hi
                        /\ IF i = Len(Events!Items(t)) THEN Events!Items(t)[i].last = hi
                           ELSE Events!Items(t)[i + 1].first = Events!Items(t)[i].last + 1
    BY DEF Consecutive
  <2>2. Len(Events!Items(t)) = n - d /\ \A k \in 1 .. n - d : Events!Items(t)[k] = t[k].item
    BY <1>3, ItemsOfWindow
  <2>3. Len(Events!Items(m)) = n /\ \A k \in 1 .. n : Events!Items(m)[k] = m[k].item
    BY <1>1, ItemsOfWindow DEF n
  <2>4. i \in 1 .. n - d /\ d + i \in 1 .. n /\ (i # n - d => i + 1 \in 1 .. n - d /\ d + (i + 1) = (d + i) + 1)
        /\ (i = n - d <=> d + i = n)
    BY <1>1, <1>2, <2>1, <2>2
  <2>5. Events!Items(t)[i] = Events!Items(m)[d + i] /\ (i # n - d => Events!Items(t)[i + 1] = Events!Items(m)[(d + i) + 1])
    <3>1. Events!Items(t)[i] = Events!Items(m)[d + i]
      BY <1>3, <2>2, <2>3, <2>4
    <3>2. ASSUME i # n - d  PROVE Events!Items(t)[i + 1] = Events!Items(m)[d + (i + 1)]
      <4>1. i + 1 \in 1 .. n - d /\ d + (i + 1) \in 1 .. n
        BY <3>2, <1>1, <1>2, <2>4 DEF n
      <4>. QED  BY <4>1, <1>3, <2>2, <2>3
    <3>. QED  BY <3>1, <3>2, <2>4
  <2>. QED  BY <2>1, <2>2, <2>3, <2>4, <2>5 DEF Consecutive
<1>5. Events!Cached(w, e, continues) = t
  BY SameCardinality DEF Events!Cached, t, d, n, m
<1>6. \A hi \in Nat : Consecutive(Events!Items(w), hi) /\ e.item = Events!Item("event", hi + 1, hi + 1)
                 => Consecutive(Events!Items(m), hi + 1)
  BY MergedInOrder DEF m
<1>. QED  BY <1>3, <1>4, <1>5, <1>6

-----------------------------------------------------------------------------
(* A Run does not start twice, and publishes nothing after its end.        *)
RunsForward ==
    \A r \in Runs :
        /\ phase[r] # "new" => phase'[r] # "new"
        /\ phase[r] = "finished" => phase'[r] = "finished" /\ published'[r] = published[r]
SameClient(c) ==
    LET r == stream[c].run
    IN  /\ stream'[c] = stream[c] /\ heard'[c] = heard[c]
        /\ r # NoRun /\ stream[c].state \in {"starting", "open"} =>
             /\ phase'[r] = "finished" => phase[r] = "finished"
             /\ published'[r] = published[r]
             /\ c \in listeners'[r] <=> c \in listeners[r]

LEMMA SameClientHeard ==
    ASSUME EventsInv, NEW c \in Clients, RunsForward, SameClient(c)
    PROVE  Heard(c)'
<1>. DEFINE s == stream[c]
            h == heard[c]
            r == s.run
<1>1. s' = s /\ h' = h /\ Heard(c) /\ r \in Runs \cup {NoRun} /\ s \in Events!Streams
  BY DEF EventsInv, Events!TypeOK, SameClient, Events!Streams
<1>2. r # NoRun => /\ phase[r] # "new" => phase'[r] # "new"
                   /\ phase[r] = "finished" => phase'[r] = "finished" /\ published'[r] = published[r]
  BY <1>1 DEF RunsForward
<1>3. ASSUME s.state \in {"starting", "open"}, r # NoRun
      PROVE  Listening(c)'
  <2>1. Listening(c) /\ phase[r] # "new"
    BY <1>1, <1>3 DEF Heard, Listening
  <2>2. /\ phase'[r] = "finished" <=> phase[r] = "finished"
        /\ published'[r] = published[r]
        /\ c \in listeners'[r] <=> c \in listeners[r]
    BY <1>2, <1>3 DEF SameClient
  <2>3. ReplayInOrder(s, h)'
    BY <1>1, <2>1 DEF Listening, ReplayInOrder
  <2>4. \A n : InOrder(s', h', n) <=> InOrder(s, h, n)
    BY <1>1
  <2>5. Position(s', h') = Position(s, h)
    BY <1>1
  <2>6. Live(c) => Live(c)'
    BY <2>2, <2>4, <2>5, <1>1 DEF Live, Position, InOrder
  <2>7. Finishing(c) => Finishing(c)'
    BY <2>2, <2>4, <2>5, <1>1 DEF Finishing, Position, InOrder
  <2>8. ToldDone(c) => ToldDone(c)'
    BY <2>2, <2>5, <1>1 DEF ToldDone, Position
  <2>9. Cut(c) => Cut(c)'
    BY <1>1, <2>2 DEF Cut, SameClient
  <2>10. phase'[stream'[c].run] # "new"
    BY <1>1, <1>2, <1>3, <2>1
  <2>11. Live(c) \/ Finishing(c) \/ ToldDone(c) \/ Cut(c)
    BY <2>1 DEF Listening
  <2>. QED  BY <2>3, <2>6, <2>7, <2>8, <2>9, <2>10, <2>11 DEF Listening
<1>4. NothingToHear(c) => NothingToHear(c)'
  BY <1>1 DEF NothingToHear
<1>. QED  BY <1>1, <1>2, <1>3, <1>4 DEF Heard

LEMMA EmptyReplay ==
    ASSUME NEW s, NEW h, s.replay = <<>>
    PROVE  ReplayInOrder(s, h)
BY DEF ReplayInOrder, Consecutive

(* A step of a Run's task that tells its clients nothing.                  *)
LEMMA TaskMoves ==
    ASSUME EventsInv, NEW r \in Runs, Events!Running(r), NEW x \in {"streaming", "ended"},
           phase' = [phase EXCEPT ![r] = x], ready' \in [Runs -> Events!Outcomes],
           UNCHANGED <<registry, published, window, listeners, stream, heard>>
    PROVE  EventsInv'
<1>1. \A q \in Runs : phase'[q] = IF q = r THEN x ELSE phase[q]
  BY DEF EventsInv, Events!TypeOK
<1>2. phase[r] \in {"admitting", "streaming"}
  BY DEF Events!Running
<1>3. Events!TypeOK'
  BY DEF EventsInv, Events!TypeOK, Events!Phases
<1>4. RunsInOrder'
  BY <1>1, <1>2, EventsApart DEF EventsInv, Events!TypeOK, RunsInOrder
<1>5. RunsForward
  BY <1>1, <1>2 DEF RunsForward
<1>6. \A c \in Clients : SameClient(c)
  BY <1>1, <1>2 DEF SameClient, EventsInv, Events!TypeOK, Events!Streams
<1>. QED  BY <1>3, <1>4, <1>5, <1>6, SameClientHeard DEF EventsInv

LEMMA AdmitStep == ASSUME EventsInv, NEW r \in Runs, Events!Admit(r)  PROVE EventsInv'
<1>1. ready' \in [Runs -> Events!Outcomes] /\ Events!Running(r)
  BY DEF EventsInv, Events!TypeOK, Events!Admit, Events!Outcomes, Events!Running
<1>. QED  BY <1>1, TaskMoves DEF Events!Admit

LEMMA RefuseStep == ASSUME EventsInv, NEW r \in Runs, Events!Refuse(r)  PROVE EventsInv'
<1>1. ready' \in [Runs -> Events!Outcomes] /\ Events!Running(r)
  BY DEF EventsInv, Events!TypeOK, Events!Refuse, Events!Outcomes, Events!Running
<1>. QED  BY <1>1, TaskMoves DEF Events!Refuse

LEMMA EventsEndStep == ASSUME EventsInv, NEW r \in Runs, Events!End(r)  PROVE EventsInv'
<1>1. ready' \in [Runs -> Events!Outcomes]
  BY DEF EventsInv, Events!TypeOK, Events!End
<1>. QED  BY <1>1, TaskMoves DEF Events!End

LEMMA EventsStartStep == ASSUME EventsInv, NEW c \in Clients, NEW r \in Runs, Events!Start(c, r)  PROVE EventsInv'
<1>. DEFINE new == [Events!Away EXCEPT !.run = r, !.state = "starting"]
<1>1. /\ new.run = r /\ new.state = "starting" /\ new.replay = <<>> /\ new.queue = <<>> /\ new.joined = 0
      /\ new \in Events!Streams
  BY ItemTypes DEF Events!Away, Events!Streams, Events!States
<1>. HIDE DEF new
<1>2. /\ stream[c].state = "away" /\ phase[r] = "new" /\ published[r] = 0 /\ window[r] = <<>>
      /\ r # NoRun /\ stream[c] = Events!Away /\ heard[c] = Events!Nothing
  BY EventsApart DEF Events!Start, EventsInv, RunsInOrder, Heard
<1>3. /\ stream' = [stream EXCEPT ![c] = new] /\ heard' = heard /\ published' = published /\ window' = window
      /\ registry' = r /\ phase' = [phase EXCEPT ![r] = "admitting"] /\ ready' = ready
      /\ listeners' = [listeners EXCEPT ![r] = {c}]
  BY DEF Events!Start, new
<1>4. Events!TypeOK'
  BY <1>1, <1>3 DEF EventsInv, Events!TypeOK, Events!Phases
<1>5. \A q \in Runs, d \in Clients : d \in listeners[q] => stream[d].run = q /\ d # c
  BY <1>2 DEF EventsInv, Events!TypeOK, RunsInOrder, Events!Away
<1>6. RunsInOrder'
  <2>1. \A d \in listeners'[r] : d = c
    BY <1>3 DEF EventsInv, Events!TypeOK
  <2>2. \A q \in Runs : q # r => listeners'[q] = listeners[q] /\ phase'[q] = phase[q]
    BY <1>3 DEF EventsInv, Events!TypeOK
  <2>3. phase'[r] = "admitting" /\ stream'[c] = new /\ \A d \in Clients : d # c => stream'[d] = stream[d]
    BY <1>3 DEF EventsInv, Events!TypeOK
  <2>4. Consecutive(Events!Items(window'[r]), published'[r])
    BY <1>2, <1>3 DEF EventsInv, RunsInOrder
  <2>5. ASSUME NEW q \in Runs, NEW d \in listeners'[q]
        PROVE  stream'[d].run = q /\ stream'[d].state \in {"starting", "open"}
    <3>1. CASE q = r
      BY <3>1, <2>1, <2>3, <2>5, <1>1
    <3>2. CASE q # r
      BY <3>2, <2>2, <2>3, <2>5, <1>5 DEF EventsInv, Events!TypeOK, RunsInOrder
    <3>. QED  BY <3>1, <3>2
  <2>. QED  BY <1>2, <1>3, <2>2, <2>3, <2>4, <2>5 DEF EventsInv, RunsInOrder
<1>7. RunsForward
  BY <1>2, <1>3 DEF EventsInv, Events!TypeOK, RunsForward
<1>8. ASSUME NEW d \in Clients, d # c  PROVE SameClient(d)
  <2>1. stream[d].run # NoRun /\ stream[d].state \in {"starting", "open"} => stream[d].run \in Runs /\ stream[d].run # r
    BY <1>2 DEF EventsInv, Events!TypeOK, Events!Streams, Heard, Listening
  <2>. QED  BY <1>3, <1>8, <2>1 DEF EventsInv, Events!TypeOK, SameClient
<1>9. Heard(c)'
  <2>1. stream'[c] = new /\ heard'[c] = Events!Nothing /\ phase'[r] = "admitting" /\ c \in listeners'[r] /\ published'[r] = 0
    BY <1>2, <1>3 DEF EventsInv, Events!TypeOK
  <2>2. Position(new, Events!Nothing) = 0 /\ InOrder(new, Events!Nothing, Len(new.queue)) /\ Len(new.queue) = 0
    BY <1>1 DEF Position, InOrder, Events!Nothing
  <2>3. Live(c)'
    BY <1>1, <2>1, <2>2 DEF Live, Events!Nothing
  <2>4. Listening(c)'
    BY <2>1, <2>3, <1>1, EmptyReplay DEF Listening
  <2>. QED  BY <1>1, <1>2, <2>1, <2>2, <2>4, EventsApart DEF Heard, Events!Nothing
<1>. QED  BY <1>4, <1>6, <1>7, <1>8, <1>9, SameClientHeard DEF EventsInv

LEMMA BroadcastLive ==
    ASSUME EventsInv, NEW r \in Runs, phase[r] # "finished", NEW items \in Seq(Events!QueueItems), Events!Broadcast(r, items)
    PROVE  /\ listeners' \in [Runs -> SUBSET Clients] /\ stream' \in [Clients -> Events!Streams]
           /\ \A q \in Runs : q # r => listeners'[q] = listeners[q]
           /\ \A c \in Clients : c \notin listeners[r] => stream'[c] = stream[c] /\ c \notin listeners'[r]
           /\ \A c \in listeners[r] :
                 /\ Live(c) /\ ReplayInOrder(stream[c], heard[c]) /\ stream[c].run = r
                 /\ \/ /\ stream'[c] = [stream[c] EXCEPT !.queue = <<Events!Dropped, Events!EndMark>>]
                       /\ c \notin listeners'[r]
                    \/ /\ stream'[c] = [stream[c] EXCEPT !.queue = @ \o items]
                       /\ Len(stream[c].queue) + Len(items) <= QueueLimit
                       /\ c \in listeners'[r]
<1>1. \A c \in listeners[r] : c \in Clients /\ stream[c].run = r /\ stream[c].state \in {"starting", "open"}
  BY DEF EventsInv, Events!TypeOK, RunsInOrder
<1>2. \A c \in listeners[r] : Live(c) /\ ReplayInOrder(stream[c], heard[c])
  <2>1. SUFFICES ASSUME NEW c \in listeners[r] PROVE Live(c) /\ ReplayInOrder(stream[c], heard[c])
    OBVIOUS
  <2>2. Listening(c)
    BY <1>1, EventsApart DEF EventsInv, Heard
  <2>. QED  BY <1>1, <2>2 DEF Listening, Finishing, ToldDone, Cut
<1>3. <<Events!Dropped, Events!EndMark>> \in Seq(Events!QueueItems)
  BY ItemTypes
<1>4. stream' \in [Clients -> Events!Streams]
  <2>1. \A c \in Clients : stream[c].queue \o items \in Seq(Events!QueueItems)
    BY ConcatProperties DEF EventsInv, Events!TypeOK, Events!Streams
  <2>. QED  BY <1>3, <2>1 DEF EventsInv, Events!TypeOK, Events!Broadcast, Events!Streams
<1>5. \A c \in Clients : c \notin listeners[r] => stream'[c] = stream[c] /\ c \notin listeners'[r]
  BY DEF EventsInv, Events!TypeOK, Events!Broadcast
<1>6. \A c \in listeners[r] :
          \/ /\ stream'[c] = [stream[c] EXCEPT !.queue = <<Events!Dropped, Events!EndMark>>]
             /\ c \notin listeners'[r]
          \/ /\ stream'[c] = [stream[c] EXCEPT !.queue = @ \o items]
             /\ Len(stream[c].queue) + Len(items) <= QueueLimit
             /\ c \in listeners'[r]
  BY <1>1 DEF EventsInv, Events!TypeOK, Events!Broadcast, Events!HasRoom
<1>7. listeners' \in [Runs -> SUBSET Clients] /\ \A q \in Runs : q # r => listeners'[q] = listeners[q]
  BY DEF EventsInv, Events!TypeOK, Events!Broadcast
<1>. QED  BY <1>1, <1>2, <1>4, <1>5, <1>6, <1>7

(* A client whose queue was full keeps what it still replays.              *)
LEMMA CutHeard ==
    ASSUME EventsInv, NEW c \in Clients, NEW r \in Runs, stream[c].run = r, Live(c),
           ReplayInOrder(stream[c], heard[c]), c \notin listeners'[r], heard' = heard, RunsForward,
           stream'[c] = [stream[c] EXCEPT !.queue = <<Events!Dropped, Events!EndMark>>],
           stream[c].state \in {"starting", "open"}
    PROVE  Heard(c)'
<1>. DEFINE s == stream[c]
            t == stream'[c]
<1>1. /\ t.run = r /\ t.state = s.state /\ t.replay = s.replay /\ t.joined = s.joined
      /\ t.queue = <<Events!Dropped, Events!EndMark>> /\ Len(t.queue) = 2
  BY DEF EventsInv, Events!TypeOK, Events!Streams
<1>2. Heard(c) /\ heard[c].said = "nothing" /\ r # NoRun /\ phase[r] # "new"
  BY EventsApart DEF EventsInv, Live, Heard, Listening
<1>3. ReplayInOrder(t, heard'[c])
  BY <1>1 DEF ReplayInOrder
<1>4. Cut(c)'
  BY <1>1, <1>2 DEF Cut
<1>5. Listening(c)'
  BY <1>1, <1>2, <1>3, <1>4 DEF Listening, RunsForward
<1>. HIDE DEF t
<1>6. heard'[c] = heard[c] /\ stream'[c] = t
  BY DEF t
<1>. QED  BY <1>1, <1>2, <1>5, <1>6, EventsApart DEF Heard

LEMMA PublishStep == ASSUME EventsInv, NEW r \in Runs, Events!Publish(r)  PROVE EventsInv'
<1>. DEFINE n == published[r] + 1
            item == Events!Item("event", n, n)
<1>1. n \in Nat /\ item \in Events!QueueItems /\ <<item>> \in Seq(Events!QueueItems)
  BY ItemTypes DEF EventsInv, Events!TypeOK
<1>2. /\ phase[r] = "streaming" /\ Events!Broadcast(r, <<item>>)
      /\ published' = [published EXCEPT ![r] = n]
      /\ UNCHANGED <<registry, phase, ready, heard>>
  BY DEF Events!Publish
<1>3. PICK delta, continues \in BOOLEAN, size \in {1, Large} :
        window' = [window EXCEPT ![r] = Events!Cached(@, Events!Kept(item, delta, size), continues)]
  BY DEF Events!Publish
<1>. DEFINE e == Events!Kept(item, delta, size)
            w == Events!Cached(window[r], e, continues)
<1>4. e \in Events!WindowItems /\ e.item = item
  BY <1>1, EventsApart DEF Events!Kept, Events!WindowItems
<1>. HIDE DEF item, e
<1>5. w \in Seq(Events!WindowItems) /\ Consecutive(Events!Items(w), n)
  <2>1. Consecutive(Events!Items(window[r]), published[r]) /\ window[r] \in Seq(Events!WindowItems) /\ published[r] \in Nat
    BY <1>2 DEF EventsInv, Events!TypeOK, RunsInOrder
  <2>. QED  BY <1>4, <2>1, CachedInOrder DEF item
<1>. HIDE DEF w
<1>6. window' = [window EXCEPT ![r] = w]
  BY <1>3 DEF w, e
<1>b. /\ \A q \in Runs : q # r => listeners'[q] = listeners[q]
      /\ \A c \in Clients : c \notin listeners[r] => stream'[c] = stream[c] /\ c \notin listeners'[r]
      /\ \A c \in listeners[r] :
            \/ stream'[c] = [stream[c] EXCEPT !.queue = <<Events!Dropped, Events!EndMark>>]
            \/ stream'[c] = [stream[c] EXCEPT !.queue = @ \o <<item>>]
  BY <1>1, <1>2, BroadcastLive
<1>7. RunsForward
  BY <1>2 DEF EventsInv, Events!TypeOK, RunsForward
<1>8. Events!TypeOK'
  BY <1>1, <1>2, <1>5, <1>6, BroadcastLive DEF EventsInv, Events!TypeOK
<1>9. RunsInOrder'
  <2>1. \A q \in Runs : Consecutive(Events!Items(window[q]), published[q]) => Consecutive(Events!Items(window'[q]), published'[q])
    BY <1>2, <1>5, <1>6 DEF EventsInv, Events!TypeOK
  <2>2. \A q \in Runs, c \in Clients : c \in listeners'[q] =>
            c \in listeners[q] /\ stream'[c].run = stream[c].run /\ stream'[c].state = stream[c].state
    <3>1. SUFFICES ASSUME NEW q \in Runs, NEW c \in Clients, c \in listeners'[q]
                   PROVE  c \in listeners[q] /\ stream'[c].run = stream[c].run /\ stream'[c].state = stream[c].state
      OBVIOUS
    <3>2. CASE q = r
      <4>1. c \in listeners[r]
        BY <1>b, <3>1, <3>2
      <4>2. stream[c] \in Events!Streams
        BY DEF EventsInv, Events!TypeOK
      <4>3. \/ stream'[c] = [stream[c] EXCEPT !.queue = <<Events!Dropped, Events!EndMark>>]
            \/ stream'[c] = [stream[c] EXCEPT !.queue = @ \o <<item>>]
        BY <1>b, <4>1
      <4>4. stream'[c].run = stream[c].run /\ stream'[c].state = stream[c].state
        BY <4>2, <4>3 DEF Events!Streams
      <4>. QED  BY <3>2, <4>1, <4>4
    <3>3. CASE q # r
      <4>1. c \in listeners[q] /\ stream[c].run = q
        BY <1>b, <3>1, <3>3 DEF EventsInv, RunsInOrder
      <4>2. c \notin listeners[r]
        BY <3>3, <4>1 DEF EventsInv, RunsInOrder
      <4>. QED  BY <1>b, <4>1, <4>2
    <3>. QED  BY <3>2, <3>3
  <2>3. \A q \in Runs : phase[q] \in {"new", "admitting"} => published'[q] = 0 /\ window'[q] = window[q]
    BY <1>2, <1>6 DEF EventsInv, Events!TypeOK, RunsInOrder
  <2>4. \A q \in Runs : \A c \in listeners'[q] : stream'[c].run = q /\ stream'[c].state \in {"starting", "open"}
    BY <1>8, <2>2 DEF EventsInv, Events!TypeOK, RunsInOrder
  <2>5. \A q \in Runs : phase[q] = "new" => window'[q] = <<>>
    BY <2>3 DEF EventsInv, RunsInOrder
  <2>. QED  BY <1>2, <2>1, <2>3, <2>4, <2>5 DEF EventsInv, RunsInOrder
<1>10. ASSUME NEW c \in Clients  PROVE Heard(c)'
  <2>1. CASE c \notin listeners[r]
    <3>1. stream[c].run # r \/ stream[c].state \notin {"starting", "open"} \/ phase[r] = "finished" \/ Cut(c)
      BY <2>1, EventsApart DEF EventsInv, Heard, Listening, Live, Finishing, ToldDone
    <3>2. CASE stream[c].run # r \/ stream[c].state \notin {"starting", "open"}
      <4>1. SameClient(c)
        <5>1. stream'[c] = stream[c] /\ heard'[c] = heard[c] /\ phase' = phase
          BY <1>2, <1>b, <2>1
        <5>2. ASSUME stream[c].run # NoRun, stream[c].state \in {"starting", "open"}
              PROVE  stream[c].run \in Runs /\ stream[c].run # r
          BY <3>2, <5>2 DEF EventsInv, Events!TypeOK, Events!Streams
        <5>3. \A q \in Runs : q # r => published'[q] = published[q] /\ listeners'[q] = listeners[q]
          BY <1>2, <1>b DEF EventsInv, Events!TypeOK
        <5>. QED  BY <5>1, <5>2, <5>3 DEF SameClient
      <4>. QED  BY <1>7, <4>1, SameClientHeard
    <3>3. CASE stream[c].run = r /\ stream[c].state \in {"starting", "open"} /\ Cut(c)
      <4>1. stream'[c] = stream[c] /\ heard'[c] = heard[c] /\ c \notin listeners'[r]
        BY <1>1, <1>2, <2>1, BroadcastLive
      <4>2. Heard(c) /\ Listening(c)
        BY <3>3, EventsApart DEF EventsInv, Heard
      <4>3. Cut(c)'
        BY <3>3, <4>1 DEF Cut
      <4>4. ReplayInOrder(stream'[c], heard'[c])
        BY <4>1, <4>2 DEF Listening
      <4>5. phase'[stream'[c].run] # "new"
        BY <1>2, <4>1, <3>3
      <4>6. Listening(c)'
        BY <4>3, <4>4, <4>5 DEF Listening
      <4>7. heard[c].said # "done"
        BY <3>3 DEF Cut
      <4>. QED  BY <3>3, <4>1, <4>2, <4>6, <4>7, EventsApart DEF Heard
    <3>. QED  BY <1>2, <3>1, <3>2, <3>3
  <2>2. CASE c \in listeners[r]
    <3>1. /\ Live(c) /\ ReplayInOrder(stream[c], heard[c]) /\ stream[c].run = r
          /\ stream[c].state \in {"starting", "open"}
      BY <1>1, <1>2, <2>2, BroadcastLive DEF EventsInv, RunsInOrder
    <3>2. CASE stream'[c] = [stream[c] EXCEPT !.queue = <<Events!Dropped, Events!EndMark>>] /\ c \notin listeners'[r]
      BY <1>2, <1>7, <3>1, <3>2, CutHeard
    <3>3. CASE /\ stream'[c] = [stream[c] EXCEPT !.queue = @ \o <<item>>]
               /\ Len(stream[c].queue) + Len(<<item>>) <= QueueLimit
               /\ c \in listeners'[r]
      <4>. DEFINE s == stream[c]
                  t == stream'[c]
                  q == s.queue
      <4>1. /\ t.run = r /\ t.state = s.state /\ t.replay = s.replay /\ t.joined = s.joined
            /\ t.queue = q \o <<item>> /\ q \in Seq(Events!QueueItems)
        BY <3>1, <3>3 DEF EventsInv, Events!TypeOK, Events!Streams
      <4>2. /\ Len(t.queue) = Len(q) + 1 /\ Len(q) \in Nat /\ t.queue[Len(q) + 1] = item
            /\ \A i \in 1 .. Len(q) : t.queue[i] = q[i]
        BY <1>1, <4>1, ConcatProperties
      <4>3. Position(t, heard'[c]) = Position(s, heard[c]) /\ Position(s, heard[c]) + Len(q) = published[r]
            /\ Position(s, heard[c]) \in Nat
        BY <1>2, <3>1, <4>1 DEF Position, Live, EventsInv, Events!TypeOK, Events!Streams, Events!Histories
      <4>4. InOrder(s, heard[c], Len(q))
        BY <3>1 DEF Live
      <4>. DEFINE p == Position(s, heard[c])
                  m == Len(q)
      <4>. HIDE DEF p, m, q
      <4>5. InOrder(t, heard'[c], m + 1)
        <5>1. SUFFICES ASSUME NEW i \in 1 .. m + 1 PROVE t.queue[i] = Events!Item("event", p + i, p + i)
          BY <4>3 DEF InOrder, p
        <5>2. CASE i = m + 1
          BY <5>2, <4>2, <4>3 DEF item, p, m
        <5>3. CASE i # m + 1
          <6>1. i \in 1 .. m
            BY <5>3, <4>2 DEF m
          <6>. QED  BY <6>1, <4>2, <4>4 DEF InOrder, p, m, q
        <5>. QED  BY <5>2, <5>3
      <4>6. Live(c)'
        <5>1. Position(t, heard'[c]) + Len(t.queue) = published'[r]
          BY <1>1, <1>2, <4>2, <4>3 DEF EventsInv, Events!TypeOK
        <5>2. heard'[c].said = "nothing" /\ phase'[r] # "finished"
          BY <1>2, <3>1 DEF Live
        <5>3. InOrder(t, heard'[c], Len(t.queue))
          BY <4>2, <4>5 DEF m
        <5>. QED  BY <3>3, <4>1, <5>1, <5>2, <5>3 DEF Live
      <4>7. ReplayInOrder(t, heard'[c])
        BY <1>2, <3>1, <4>1 DEF ReplayInOrder
      <4>8. Listening(c)'
        BY <1>2, <4>1, <4>6, <4>7 DEF Listening
      <4>9. Heard(c) /\ heard[c].said = "nothing"
        BY <3>1 DEF EventsInv, Live
      <4>10. Len(t.queue) <= QueueLimit
        BY <3>3, <4>2 DEF q
      <4>. HIDE DEF t
      <4>11. stream'[c] = t /\ heard'[c] = heard[c]
        BY <1>2 DEF t
      <4>. QED  BY <3>1, <4>1, <4>8, <4>9, <4>10, <4>11, EventsApart DEF Heard
    <3>. QED  BY <1>1, <1>2, <2>2, <3>2, <3>3, BroadcastLive
  <2>. QED  BY <2>1, <2>2
<1>. QED  BY <1>8, <1>9, <1>10 DEF EventsInv

LEMMA EventsFinishStep == ASSUME EventsInv, NEW r \in Runs, Events!Finish(r)  PROVE EventsInv'
<1>. DEFINE items == <<Events!Done, Events!EndMark>>
            e == Events!Kept(Events!Done, FALSE, 1)
            w == Events!Cached(window[r], e, FALSE)
<1>1. items \in Seq(Events!QueueItems) /\ Len(items) = 2 /\ items[1] = Events!Done /\ items[2] = Events!EndMark
  BY ItemTypes
<1>2. /\ phase[r] = "ended" /\ Events!Broadcast(r, items) /\ phase' = [phase EXCEPT ![r] = "finished"]
      /\ registry' = Events!Unregistered(r) /\ UNCHANGED <<published, heard>>
      /\ window' = [window EXCEPT ![r] = w]
      /\ ready' = [ready EXCEPT ![r] = IF @ = "pending" THEN "refused" ELSE @]
  BY DEF Events!Finish
<1>3. e \in Events!WindowItems /\ window[r] \in Seq(Events!WindowItems)
  BY ItemTypes DEF Events!Kept, Events!WindowItems, EventsInv, Events!TypeOK
<1>. HIDE DEF items, e
<1>4. w \in Seq(Events!WindowItems)
  BY <1>3, CachedInOrder
<1>. HIDE DEF w
<1>5. items \in Seq(Events!QueueItems) /\ phase[r] # "finished" /\ Events!Broadcast(r, items)
  BY <1>1, <1>2
<1>6. \A c \in listeners[r] :
                 /\ Live(c) /\ ReplayInOrder(stream[c], heard[c]) /\ stream[c].run = r
                 /\ \/ /\ stream'[c] = [stream[c] EXCEPT !.queue = <<Events!Dropped, Events!EndMark>>]
                       /\ c \notin listeners'[r]
                    \/ /\ stream'[c] = [stream[c] EXCEPT !.queue = @ \o items]
                       /\ Len(stream[c].queue) + Len(items) <= QueueLimit
                       /\ c \in listeners'[r]
  BY <1>5, BroadcastLive
<1>b. /\ \A q \in Runs : q # r => listeners'[q] = listeners[q]
      /\ \A c \in Clients : c \notin listeners[r] => stream'[c] = stream[c] /\ c \notin listeners'[r]
      /\ \A c \in listeners[r] :
            \/ stream'[c] = [stream[c] EXCEPT !.queue = <<Events!Dropped, Events!EndMark>>]
            \/ stream'[c] = [stream[c] EXCEPT !.queue = @ \o items]
  BY <1>5, <1>6, BroadcastLive
<1>7. RunsForward
  BY <1>2 DEF EventsInv, Events!TypeOK, RunsForward
<1>8. Events!TypeOK'
  <2>1. listeners' \in [Runs -> SUBSET Clients] /\ stream' \in [Clients -> Events!Streams]
    BY <1>1, <1>2, BroadcastLive
  <2>2. ready' \in [Runs -> Events!Outcomes] /\ phase' \in [Runs -> Events!Phases]
    BY <1>2 DEF EventsInv, Events!TypeOK, Events!Outcomes, Events!Phases
  <2>3. registry' \in Runs \cup {NoRun}
    BY <1>2 DEF EventsInv, Events!TypeOK, Events!Unregistered
  <2>. QED  BY <1>2, <1>4, <2>1, <2>2, <2>3 DEF EventsInv, Events!TypeOK
<1>9. RunsInOrder'
  <2>1. \A q \in Runs : q # r => phase'[q] = phase[q] /\ window'[q] = window[q]
    BY <1>2 DEF EventsInv, Events!TypeOK
  <2>2. phase'[r] = "finished" /\ published' = published
    BY <1>2 DEF EventsInv, Events!TypeOK
  <2>3. registry' # NoRun => registry' = registry /\ registry # r
    BY <1>2 DEF Events!Unregistered
  <2>4. \A q \in Runs : \A c \in listeners'[q] : stream'[c].run = q /\ stream'[c].state \in {"starting", "open"}
    <3>1. SUFFICES ASSUME NEW q \in Runs, NEW c \in Clients, c \in listeners'[q]
                   PROVE  stream'[c].run = q /\ stream'[c].state \in {"starting", "open"}
      BY <1>8 DEF Events!TypeOK
    <3>2. CASE q = r
      <4>1. c \in listeners[r]
        BY <1>b, <3>1, <3>2
      <4>2. stream[c] \in Events!Streams
        BY DEF EventsInv, Events!TypeOK
      <4>3. \/ stream'[c] = [stream[c] EXCEPT !.queue = <<Events!Dropped, Events!EndMark>>]
            \/ stream'[c] = [stream[c] EXCEPT !.queue = @ \o items]
        BY <1>b, <4>1
      <4>4. stream'[c].run = stream[c].run /\ stream'[c].state = stream[c].state
        BY <4>2, <4>3 DEF Events!Streams
      <4>. QED  BY <3>2, <4>1, <4>4 DEF EventsInv, RunsInOrder
    <3>3. CASE q # r
      <4>1. c \in listeners[q] /\ stream[c].run = q
        BY <1>b, <3>1, <3>3 DEF EventsInv, RunsInOrder
      <4>2. c \notin listeners[r]
        BY <3>3, <4>1 DEF EventsInv, RunsInOrder
      <4>. QED  BY <1>b, <4>1, <4>2 DEF EventsInv, RunsInOrder
    <3>. QED  BY <3>2, <3>3
  <2>5. ASSUME NEW q \in Runs
        PROVE  /\ phase'[q] \in {"new", "admitting"} => published'[q] = 0
               /\ phase'[q] = "new" => window'[q] = <<>>
               /\ phase'[q] # "finished" => Consecutive(Events!Items(window'[q]), published'[q])
    BY <2>1, <2>2 DEF EventsInv, RunsInOrder
  <2>6. registry' # NoRun => phase'[registry'] \notin {"new", "finished"}
    <3>1. registry' # NoRun => registry \in Runs /\ registry' = registry /\ registry # r
                               /\ phase[registry] \notin {"new", "finished"}
      BY <2>3 DEF EventsInv, Events!TypeOK, RunsInOrder
    <3>. QED  BY <2>1, <3>1
  <2>. QED  BY <2>4, <2>5, <2>6 DEF RunsInOrder
<1>10. ASSUME NEW c \in Clients  PROVE Heard(c)'
  <2>1. CASE c \notin listeners[r]
    <3>0. stream'[c] = stream[c] /\ heard'[c] = heard[c] /\ c \notin listeners'[r] /\ phase'[r] = "finished"
      BY <1>2, <1>b, <2>1 DEF EventsInv, Events!TypeOK
    <3>1. stream[c].run # r \/ stream[c].state \notin {"starting", "open"} \/ Cut(c)
      BY <1>2, <2>1, EventsApart DEF EventsInv, Heard, Listening, Live, Finishing, ToldDone
    <3>2. CASE stream[c].run # r \/ stream[c].state \notin {"starting", "open"}
      <4>1. SameClient(c)
        <5>2. ASSUME stream[c].run # NoRun, stream[c].state \in {"starting", "open"}
              PROVE  stream[c].run \in Runs /\ stream[c].run # r
          BY <3>2, <5>2 DEF EventsInv, Events!TypeOK, Events!Streams
        <5>3. \A q \in Runs : q # r => /\ published'[q] = published[q] /\ listeners'[q] = listeners[q]
                                       /\ phase'[q] = phase[q]
          BY <1>2, <1>b DEF EventsInv, Events!TypeOK
        <5>. QED  BY <3>0, <5>2, <5>3 DEF SameClient
      <4>. QED  BY <1>7, <4>1, SameClientHeard
    <3>3. CASE stream[c].run = r /\ stream[c].state \in {"starting", "open"} /\ Cut(c)
      <4>2. Heard(c) /\ Listening(c)
        BY <3>3, EventsApart DEF EventsInv, Heard
      <4>3. Cut(c)'
        BY <3>3, <3>0 DEF Cut
      <4>4. ReplayInOrder(stream'[c], heard'[c])
        BY <3>0, <4>2 DEF Listening
      <4>6. Listening(c)'
        BY <3>0, <3>3, <4>3, <4>4 DEF Listening
      <4>7. heard[c].said # "done"
        BY <3>3 DEF Cut
      <4>. QED  BY <3>3, <3>0, <4>2, <4>6, <4>7, EventsApart DEF Heard
    <3>. QED  BY <3>1, <3>2, <3>3
  <2>2. CASE c \in listeners[r]
    <3>1. /\ Live(c) /\ ReplayInOrder(stream[c], heard[c]) /\ stream[c].run = r
          /\ stream[c].state \in {"starting", "open"} /\ stream[c] \in Events!Streams
      BY <1>6, <2>2 DEF EventsInv, Events!TypeOK, RunsInOrder
    <3>2. CASE stream'[c] = [stream[c] EXCEPT !.queue = <<Events!Dropped, Events!EndMark>>] /\ c \notin listeners'[r]
      BY <1>2, <1>7, <3>1, <3>2, CutHeard
    <3>3. CASE /\ stream'[c] = [stream[c] EXCEPT !.queue = @ \o items]
               /\ Len(stream[c].queue) + Len(items) <= QueueLimit
               /\ c \in listeners'[r]
      <4>. DEFINE s == stream[c]
                  t == stream'[c]
                  q == s.queue
                  m == Len(q)
                  p == Position(s, heard[c])
      <4>1. /\ t.run = r /\ t.state = s.state /\ t.replay = s.replay /\ t.joined = s.joined
            /\ t.queue = q \o items /\ q \in Seq(Events!QueueItems)
        BY <3>1, <3>3 DEF Events!Streams
      <4>2. /\ Len(t.queue) = m + 2 /\ m \in Nat /\ t.queue[m + 1] = Events!Done /\ t.queue[m + 2] = Events!EndMark
            /\ \A i \in 1 .. m : t.queue[i] = q[i]
        <5>1. /\ Len(t.queue) = m + Len(items) /\ m \in Nat
              /\ \A i \in 1 .. m + Len(items) : t.queue[i] = IF i <= m THEN q[i] ELSE items[i - m]
          <6>1. m \in Nat
            BY <4>1, LenProperties
          <6>2. /\ Len(q \o items) = m + Len(items)
                /\ \A i \in 1 .. m + Len(items) : (q \o items)[i] = IF i <= m THEN q[i] ELSE items[i - m]
            BY <1>1, <4>1, ConcatProperties
          <6>. QED  BY <4>1, <6>1, <6>2
        <5>2. m + 1 \in 1 .. m + 2 /\ m + 2 \in 1 .. m + 2 /\ (m + 1) - m = 1 /\ (m + 2) - m = 2
              /\ ~(m + 1 <= m) /\ ~(m + 2 <= m)
          BY <5>1
        <5>3. \A i \in 1 .. m : i \in 1 .. m + 2 /\ i <= m
          BY <5>1
        <5>. QED  BY <1>1, <5>1, <5>2, <5>3
      <4>3. Position(t, heard'[c]) = p /\ p + m = published[r] /\ p \in Nat /\ published'[r] = published[r]
        BY <1>2, <3>1, <4>1 DEF Position, Live, EventsInv, Events!TypeOK, Events!Streams, Events!Histories
      <4>4. InOrder(s, heard[c], m)
        BY <3>1 DEF Live
      <4>5. InOrder(t, heard'[c], m)
        BY <4>2, <4>3, <4>4 DEF InOrder
      <4>6. Finishing(c)'
        <5>0. Len(t.queue) - 2 = m
          BY <4>2
        <5>2. heard'[c].said = "nothing" /\ phase'[r] = "finished"
          BY <1>2, <3>1 DEF Live, EventsInv, Events!TypeOK
        <5>. QED  BY <4>1, <4>2, <4>3, <4>5, <5>0, <5>2 DEF Finishing
      <4>7. ReplayInOrder(t, heard'[c])
        BY <1>2, <3>1, <4>1 DEF ReplayInOrder
      <4>7a. phase'[r] # "new"
        BY <1>2 DEF EventsInv, Events!TypeOK
      <4>8. Listening(c)'
        BY <4>1, <4>6, <4>7, <4>7a DEF Listening
      <4>9. Heard(c) /\ heard[c].said = "nothing"
        BY <3>1 DEF EventsInv, Live
      <4>10. Len(t.queue) <= QueueLimit
        BY <1>1, <3>3, <4>2
      <4>. HIDE DEF t
      <4>11. stream'[c] = t /\ heard'[c] = heard[c]
        BY <1>2 DEF t
      <4>. QED  BY <3>1, <4>1, <4>8, <4>9, <4>10, <4>11, EventsApart DEF Heard
    <3>. QED  BY <1>6, <2>2, <3>2, <3>3
  <2>. QED  BY <2>1, <2>2
<1>. QED  BY <1>8, <1>9, <1>10 DEF EventsInv

(* A client leaves the Run it listened to, and no task but its own moves.  *)
LEMMA ClientGone ==
    ASSUME EventsInv, NEW c \in Clients, NEW new \in Events!Streams, new.state \in {"refused", "left", "closed"},
           stream' = [stream EXCEPT ![c] = new], Events!Unsubscribed(c),
           \A d \in Clients : d # c => heard'[d] = heard[d], heard' \in [Clients -> Events!Histories],
           phase' \in [Runs -> Events!Phases],
           \A q \in Runs : phase'[q] = phase[q] \/ (phase[q] = "admitting" /\ phase'[q] = "ended"),
           UNCHANGED <<registry, ready, published, window>>, Heard(c)'
    PROVE  EventsInv'
<1>1. /\ stream'[c] = new /\ \A d \in Clients : d # c => stream'[d] = stream[d]
      /\ stream' \in [Clients -> Events!Streams]
  BY DEF EventsInv, Events!TypeOK
<1>2. /\ listeners' \in [Runs -> SUBSET Clients]
      /\ \A q \in Runs, d \in Clients : d # c => (d \in listeners'[q] <=> d \in listeners[q])
      /\ \A q \in Runs : c \notin listeners'[q]
  BY DEF EventsInv, Events!TypeOK, RunsInOrder, Events!Unsubscribed
<1>3. Events!TypeOK'
  BY <1>1, <1>2 DEF EventsInv, Events!TypeOK
<1>4. RunsForward
  BY DEF RunsForward
<1>5. RunsInOrder'
  <2>1. \A q \in Runs : \A d \in listeners'[q] : stream'[d].run = q /\ stream'[d].state \in {"starting", "open"}
    BY <1>1, <1>2 DEF EventsInv, Events!TypeOK, RunsInOrder
  <2>2. registry' # NoRun => phase'[registry'] \notin {"new", "finished"}
    BY DEF EventsInv, Events!TypeOK, RunsInOrder
  <2>3. \A q \in Runs : /\ phase'[q] = "new" <=> phase[q] = "new"
                        /\ phase'[q] = "admitting" => phase[q] = "admitting"
                        /\ phase'[q] = "finished" <=> phase[q] = "finished"
    OBVIOUS
  <2>. QED  BY <2>1, <2>2, <2>3 DEF EventsInv, RunsInOrder
<1>6. ASSUME NEW d \in Clients, d # c  PROVE Heard(d)'
  <2>1. SameClient(d)
    BY <1>1, <1>2, <1>6 DEF SameClient, EventsInv, Events!TypeOK, Events!Streams
  <2>. QED  BY <1>4, <2>1, SameClientHeard
<1>. QED  BY <1>3, <1>5, <1>6 DEF EventsInv

(* A client goes on with its stream and stays a subscriber.                *)
LEMMA ClientGoesOn ==
    ASSUME EventsInv, NEW c \in Clients, NEW new \in Events!Streams, new.state = "open",
           stream[c].state \in {"starting", "open"}, new.run = stream[c].run,
           stream' = [stream EXCEPT ![c] = new], UNCHANGED listeners,
           \A d \in Clients : d # c => heard'[d] = heard[d], heard' \in [Clients -> Events!Histories],
           UNCHANGED <<registry, phase, ready, published, window>>, Heard(c)'
    PROVE  EventsInv'
<1>1. /\ stream'[c] = new /\ \A d \in Clients : d # c => stream'[d] = stream[d]
      /\ stream' \in [Clients -> Events!Streams]
  BY DEF EventsInv, Events!TypeOK
<1>3. Events!TypeOK'
  BY <1>1 DEF EventsInv, Events!TypeOK
<1>4. RunsForward
  BY DEF RunsForward
<1>5. RunsInOrder'
  <2>1. \A q \in Runs : \A d \in listeners'[q] : stream'[d].run = q /\ stream'[d].state \in {"starting", "open"}
    BY <1>1 DEF EventsInv, Events!TypeOK, RunsInOrder
  <2>. QED  BY <2>1 DEF EventsInv, RunsInOrder
<1>6. ASSUME NEW d \in Clients, d # c  PROVE Heard(d)'
  <2>1. SameClient(d)
    BY <1>1, <1>6 DEF SameClient
  <2>. QED  BY <1>4, <2>1, SameClientHeard
<1>. QED  BY <1>3, <1>5, <1>6 DEF EventsInv

LEMMA SubscribeStep == ASSUME EventsInv, NEW c \in Clients, Events!Subscribe(c)  PROVE EventsInv'
<1>. DEFINE r == registry
            new == [Events!Away EXCEPT !.run = r, !.state = "open", !.replay = Events!Items(window[r]),
                                !.joined = published[r]]
<1>1. /\ stream[c].state = "away" /\ r \in Runs /\ r # NoRun /\ phase[r] \notin {"new", "finished"}
      /\ heard[c] = Events!Nothing
  BY EventsApart DEF Events!Subscribe, EventsInv, Events!TypeOK, RunsInOrder, Heard
<1>2. Events!Items(window[r]) \in Seq(Events!QueueItems) /\ Consecutive(Events!Items(window[r]), published[r]) /\ published[r] \in Nat
  BY <1>1, ItemsOfWindow DEF EventsInv, Events!TypeOK, RunsInOrder
<1>3. /\ new \in Events!Streams /\ new.run = r /\ new.state = "open" /\ new.replay = Events!Items(window[r])
      /\ new.queue = <<>> /\ new.joined = published[r]
  BY <1>1, <1>2, ItemTypes DEF Events!Away, Events!Streams, Events!States
<1>4. /\ stream' = [stream EXCEPT ![c] = new] /\ listeners' = [listeners EXCEPT ![r] = @ \cup {c}]
      /\ UNCHANGED <<registry, phase, ready, published, window, heard>>
  BY DEF Events!Subscribe
<1>. HIDE DEF new
<1>5. stream'[c] = new /\ (\A d \in Clients : d # c => stream'[d] = stream[d]) /\ stream' \in [Clients -> Events!Streams]
  BY <1>3, <1>4 DEF EventsInv, Events!TypeOK
<1>6. /\ listeners' \in [Runs -> SUBSET Clients] /\ c \in listeners'[r]
      /\ \A q \in Runs, d \in Clients : d # c => (d \in listeners'[q] <=> d \in listeners[q])
      /\ \A q \in Runs : c \in listeners'[q] => q = r
  BY <1>1, <1>4 DEF EventsInv, Events!TypeOK, RunsInOrder
<1>7. Events!TypeOK'
  BY <1>4, <1>5, <1>6 DEF EventsInv, Events!TypeOK
<1>8. RunsForward
  BY <1>4 DEF RunsForward
<1>9. RunsInOrder'
  <2>1. \A q \in Runs : \A d \in listeners'[q] : stream'[d].run = q /\ stream'[d].state \in {"starting", "open"}
    BY <1>3, <1>5, <1>6 DEF EventsInv, Events!TypeOK, RunsInOrder
  <2>. QED  BY <1>4, <2>1 DEF EventsInv, RunsInOrder
<1>10. ASSUME NEW d \in Clients, d # c  PROVE Heard(d)'
  <2>1. SameClient(d)
    BY <1>4, <1>5, <1>6, <1>10 DEF SameClient, EventsInv, Events!TypeOK, Events!Streams
  <2>. QED  BY <1>8, <2>1, SameClientHeard
<1>11. Heard(c)'
  <2>1. heard'[c] = Events!Nothing /\ phase'[r] = phase[r] /\ published'[r] = published[r]
    BY <1>1, <1>4
  <2>2. Position(new, Events!Nothing) = published[r] /\ Len(new.queue) = 0
    BY <1>3 DEF Position, Events!Nothing
  <2>3. InOrder(new, Events!Nothing, Len(new.queue))
    BY <2>2 DEF InOrder
  <2>4. Live(c)'
    BY <1>1, <1>2, <1>3, <1>5, <1>6, <2>1, <2>2, <2>3 DEF Live, Events!Nothing
  <2>5. ReplayInOrder(new, Events!Nothing)
    BY <1>2, <1>3 DEF ReplayInOrder, Events!Nothing
  <2>6. Listening(c)'
    BY <1>1, <1>3, <1>5, <2>1, <2>4, <2>5 DEF Listening
  <2>. QED  BY <1>1, <1>2, <1>3, <1>5, <2>1, <2>2, <2>6, EventsApart DEF Heard, Events!Nothing
<1>. QED  BY <1>7, <1>9, <1>10, <1>11 DEF EventsInv

LEMMA SubscribeToNothingStep == ASSUME EventsInv, NEW c \in Clients, Events!SubscribeToNothing(c)  PROVE EventsInv'
<1>. DEFINE new == [Events!Away EXCEPT !.state = "open", !.replay = <<Events!Done>>, !.queue = <<Events!EndMark>>]
<1>1. stream[c].state = "away" /\ heard[c] = Events!Nothing /\ stream[c] = Events!Away
  BY DEF Events!SubscribeToNothing, EventsInv, Heard
<1>3. /\ new \in Events!Streams /\ new.run = NoRun /\ new.state = "open" /\ new.replay = <<Events!Done>>
      /\ new.queue = <<Events!EndMark>> /\ new.joined = 0 /\ Len(new.queue) = 1
  <2>1. <<Events!Done>> \in Seq(Events!QueueItems) /\ <<Events!EndMark>> \in Seq(Events!QueueItems) /\ Len(<<Events!EndMark>>) = 1
    BY ItemTypes
  <2>2. Events!Away \in Events!Streams /\ Events!Away.run = NoRun /\ Events!Away.joined = 0 /\ "open" \in Events!States
    BY ItemTypes DEF Events!Away, Events!States
  <2>3. /\ new \in Events!Streams /\ new.run = Events!Away.run /\ new.state = "open" /\ new.replay = <<Events!Done>>
        /\ new.queue = <<Events!EndMark>> /\ new.joined = Events!Away.joined
    BY <2>1, <2>2 DEF Events!Streams
  <2>. QED  BY <2>1, <2>2, <2>3
<1>4. /\ stream' = [stream EXCEPT ![c] = new]
      /\ UNCHANGED <<registry, phase, ready, published, window, listeners, heard>>
  BY DEF Events!SubscribeToNothing
<1>. HIDE DEF new
<1>5. stream'[c] = new /\ (\A d \in Clients : d # c => stream'[d] = stream[d]) /\ stream' \in [Clients -> Events!Streams]
  BY <1>3, <1>4 DEF EventsInv, Events!TypeOK
<1>6. \A q \in Runs : c \notin listeners[q]
  BY <1>1 DEF EventsInv, RunsInOrder
<1>7. Events!TypeOK'
  BY <1>4, <1>5 DEF EventsInv, Events!TypeOK
<1>8. RunsForward
  BY <1>4 DEF RunsForward
<1>9. RunsInOrder'
  <2>1. \A q \in Runs : \A d \in listeners'[q] : stream'[d].run = q /\ stream'[d].state \in {"starting", "open"}
    BY <1>4, <1>5, <1>6 DEF EventsInv, Events!TypeOK, RunsInOrder
  <2>. QED  BY <1>4, <2>1 DEF EventsInv, RunsInOrder
<1>10. ASSUME NEW d \in Clients, d # c  PROVE Heard(d)'
  <2>1. SameClient(d)
    BY <1>4, <1>5, <1>10 DEF SameClient
  <2>. QED  BY <1>8, <2>1, SameClientHeard
<1>11. Heard(c)'
  <2>1. NothingToHear(c)'
    BY <1>1, <1>3, <1>4, <1>5 DEF NothingToHear, Events!Nothing
  <2>2. heard'[c] = Events!Nothing
    BY <1>1, <1>4
  <2>3. /\ ~Events!Nothing.gap /\ Events!Nothing.first = 0 /\ Events!Nothing.last = 0 /\ Events!Nothing.said = "nothing"
        /\ 1 <= QueueLimit
    BY EventsApart DEF Events!Nothing
  <2>. DEFINE t == stream'[c]
              h == heard'[c]
  <2>4. /\ t.state = "open" /\ t.run = NoRun /\ t.joined = 0 /\ Len(t.queue) = 1
        /\ ~h.gap /\ h.first = 0 /\ h.last = 0 /\ h.said = "nothing"
    BY <1>3, <1>5, <2>2, <2>3
  <2>5. h.first <= t.joined + 1 /\ Len(t.queue) <= QueueLimit
    BY <2>3, <2>4
  <2>. QED  BY <2>1, <2>4, <2>5 DEF Heard
<1>. QED  BY <1>7, <1>9, <1>10, <1>11 DEF EventsInv

LEMMA StartReturnsStep == ASSUME EventsInv, NEW c \in Clients, Events!StartReturns(c)  PROVE EventsInv'
<1>. DEFINE s == stream[c]
            r == s.run
<1>1. /\ s.state = "starting" /\ r \in Runs /\ r # NoRun /\ s.replay = <<>> /\ heard[c] = Events!Nothing /\ Listening(c)
      /\ s \in Events!Streams /\ Heard(c)
  BY DEF Events!StartReturns, EventsInv, Events!TypeOK, Events!Streams, Heard
<1>2. UNCHANGED <<registry, phase, ready, published, window, heard>> /\ heard' \in [Clients -> Events!Histories]
  BY DEF Events!StartReturns, EventsInv, Events!TypeOK
<1>3. CASE stream' = [stream EXCEPT ![c].state = "open"] /\ UNCHANGED listeners
  <2>. DEFINE new == [s EXCEPT !.state = "open"]
  <2>1. /\ new \in Events!Streams /\ new.run = r /\ new.state = "open" /\ new.replay = <<>>
        /\ new.queue = s.queue /\ new.joined = s.joined
    BY <1>1 DEF Events!Streams, Events!States
  <2>2. stream' = [stream EXCEPT ![c] = new]
    BY <1>3 DEF EventsInv, Events!TypeOK
  <2>. HIDE DEF new
  <2>3. stream'[c] = new /\ heard'[c] = heard[c]
    BY <1>2, <2>2 DEF EventsInv, Events!TypeOK
  <2>4. Listening(c)'
    <3>1. ReplayInOrder(new, heard'[c])
      BY <2>1, EmptyReplay
    <3>2. \A h, n : Position(new, h) = Position(s, h) /\ (InOrder(new, h, n) <=> InOrder(s, h, n))
      BY <1>1, <2>1 DEF Position, InOrder
    <3>3. Live(c) => Live(c)'
      BY <1>2, <1>3, <2>1, <2>3, <3>2 DEF Live
    <3>4. Finishing(c) => Finishing(c)'
      BY <1>2, <1>3, <2>1, <2>3, <3>2 DEF Finishing
    <3>5. ToldDone(c) => ToldDone(c)'
      BY <1>2, <1>3, <2>1, <2>3, <3>2 DEF ToldDone
    <3>6. Cut(c) => Cut(c)'
      BY <1>1, <1>2, <1>3, <2>1, <2>3 DEF Cut
    <3>7. phase[r] # "new" /\ (Live(c) \/ Finishing(c) \/ ToldDone(c) \/ Cut(c))
      BY <1>1 DEF Listening
    <3>. QED  BY <1>2, <2>1, <2>3, <3>1, <3>3, <3>4, <3>5, <3>6, <3>7 DEF Listening
  <2>5. Heard(c)'
    BY <1>1, <1>2, <2>1, <2>3, <2>4 DEF Heard, Events!Nothing
  <2>. QED  BY <1>1, <1>2, <1>3, <2>1, <2>2, <2>5, ClientGoesOn
<1>4. CASE Events!Close(c, "refused") /\ Events!Unsubscribed(c)
  <2>. DEFINE new == [s EXCEPT !.state = "refused", !.queue = <<>>, !.replay = <<>>]
  <2>1. /\ new \in Events!Streams /\ new.run = r /\ new.state = "refused" /\ new.replay = <<>>
        /\ new.queue = <<>> /\ new.joined = s.joined
    BY <1>1 DEF Events!Streams, Events!States
  <2>2. stream' = [stream EXCEPT ![c] = new]
    BY <1>4 DEF Events!Close
  <2>. HIDE DEF new
  <2>3. stream'[c] = new /\ heard'[c] = Events!Nothing
    BY <1>1, <1>2, <2>2 DEF EventsInv, Events!TypeOK
  <2>5. Heard(c)'
    BY <1>1, <2>1, <2>3, EventsApart DEF Heard, Events!Nothing, Events!Streams
  <2>6. phase' \in [Runs -> Events!Phases]
    BY <1>2 DEF EventsInv, Events!TypeOK
  <2>. QED  BY <1>2, <1>4, <2>1, <2>2, <2>5, <2>6, ClientGone
<1>. QED  BY <1>3, <1>4 DEF Events!StartReturns

(* A client that is forgotten is told nothing.                             *)
LEMMA ForgetHeard ==
    ASSUME EventsInv, NEW c \in Clients, Events!Forget(c)
    PROVE  /\ stream' = [stream EXCEPT ![c] = [Events!Away EXCEPT !.state = "left"]]
           /\ [Events!Away EXCEPT !.state = "left"] \in Events!Streams
           /\ [Events!Away EXCEPT !.state = "left"].state = "left"
           /\ heard' \in [Clients -> Events!Histories]
           /\ \A d \in Clients : d # c => heard'[d] = heard[d]
           /\ Heard(c)'
<1>. DEFINE new == [Events!Away EXCEPT !.state = "left"]
<1>1. /\ new \in Events!Streams /\ new.run = NoRun /\ new.state = "left" /\ new.replay = <<>>
      /\ new.queue = <<>> /\ new.joined = 0
  BY ItemTypes DEF Events!Away, Events!Streams, Events!States
<1>2. stream' = [stream EXCEPT ![c] = new] /\ heard' = [heard EXCEPT ![c] = Events!Nothing]
  BY DEF Events!Forget
<1>. HIDE DEF new
<1>3. stream'[c] = new /\ heard'[c] = Events!Nothing /\ heard' \in [Clients -> Events!Histories]
      /\ \A d \in Clients : d # c => heard'[d] = heard[d]
  BY <1>2, ItemTypes DEF EventsInv, Events!TypeOK
<1>4. Heard(c)'
  BY <1>1, <1>3, EventsApart DEF Heard, Events!Nothing
<1>. QED  BY <1>1, <1>2, <1>3, <1>4 DEF new

LEMMA StartIsCancelledStep == ASSUME EventsInv, NEW c \in Clients, Events!StartIsCancelled(c)  PROVE EventsInv'
<1>1. Events!Forget(c) /\ Events!Unsubscribed(c) /\ UNCHANGED <<registry, ready, published, window>>
  BY DEF Events!StartIsCancelled
<1>2. /\ phase' \in [Runs -> Events!Phases]
      /\ \A q \in Runs : phase'[q] = phase[q] \/ (phase[q] = "admitting" /\ phase'[q] = "ended")
  BY DEF Events!StartIsCancelled, EventsInv, Events!TypeOK, Events!Phases
<1>. QED  BY <1>1, <1>2, ForgetHeard, ClientGone

LEMMA EventsLeaveStep == ASSUME EventsInv, NEW c \in Clients, Events!Leave(c)  PROVE EventsInv'
<1>1. Events!Forget(c) /\ Events!Unsubscribed(c) /\ UNCHANGED <<registry, ready, published, window>>
  BY DEF Events!Leave
<1>2. /\ phase' \in [Runs -> Events!Phases]
      /\ \A q \in Runs : phase'[q] = phase[q] \/ (phase[q] = "admitting" /\ phase'[q] = "ended")
  BY DEF Events!Leave, EventsInv, Events!TypeOK
<1>. QED  BY <1>1, <1>2, ForgetHeard, ClientGone

(* What a client has received is in order and said nothing of the end.     *)
Gapless(s, h) ==
    /\ ~h.gap /\ h.said = "nothing" /\ (h.first = 0 <=> h.last = 0) /\ h.first <= s.joined + 1

LEMMA QueuedEventHeard ==
    ASSUME NEW s \in Events!Streams, NEW h \in Events!Histories, s.replay = <<>>, Gapless(s, h),
           NEW n \in Nat, n # 0, n <= Len(s.queue), InOrder(s, h, n),
           NEW t \in Events!Streams, t.replay = <<>>, t.queue = Tail(s.queue), t.joined = s.joined
    PROVE  /\ Events!Noted(h, Head(s.queue)) \in Events!Histories
           /\ Gapless(t, Events!Noted(h, Head(s.queue)))
           /\ Position(t, Events!Noted(h, Head(s.queue))) = Position(s, h) + 1
           /\ InOrder(t, Events!Noted(h, Head(s.queue)), n - 1)
           /\ Head(s.queue) # Events!EndMark
<1>. DEFINE p == Position(s, h)
            g == Events!Noted(h, Head(s.queue))
            item == Head(s.queue)
<1>1. p \in Nat /\ (h.last = 0 => p = s.joined) /\ (h.last # 0 => p = h.last)
  BY DEF Position, Events!Streams, Events!Histories
<1>2. s.queue \in Seq(Events!QueueItems) /\ Len(s.queue) \in Nat /\ s.queue # <<>>
  <2>1. s.queue \in Seq(Events!QueueItems)
    BY DEF Events!Streams
  <2>. QED  BY <2>1, LenProperties, EmptySeq
<1>3. item = Events!Item("event", p + 1, p + 1)
  <2>1. s.queue[1] = Events!Item("event", p + 1, p + 1)
    BY DEF InOrder
  <2>. QED  BY <1>2, <2>1
<1>4. /\ item.kind = "event" /\ item.first = p + 1 /\ item.last = p + 1
      /\ item.first \in Nat /\ item.last \in Nat
  BY <1>1, <1>3 DEF Events!Item
<1>. HIDE DEF item, p
<1>5. /\ g = [h EXCEPT !.first = IF @ = 0 THEN item.first ELSE @, !.last = item.last,
                       !.gap = @ \/ (h.last # 0 /\ item.first # h.last + 1) \/ h.said # "nothing"]
  BY <1>4 DEF Events!Noted, item
<1>6. h.last # 0 => item.first = h.last + 1
  BY <1>1, <1>4
<1>7. g.last = p + 1 /\ g.first = (IF h.first = 0 THEN p + 1 ELSE h.first) /\ g.said = "nothing" /\ ~g.gap
  BY <1>4, <1>5, <1>6 DEF Events!Histories, Gapless
<1>8. g \in Events!Histories
  BY <1>1, <1>4, <1>5 DEF Events!Histories
<1>. HIDE DEF g
<1>9. Gapless(t, g)
  <2>1. h.first \in Nat /\ h.last \in Nat /\ s.joined \in Nat
    BY DEF Events!Histories, Events!Streams
  <2>2. g.first = 0 <=> g.last = 0
    BY <1>1, <1>7, <2>1
  <2>3. g.first <= t.joined + 1
    BY <1>1, <1>7, <2>1 DEF Gapless
  <2>. QED  BY <1>7, <2>2, <2>3 DEF Gapless
<1>10. Position(t, g) = p + 1
  BY <1>1, <1>7 DEF Position
<1>11. InOrder(t, g, n - 1)
  <2>1. SUFFICES ASSUME NEW i \in 1 .. n - 1 PROVE t.queue[i] = Events!Item("event", (p + 1) + i, (p + 1) + i)
    BY <1>10 DEF InOrder
  <2>2. t.queue[i] = s.queue[i + 1]
    <3>1. i \in 1 .. Len(s.queue) - 1
      BY <1>2
    <3>. QED  BY <1>2, <3>1, HeadTailProperties
  <2>3. i + 1 \in 1 .. n /\ p + (i + 1) = (p + 1) + i
    BY <1>1
  <2>. QED  BY <2>2, <2>3 DEF InOrder, p
<1>12. item # Events!EndMark
  BY <1>4, ItemTypes
<1>. QED  BY <1>8, <1>9, <1>10, <1>11, <1>12 DEF g, p, item

LEMMA ReplayedEventHeard ==
    ASSUME NEW s \in Events!Streams, NEW h \in Events!Histories, s.replay # <<>>, Gapless(s, h), ReplayInOrder(s, h),
           NEW t \in Events!Streams, t.replay = Tail(s.replay), t.queue = s.queue, t.joined = s.joined
    PROVE  /\ Events!Noted(h, Head(s.replay)) \in Events!Histories
           /\ Gapless(t, Events!Noted(h, Head(s.replay)))
           /\ ReplayInOrder(t, Events!Noted(h, Head(s.replay)))
           /\ Position(t, Events!Noted(h, Head(s.replay))) = Position(s, h)
<1>. DEFINE g == Events!Noted(h, Head(s.replay))
            item == Head(s.replay)
            k == Len(s.replay)
            r == s.replay
            j == s.joined
<1>1. r \in Seq(Events!QueueItems) /\ k \in Nat /\ k >= 1 /\ j \in Nat
  <2>1. r \in Seq(Events!QueueItems) /\ j \in Nat
    BY DEF Events!Streams
  <2>. QED  BY <2>1, LenProperties, EmptySeq
<1>2. item = r[1] /\ item \in Events!QueueItems
  BY <1>1, ElementOfSeq
<1>3. /\ item.kind = "event" /\ 1 <= item.first /\ item.first <= item.last /\ item.last <= j
      /\ IF k = 1 THEN item.last = j ELSE r[2].first = item.last + 1
      /\ item.first \in Nat /\ item.last \in Nat
  <2>1. 1 \in 1 .. k /\ 1 + 1 = 2
    BY <1>1
  <2>. QED  BY <1>2, <2>1 DEF ReplayInOrder, Consecutive, Events!QueueItems
<1>4. h.last # 0 => item.first = h.last + 1
  BY <1>2 DEF ReplayInOrder
<1>4a. k # 1 => 1 \in 1 .. k - 1
  <2>1. \A x \in Nat : x >= 1 /\ x # 1 => 1 \in 1 .. x - 1
    OBVIOUS
  <2>. QED  BY <1>1, <2>1
<1>. HIDE DEF item
<1>5. /\ g = [h EXCEPT !.first = IF @ = 0 THEN item.first ELSE @, !.last = item.last,
                       !.gap = @ \/ (h.last # 0 /\ item.first # h.last + 1) \/ h.said # "nothing"]
  BY <1>3 DEF Events!Noted, item
<1>6. g.last = item.last /\ g.first = (IF h.first = 0 THEN item.first ELSE h.first) /\ g.said = "nothing" /\ ~g.gap
  BY <1>4, <1>5 DEF Events!Histories, Gapless
<1>7. g \in Events!Histories
  BY <1>3, <1>5 DEF Events!Histories
<1>. HIDE DEF g
<1>8. Gapless(t, g)
  <2>1. h.first \in Nat /\ h.last \in Nat
    BY DEF Events!Histories
  <2>2. g.first = 0 <=> g.last = 0
    BY <1>3, <1>6, <2>1
  <2>3. g.first <= t.joined + 1
    BY <1>1, <1>3, <1>6, <2>1 DEF Gapless
  <2>. QED  BY <1>6, <2>2, <2>3 DEF Gapless
<1>9. /\ t.replay \in Seq(Events!QueueItems) /\ Len(t.replay) = k - 1
      /\ \A i \in 1 .. k - 1 : t.replay[i] = r[i + 1]
  BY <1>1, HeadTailProperties
<1>10. t.replay = <<>> <=> k = 1
  <2>1. Len(t.replay) = 0 <=> k = 1
    BY <1>1, <1>9
  <2>2. Len(t.replay) = 0 <=> t.replay = <<>>
    BY <1>9, EmptySeq
  <2>. QED  BY <2>1, <2>2
<1>11. Position(t, g) = Position(s, h)
  <2>1. Position(s, h) = j
    BY DEF Position
  <2>2. CASE k = 1
    BY <1>3, <1>6, <1>10, <2>1, <2>2 DEF Position
  <2>3. CASE k # 1
    BY <1>10, <2>1, <2>3 DEF Position
  <2>. QED  BY <2>2, <2>3
<1>12. ReplayInOrder(t, g)
  <2>1. Consecutive(t.replay, j)
    <3>1. SUFFICES ASSUME NEW i \in 1 .. k - 1
                   PROVE  /\ t.replay[i].kind = "event" /\ 1 <= t.replay[i].first
                          /\ t.replay[i].first <= t.replay[i].last /\ t.replay[i].last <= j
                          /\ IF i = k - 1 THEN t.replay[i].last = j
                             ELSE t.replay[i + 1].first = t.replay[i].last + 1
      BY <1>9 DEF Consecutive
    <3>2. i + 1 \in 1 .. k /\ (i = k - 1 <=> i + 1 = k) /\ t.replay[i] = r[i + 1]
      BY <1>1, <1>9
    <3>3. i # k - 1 => t.replay[i + 1] = r[(i + 1) + 1]
      <4>1. i # k - 1 => i + 1 \in 1 .. k - 1
        BY <1>1
      <4>. QED  BY <1>9, <4>1
    <3>. QED  BY <3>2, <3>3 DEF ReplayInOrder, Consecutive
  <2>2. t.replay # <<>> => t.replay[1].first = g.last + 1
    <3>1. ASSUME k # 1 PROVE t.replay[1] = r[2]
      <4>1. 1 \in 1 .. k - 1 /\ 1 + 1 = 2
        BY <1>4a, <3>1
      <4>. QED  BY <1>9, <4>1
    <3>. QED  BY <1>3, <1>6, <1>10, <3>1
  <2>. QED  BY <2>1, <2>2 DEF ReplayInOrder
<1>. QED  BY <1>7, <1>8, <1>11, <1>12 DEF g

(* What a step of a subscriber may leave: the rest of its stream.          *)
LEMMA ReceiveItem ==
    ASSUME EventsInv, NEW c \in Clients, stream[c].state = "open", NEW new \in Events!Streams, NEW g \in Events!Histories,
           new.state = "open", new.run = stream[c].run, new.joined = stream[c].joined,
           stream' = [stream EXCEPT ![c] = new], heard' = [heard EXCEPT ![c] = g],
           UNCHANGED <<registry, phase, ready, published, window, listeners>>,
           stream'[c] = new /\ heard'[c] = g => Heard(c)'
    PROVE  EventsInv'
<1>1. stream'[c] = new /\ heard'[c] = g
  BY DEF EventsInv, Events!TypeOK
<1>2. heard' \in [Clients -> Events!Histories] /\ \A d \in Clients : d # c => heard'[d] = heard[d]
  BY DEF EventsInv, Events!TypeOK
<1>. QED  BY <1>1, <1>2, ClientGoesOn

LEMMA ReceiveReplayed ==
    ASSUME EventsInv, NEW c \in Clients, stream[c].state = "open", stream[c].replay # <<>>,
           heard' = [heard EXCEPT ![c] = Events!Noted(@, Head(stream[c].replay))],
           stream' = [stream EXCEPT ![c].replay = Tail(@)],
           UNCHANGED <<registry, phase, ready, published, window, listeners>>
    PROVE  EventsInv'
<1>. DEFINE s == stream[c]
            h == heard[c]
            g == Events!Noted(h, Head(s.replay))
            new == [s EXCEPT !.replay = Tail(s.replay)]
<1>1. s \in Events!Streams /\ h \in Events!Histories /\ Heard(c) /\ s.replay \in Seq(Events!QueueItems)
  BY DEF EventsInv, Events!TypeOK, Events!Streams
<1>2. /\ new \in Events!Streams /\ new.state = "open" /\ new.run = s.run /\ new.joined = s.joined
      /\ new.queue = s.queue /\ new.replay = Tail(s.replay)
  <2>1. Tail(s.replay) \in Seq(Events!QueueItems)
    BY <1>1, HeadTailProperties
  <2>. QED  BY <1>1, <2>1 DEF Events!Streams
<1>3. stream' = [stream EXCEPT ![c] = new] /\ heard' = [heard EXCEPT ![c] = g]
  BY <1>1 DEF EventsInv, Events!TypeOK, Events!Streams
<1>. HIDE DEF new, g
<1>4. CASE s.run = NoRun
  <2>1. NothingToHear(c) /\ s.replay = <<Events!Done>> /\ h.said = "nothing"
    BY <1>1, <1>4 DEF Heard, NothingToHear
  <2>2. Head(s.replay) = Events!Done /\ Tail(s.replay) = <<>>
    BY <2>1
  <2>3. g = [h EXCEPT !.said = "done"] /\ g \in Events!Histories
    BY <1>1, <2>2, ItemTypes DEF Events!Noted, Events!Histories, g
  <2>4. g.said = "done" /\ g.first = h.first /\ g.last = h.last /\ g.gap = h.gap
    BY <1>1, <2>3 DEF Events!Histories
  <2>5. stream'[c] = new /\ heard'[c] = g => Heard(c)'
    <3>1. SUFFICES ASSUME stream'[c] = new, heard'[c] = g PROVE Heard(c)'
      OBVIOUS
    <3>2. NothingToHear(c)'
      BY <1>2, <2>1, <2>2, <2>4, <3>1 DEF NothingToHear
    <3>. QED  BY <1>1, <1>2, <1>4, <2>1, <2>4, <3>1, <3>2 DEF Heard
  <2>6. g \in Events!Histories
    BY <2>3
  <2>. QED  BY <1>2, <1>3, <2>5, <2>6, ReceiveItem
<1>5. CASE s.run # NoRun
  <2>1. Listening(c) /\ phase[s.run] # "new" /\ ReplayInOrder(s, h)
    BY <1>1, <1>5 DEF Heard, Listening
  <2>2. h.said = "nothing" /\ Gapless(s, h)
    BY <1>1, <2>1 DEF Listening, Live, Finishing, ToldDone, Cut, Heard, Gapless
  <2>3. /\ g \in Events!Histories /\ Gapless(new, g) /\ ReplayInOrder(new, g)
        /\ Position(new, g) = Position(s, h)
    BY <1>1, <1>2, <2>1, <2>2, ReplayedEventHeard DEF g
  <2>4. \A n : InOrder(new, g, n) <=> InOrder(s, h, n)
    BY <1>2, <2>3 DEF InOrder
  <2>5. stream'[c] = new /\ heard'[c] = g => Heard(c)'
    <3>1. SUFFICES ASSUME stream'[c] = new, heard'[c] = g PROVE Heard(c)'
      OBVIOUS
    <3>2. g.said = "nothing"
      BY <2>3 DEF Gapless
    <3>3. Live(c) => Live(c)'
      BY <1>2, <2>3, <2>4, <3>1, <3>2 DEF Live
    <3>4. Finishing(c) => Finishing(c)'
      BY <1>2, <2>3, <2>4, <3>1, <3>2 DEF Finishing
    <3>5. Cut(c) => Cut(c)'
      BY <1>2, <2>2, <3>1, <3>2 DEF Cut
    <3>6. ~ToldDone(c)
      BY <2>2 DEF ToldDone
    <3>7. Listening(c)'
      BY <1>2, <2>1, <2>3, <3>1, <3>3, <3>4, <3>5, <3>6 DEF Listening
    <3>. QED  BY <1>1, <1>2, <1>5, <2>3, <3>1, <3>7 DEF Heard, Gapless
  <2>. QED  BY <1>2, <1>3, <2>3, <2>5, ReceiveItem
<1>. QED  BY <1>4, <1>5

LEMMA ReceiveQueued ==
    ASSUME EventsInv, NEW c \in Clients, stream[c].state = "open", stream[c].replay = <<>>,
           stream[c].queue # <<>>, Head(stream[c].queue) # Events!EndMark,
           heard' = [heard EXCEPT ![c] = Events!Noted(@, Head(stream[c].queue))],
           stream' = [stream EXCEPT ![c].queue = Tail(@)],
           UNCHANGED <<registry, phase, ready, published, window, listeners>>
    PROVE  EventsInv'
<1>. DEFINE s == stream[c]
            h == heard[c]
            g == Events!Noted(h, Head(s.queue))
            new == [s EXCEPT !.queue = Tail(s.queue)]
            k == Len(s.queue)
<1>1. s \in Events!Streams /\ h \in Events!Histories /\ Heard(c) /\ s.queue \in Seq(Events!QueueItems)
  BY DEF EventsInv, Events!TypeOK, Events!Streams
<1>2. /\ new \in Events!Streams /\ new.state = "open" /\ new.run = s.run /\ new.joined = s.joined
      /\ new.queue = Tail(s.queue) /\ new.replay = <<>>
  <2>1. Tail(s.queue) \in Seq(Events!QueueItems)
    BY <1>1, HeadTailProperties
  <2>. QED  BY <1>1, <2>1 DEF Events!Streams
<1>3. stream' = [stream EXCEPT ![c] = new] /\ heard' = [heard EXCEPT ![c] = g]
  BY <1>1 DEF EventsInv, Events!TypeOK, Events!Streams
<1>4. /\ Len(new.queue) = k - 1 /\ k \in Nat /\ k # 0 /\ Head(s.queue) = s.queue[1]
      /\ \A i \in 1 .. k - 1 : new.queue[i] = s.queue[i + 1]
  <2>1. k \in Nat /\ k # 0
    BY <1>1, EmptySeq
  <2>2. Len(Tail(s.queue)) = k - 1 /\ \A i \in 1 .. Len(Tail(s.queue)) : Tail(s.queue)[i] = s.queue[i + 1]
    BY <1>1, HeadTailProperties
  <2>3. Head(s.queue) = s.queue[1]
    BY <1>1
  <2>. QED  BY <1>2, <2>1, <2>2, <2>3
<1>. HIDE DEF new, g, k
<1>5. /\ s.run # NoRun /\ Listening(c) /\ phase[s.run] # "new" /\ ReplayInOrder(new, g)
      /\ k <= QueueLimit
  <2>1. s.run # NoRun
    BY <1>1 DEF Heard, NothingToHear
  <2>. QED  BY <1>1, <1>2, <2>1, EmptyReplay DEF Heard, Listening, k
<1>6. k - 1 <= QueueLimit
  BY <1>4, <1>5, EventsApart
<1>7. ASSUME NEW n \in Nat, n # 0, n <= k, InOrder(s, h, n), h.said = "nothing"
      PROVE  /\ g \in Events!Histories /\ Gapless(new, g) /\ Position(new, g) = Position(s, h) + 1
             /\ InOrder(new, g, n - 1) /\ g.said = "nothing" /\ Position(s, h) \in Nat
  <2>1. Gapless(s, h)
    BY <1>1, <1>7 DEF Gapless, Heard
  <2>2. /\ g \in Events!Histories /\ Gapless(new, g) /\ Position(new, g) = Position(s, h) + 1
        /\ InOrder(new, g, n - 1)
    BY <1>1, <1>2, <1>7, <2>1, QueuedEventHeard DEF g, k
  <2>. QED  BY <1>1, <2>2 DEF Gapless, Position, Events!Streams, Events!Histories
<1>8. CASE Live(c)
  <2>1. InOrder(s, h, k) /\ h.said = "nothing" /\ Position(s, h) + k = published[s.run] /\ k \in Nat /\ k <= k
        /\ c \in listeners[s.run] /\ phase[s.run] # "finished"
    BY <1>4, <1>8 DEF Live, k
  <2>2. /\ g \in Events!Histories /\ Gapless(new, g) /\ Position(new, g) = Position(s, h) + 1
        /\ InOrder(new, g, k - 1) /\ g.said = "nothing" /\ Position(s, h) \in Nat
    BY <1>4, <1>7, <2>1
  <2>3. stream'[c] = new /\ heard'[c] = g => Heard(c)'
    <3>1. SUFFICES ASSUME stream'[c] = new, heard'[c] = g PROVE Heard(c)'
      OBVIOUS
    <3>2. Position(new, g) + Len(new.queue) = published[s.run]
      BY <1>4, <2>1, <2>2
    <3>3. Live(c)'
      BY <1>2, <1>4, <2>1, <2>2, <3>1, <3>2 DEF Live
    <3>4. Listening(c)'
      BY <1>2, <1>5, <3>1, <3>3 DEF Listening
    <3>. QED  BY <1>2, <1>4, <1>5, <1>6, <2>2, <3>1, <3>4 DEF Heard, Gapless
  <2>. QED  BY <1>2, <1>3, <2>2, <2>3, ReceiveItem
<1>9. CASE Finishing(c) /\ k # 2
  <2>1. /\ InOrder(s, h, k - 2) /\ h.said = "nothing" /\ Position(s, h) + (k - 2) = published[s.run]
        /\ k - 2 \in Nat /\ phase[s.run] = "finished"
        /\ s.queue[(k - 2) + 1] = Events!Done /\ s.queue[(k - 2) + 2] = Events!EndMark
    BY <1>9 DEF Finishing, k
  <2>2. /\ g \in Events!Histories /\ Gapless(new, g) /\ Position(new, g) = Position(s, h) + 1
        /\ InOrder(new, g, k - 2 - 1) /\ g.said = "nothing" /\ Position(s, h) \in Nat
    <3>1. k - 2 # 0 /\ k - 2 <= k
      BY <1>4, <1>9
    <3>. QED  BY <2>1, <3>1, <1>7
  <2>3. stream'[c] = new /\ heard'[c] = g => Heard(c)'
    <3>1. SUFFICES ASSUME stream'[c] = new, heard'[c] = g PROVE Heard(c)'
      OBVIOUS
    <3>2. /\ Len(new.queue) - 2 = k - 2 - 1 /\ k - 2 - 1 \in Nat
          /\ Position(new, g) + (k - 2 - 1) = published[s.run]
      <4>1. k \in Nat /\ k - 2 \in Nat /\ k # 2
        BY <1>4, <1>9, <2>1
      <4>2. k - 2 - 1 \in Nat /\ k - 1 - 2 = k - 2 - 1 /\ 1 + (k - 2 - 1) = k - 2
        BY <4>1
      <4>3. \A p \in Nat : (p + 1) + (k - 2 - 1) = p + (k - 2)
        BY <4>1
      <4>. QED  BY <1>4, <2>1, <2>2, <4>2, <4>3
    <3>3. new.queue[(k - 2 - 1) + 1] = Events!Done /\ new.queue[(k - 2 - 1) + 2] = Events!EndMark
      <4>1. (k - 2 - 1) + 1 \in 1 .. k - 1 /\ (k - 2 - 1) + 2 \in 1 .. k - 1
        BY <1>4, <1>9, <2>1
      <4>2. ((k - 2 - 1) + 1) + 1 = (k - 2) + 1 /\ ((k - 2 - 1) + 2) + 1 = (k - 2) + 2
        BY <1>4
      <4>. QED  BY <1>4, <2>1, <4>1, <4>2
    <3>4. Finishing(c)'
      BY <1>2, <2>1, <2>2, <3>1, <3>2, <3>3 DEF Finishing
    <3>5. Listening(c)'
      BY <1>2, <1>5, <3>1, <3>4 DEF Listening
    <3>. QED  BY <1>2, <1>4, <1>5, <1>6, <2>2, <3>1, <3>5 DEF Heard, Gapless
  <2>. QED  BY <1>2, <1>3, <2>2, <2>3, ReceiveItem
<1>10. CASE Finishing(c) /\ k = 2
  <2>1. /\ h.said = "nothing" /\ Position(s, h) + 0 = published[s.run] /\ phase[s.run] = "finished"
        /\ s.queue[1] = Events!Done /\ s.queue[2] = Events!EndMark
    BY <1>10 DEF Finishing, k
  <2>2. g = [h EXCEPT !.said = "done"] /\ g \in Events!Histories
    BY <1>1, <1>4, <2>1, ItemTypes DEF Events!Noted, Events!Histories, g
  <2>3. g.said = "done" /\ g.first = h.first /\ g.last = h.last /\ g.gap = h.gap
    BY <1>1, <2>2 DEF Events!Histories
  <2>4. new.queue = <<Events!EndMark>>
    <3>1. Len(new.queue) = 1 /\ new.queue[1] = Events!EndMark /\ new.queue \in Seq(Events!QueueItems)
      <4>1. 1 \in 1 .. k - 1 /\ k - 1 = 1 /\ 1 + 1 = 2
        BY <1>10
      <4>2. new.queue[1] = s.queue[1 + 1]
        BY <1>4, <4>1
      <4>3. new.queue \in Seq(Events!QueueItems)
        BY <1>2 DEF Events!Streams
      <4>. QED  BY <1>4, <2>1, <4>1, <4>2, <4>3
    <3>2. /\ <<Events!EndMark>> \in Seq(Events!QueueItems) /\ Len(<<Events!EndMark>>) = 1 /\ <<Events!EndMark>>[1] = Events!EndMark
      BY ItemTypes
    <3>. QED  BY <3>1, <3>2, SeqEqual
  <2>5. Position(new, g) = published[s.run] /\ (IF h.first = 0 THEN s.joined = published[s.run] ELSE h.last = published[s.run])
    <3>1. Position(s, h) = published[s.run] /\ (h.first = 0 <=> h.last = 0)
      BY <1>1, <2>1 DEF Position, Events!Streams, Events!Histories, Heard
    <3>. QED  BY <1>2, <2>3, <3>1 DEF Position
  <2>6. stream'[c] = new /\ heard'[c] = g => Heard(c)'
    <3>1. SUFFICES ASSUME stream'[c] = new, heard'[c] = g PROVE Heard(c)'
      OBVIOUS
    <3>2. ToldDone(c)'
      BY <1>2, <2>1, <2>3, <2>4, <2>5, <3>1 DEF ToldDone
    <3>3. Listening(c)'
      BY <1>2, <1>5, <3>1, <3>2 DEF Listening
    <3>. QED  BY <1>1, <1>2, <1>4, <1>5, <1>6, <2>1, <2>3, <2>5, <3>1, <3>3 DEF Heard
  <2>7. g \in Events!Histories
    BY <2>2
  <2>. QED  BY <1>2, <1>3, <2>6, <2>7, ReceiveItem
<1>11. CASE Cut(c)
  <2>1. s.queue # <<Events!EndMark>>
    BY <1>4
  <2>2. /\ h.said = "nothing" /\ s.queue = <<Events!Dropped, Events!EndMark>> /\ k = 2 /\ c \notin listeners[s.run]
        /\ s.queue[1] = Events!Dropped /\ s.queue[2] = Events!EndMark
    <3>1. h.said = "nothing" /\ s.queue = <<Events!Dropped, Events!EndMark>> /\ c \notin listeners[s.run]
      BY <1>11, <2>1 DEF Cut
    <3>. QED  BY <3>1 DEF k
  <2>3. g = [h EXCEPT !.said = "error"] /\ g \in Events!Histories
    BY <1>1, <1>4, <2>2, ItemTypes DEF Events!Noted, Events!Histories, g
  <2>4. g.said = "error" /\ g.first = h.first /\ g.last = h.last /\ g.gap = h.gap
    BY <1>1, <2>3 DEF Events!Histories
  <2>5. new.queue = <<Events!EndMark>>
    BY <1>2, <2>2
  <2>6. stream'[c] = new /\ heard'[c] = g => Heard(c)'
    <3>1. SUFFICES ASSUME stream'[c] = new, heard'[c] = g PROVE Heard(c)'
      OBVIOUS
    <3>2. Cut(c)'
      BY <1>2, <2>2, <2>4, <2>5, <3>1 DEF Cut
    <3>3. Listening(c)'
      BY <1>2, <1>5, <3>1, <3>2 DEF Listening
    <3>. QED  BY <1>1, <1>2, <1>4, <1>5, <1>6, <2>4, <3>1, <3>3 DEF Heard
  <2>7. g \in Events!Histories
    BY <2>3
  <2>. QED  BY <1>2, <1>3, <2>6, <2>7, ReceiveItem
<1>12. ~ToldDone(c)
  BY <1>4 DEF ToldDone
<1>. QED  BY <1>5, <1>8, <1>9, <1>10, <1>11, <1>12 DEF Listening

LEMMA ReceiveEnd ==
    ASSUME EventsInv, NEW c \in Clients, stream[c].state = "open", stream[c].replay = <<>>,
           stream[c].queue # <<>>, Head(stream[c].queue) = Events!EndMark, Events!Close(c, "closed"), Events!Unsubscribed(c),
           UNCHANGED <<registry, phase, ready, published, window, heard>>
    PROVE  EventsInv'
<1>. DEFINE s == stream[c]
            h == heard[c]
            new == [s EXCEPT !.state = "closed", !.queue = <<>>, !.replay = <<>>]
<1>1. s \in Events!Streams /\ h \in Events!Histories /\ Heard(c) /\ s.queue \in Seq(Events!QueueItems)
  BY DEF EventsInv, Events!TypeOK, Events!Streams
<1>2. /\ new \in Events!Streams /\ new.state = "closed" /\ new.run = s.run /\ new.joined = s.joined
      /\ new.queue = <<>> /\ new.replay = <<>>
  BY <1>1 DEF Events!Streams, Events!States
<1>3. stream' = [stream EXCEPT ![c] = new]
  BY DEF Events!Close
<1>. HIDE DEF new
<1>4. stream'[c] = new /\ heard'[c] = h
  BY <1>3 DEF EventsInv, Events!TypeOK
<1>5. s.queue[1] = Events!EndMark /\ Events!EndMark.kind = "end" /\ Events!EndMark # Events!Done /\ Events!EndMark # Events!Dropped
      /\ Len(s.queue) \in Nat /\ Len(s.queue) # 0
  BY <1>1, ItemTypes, EmptySeq
<1>6. h.said # "nothing"
  <2>1. CASE s.run = NoRun
    BY <1>1, <2>1 DEF Heard, NothingToHear
  <2>2. CASE s.run # NoRun
    <3>1. Listening(c)
      BY <1>1, <2>2 DEF Heard
    <3>2. ~Live(c)
      <4>1. SUFFICES ASSUME InOrder(s, h, Len(s.queue)) PROVE FALSE
        BY DEF Live
      <4>2. s.queue[1].kind = "event"
        <5>1. 1 \in 1 .. Len(s.queue)
          BY <1>5
        <5>2. s.queue[1] = Events!Item("event", Position(s, h) + 1, Position(s, h) + 1)
          BY <4>1, <5>1 DEF InOrder
        <5>. QED  BY <5>2 DEF Events!Item
      <4>. QED  BY <1>5, <4>2
    <3>3. ~Finishing(c)
      <4>1. SUFFICES ASSUME NEW n \in Nat, InOrder(s, h, n), s.queue[n + 1] = Events!Done PROVE FALSE
        BY DEF Finishing
      <4>2. CASE n = 0
        BY <1>5, <4>1, <4>2
      <4>3. CASE n # 0
        <5>1. s.queue[1].kind = "event"
          <6>1. 1 \in 1 .. n
            BY <4>1, <4>3
          <6>2. s.queue[1] = Events!Item("event", Position(s, h) + 1, Position(s, h) + 1)
            BY <4>1, <6>1 DEF InOrder
          <6>. QED  BY <6>2 DEF Events!Item
        <5>. QED  BY <1>5, <5>1
      <4>. QED  BY <4>2, <4>3
    <3>4. Cut(c) => h.said = "error"
      BY <1>5 DEF Cut
    <3>. QED  BY <3>1, <3>2, <3>3, <3>4 DEF Listening, ToldDone
  <2>. QED  BY <2>1, <2>2
<1>7. Heard(c)'
  BY <1>1, <1>2, <1>4, <1>6, EventsApart DEF Heard, Events!Streams
<1>8. heard' \in [Clients -> Events!Histories] /\ phase' \in [Runs -> Events!Phases]
  BY DEF EventsInv, Events!TypeOK
<1>. QED  BY <1>2, <1>3, <1>7, <1>8, ClientGone

LEMMA ReceiveStep == ASSUME EventsInv, NEW c \in Clients, Events!Receive(c)  PROVE EventsInv'
BY ReceiveReplayed, ReceiveQueued, ReceiveEnd DEF Events!Receive

LEMMA EventsInit == Events!Init => EventsInv
<1>. SUFFICES ASSUME Events!Init PROVE EventsInv
  OBVIOUS
<1>1. Events!TypeOK
  BY ItemTypes DEF Events!Init, Events!TypeOK, Events!Phases, Events!Outcomes
<1>2. \A r \in Runs : Events!Items(window[r]) = <<>>
  BY DEF Events!Init, Events!Items
<1>3. RunsInOrder
  BY <1>2 DEF Events!Init, RunsInOrder, Consecutive
<1>4. \A c \in Clients : stream[c] = Events!Away /\ heard[c] = Events!Nothing
  BY DEF Events!Init
<1>5. \A c \in Clients : Heard(c)
  BY <1>4, EventsApart DEF Heard, Events!Away, Events!Nothing
<1>. QED  BY <1>1, <1>3, <1>5 DEF EventsInv

LEMMA EventsStutter == EventsInv /\ UNCHANGED Events!vars => EventsInv'
<1>. SUFFICES ASSUME EventsInv, UNCHANGED Events!vars PROVE EventsInv'
  OBVIOUS
<1>1. Events!TypeOK' /\ RunsInOrder'
  BY DEF EventsInv, Events!vars, Events!TypeOK, RunsInOrder
<1>2. RunsForward /\ \A c \in Clients : SameClient(c)
  BY DEF Events!vars, RunsForward, SameClient
<1>. QED  BY <1>1, <1>2, SameClientHeard DEF EventsInv

LEMMA EventsNext == EventsInv /\ [Events!Next]_(Events!vars) => EventsInv'
<1>. SUFFICES ASSUME EventsInv, [Events!Next]_(Events!vars) PROVE EventsInv'
  OBVIOUS
<1>1. ASSUME NEW r \in Runs, Events!RunStep(r)  PROVE EventsInv'
  BY <1>1, AdmitStep, RefuseStep, PublishStep, EventsEndStep, EventsFinishStep DEF Events!RunStep
<1>2. ASSUME NEW c \in Clients, Events!ClientStep(c)  PROVE EventsInv'
  BY <1>2, SubscribeStep, SubscribeToNothingStep, StartReturnsStep, StartIsCancelledStep, ReceiveStep,
     EventsLeaveStep, EventsStartStep DEF Events!ClientStep
<1>. QED  BY <1>1, <1>2, EventsStutter DEF Events!Next

LEMMA EventsSafe == EventsInv => Events!TypeOK /\ Events!StreamsAreGapless
<1>. SUFFICES ASSUME EventsInv, NEW c \in Clients
              PROVE  LET r == stream[c].run
                     IN  /\ ~heard[c].gap
                         /\ heard[c].first <= stream[c].joined + 1
                         /\ heard[c].said = "done" /\ r # NoRun =>
                              IF heard[c].first = 0 THEN stream[c].joined = published[r]
                              ELSE heard[c].last = published[r]
                         /\ stream[c].state = "closed" => heard[c].said # "nothing"
                         /\ Len(stream[c].queue) <= QueueLimit
  BY DEF EventsInv, Events!StreamsAreGapless
<1>. QED  BY DEF EventsInv, Heard
-----------------------------------------------------------------------------
(* The runtime cache.                                                      *)

Active(u) == turn[u] \notin Cache!Out
Over(b) == build[b] \in {"cleaning", "built", "failed"}

(* A user counter is 1 while the only active turn of the conversation is   *)
(* on its way, and 0 otherwise; no deletion is under way meanwhile.        *)
TurnsCounted ==
    /\ \A u, v \in Turns : Active(u) /\ Active(v) /\ Chat[u] = Chat[v] => u = v
    /\ \A u \in Turns : Active(u) =>
          users[Chat[u]] = 1 /\ deletion[Chat[u]] \in {"none", "done"}
    /\ \A k \in Cache!Chats : (\A u \in Turns : Chat[u] = k => ~Active(u)) => users[k] = 0

(* close() begins when no turn is left, and no build starts after it.      *)
CloseStops ==
    /\ closing # "open" =>
          /\ \A u \in Turns : ~Active(u)
          /\ \A k \in Cache!Chats : building[k] = NoBuild
    /\ closing = "closed" => cached = {}

(* The registered builds are those that have not made their runtime yet.   *)
BuildsRegistered ==
    /\ \A k \in Cache!Chats : building[k] # NoBuild =>
          owner[building[k]] = k /\ build[building[k]] = "creating" /\ Cache!CachedFor(k) = {}
    /\ \A b \in Builds : build[b] = "creating" => building[owner[b]] = b
    /\ \A b \in Builds : build[b] = "cleaning" <=> discarding[b] # {}

(* A runtime that left the cache was made, and never comes back.           *)
CacheKept ==
    /\ \A b \in cached :
          /\ Cache!Made(b) /\ b \notin cleaned
          /\ \A x \in Builds : b \notin discarding[x]
    /\ \A b, c \in cached : owner[b] = owner[c] => b = c
DiscardsOver ==
    /\ \A x \in Builds : \A b \in discarding[x] : Over(b)
    /\ \A b \in cleaned : Over(b)
    /\ \A k \in Cache!Chats : deletion[k] = "popped" /\ victim[k] # NoBuild =>
          Over(victim[k]) /\ victim[k] \notin cached
NothingLost ==
    \A b \in Builds : Cache!Made(b) =>
        \/ b \in cached \/ b \in cleaned
        \/ \E x \in Builds : b \in discarding[x]
        \/ \E k \in Cache!Chats : victim[k] = b /\ deletion[k] = "popped"

(* What a turn waits for is being built, failed or is in the cache.        *)
WaitsFor(u) ==
    turn[u] = "waiting" =>
        /\ Chat[u] \notin gone
        /\ got[u] \in Builds /\ owner[got[u]] = Chat[u]
        /\ build[got[u]] \in {"creating", "failed"} \/ got[u] \in cached
Holds(u) == turn[u] \in {"got", "using"} => got[u] \in cached /\ owner[got[u]] = Chat[u]
TurnsServed == \A u \in Turns : WaitsFor(u) /\ Holds(u)

CacheInv ==
    /\ Cache!TypeOK /\ TurnsCounted /\ CloseStops /\ BuildsRegistered
    /\ CacheKept /\ DiscardsOver /\ NothingLost /\ TurnsServed
-----------------------------------------------------------------------------
LEMMA CacheApart == NoBuild \notin Builds /\ Turns # {}
BY RuntimeAssumption DEF Cache!CacheAssumption

LEMMA ChatOfTurn == \A u \in Turns : Chat[u] \in Cache!Chats
BY DEF Cache!Chats

LEMMA ExitCounts ==
    ASSUME CacheInv, NEW u \in Turns, Active(u), Cache!Exit(u)
    PROVE  /\ turn' \in [Turns -> Cache!Out \cup {"entered", "checked", "waiting", "got", "using"}]
           /\ got' \in [Turns -> Builds \cup {NoBuild}]
           /\ users' \in [Cache!Chats -> Nat]
           /\ UNCHANGED deletion => TurnsCounted'
<1>1. Chat[u] \in Cache!Chats
  BY ChatOfTurn
<1>2. users[Chat[u]] = 1
  BY DEF CacheInv, TurnsCounted
<1>3. users' = [users EXCEPT ![Chat[u]] = 0]
  BY <1>1, <1>2 DEF Cache!Exit
<1>4. turn' = [turn EXCEPT ![u] = "left"] /\ got' = [got EXCEPT ![u] = NoBuild]
  BY DEF Cache!Exit
<1>5. UNCHANGED deletion => TurnsCounted'
  <2>1. ASSUME UNCHANGED deletion, NEW v \in Turns, Active(v)'
        PROVE  v # u /\ Active(v) /\ Chat[v] # Chat[u]
    BY <2>1, <1>4 DEF CacheInv, Cache!TypeOK, TurnsCounted, Active, Cache!Out
  <2>2. ASSUME UNCHANGED deletion, NEW k \in Cache!Chats, k # Chat[u], \A v \in Turns : Chat[v] = k => ~Active(v)'
        PROVE  users[k] = 0
    <3>1. ASSUME NEW v \in Turns, Chat[v] = k  PROVE ~Active(v)
      BY <2>2, <3>1, <1>4 DEF CacheInv, Cache!TypeOK, Active, Cache!Out
    <3>. QED  BY <3>1 DEF CacheInv, TurnsCounted
  <2>3. ASSUME UNCHANGED deletion, NEW v \in Turns, Active(v)'
        PROVE  users'[Chat[v]] = 1 /\ deletion'[Chat[v]] \in {"none", "done"}
    BY <2>1, <2>3, <1>3, <1>1, ChatOfTurn DEF CacheInv, Cache!TypeOK, TurnsCounted
  <2>4. ASSUME UNCHANGED deletion, NEW k \in Cache!Chats, \A v \in Turns : Chat[v] = k => ~Active(v)'
        PROVE  users'[k] = 0
    BY <2>2, <2>4, <1>3, <1>1 DEF CacheInv, Cache!TypeOK
  <2>5. ASSUME UNCHANGED deletion, NEW v \in Turns, NEW w \in Turns, Active(v)', Active(w)', Chat[v] = Chat[w]
        PROVE  v = w
    BY <2>1, <2>5 DEF CacheInv, TurnsCounted
  <2>. QED  BY <2>3, <2>4, <2>5 DEF TurnsCounted
<1>. QED  BY <1>1, <1>3, <1>4, <1>5 DEF CacheInv, Cache!TypeOK, Cache!Out

LEMMA MovesCounts ==
    ASSUME CacheInv, NEW u \in Turns, turn' = [turn EXCEPT ![u] = "checked"] \/ turn' = [turn EXCEPT ![u] = "waiting"]
              \/ turn' = [turn EXCEPT ![u] = "got"] \/ turn' = [turn EXCEPT ![u] = "using"],
           Active(u), UNCHANGED <<users, deletion>>
    PROVE  TurnsCounted'
<1>1. \A v \in Turns : Active(v)' <=> Active(v)
  BY DEF CacheInv, Cache!TypeOK, Active, Cache!Out
<1>. QED  BY <1>1 DEF CacheInv, TurnsCounted

LEMMA CacheEnterStep ==
    ASSUME CacheInv, NEW u \in Turns, Cache!Enter(u)
    PROVE  CacheInv'
<1>1. Cache!TypeOK'
  <2>1. Chat[u] \in Cache!Chats
    BY ChatOfTurn
  <2>2. turn' \in [Turns -> Cache!Out \cup {"entered", "checked", "waiting", "got", "using"}]
    BY DEF CacheInv, Cache!TypeOK, Cache!Enter, Cache!Moves, Cache!Out
  <2>3. users' \in [Cache!Chats -> Nat]
    BY <2>1 DEF CacheInv, Cache!TypeOK, Cache!Enter
  <2>. QED  BY <2>2, <2>3 DEF CacheInv, Cache!TypeOK, Cache!Enter, Cache!cacheVars, Cache!buildVars, Cache!endVars
<1>2. TurnsCounted'
  <2>0. Chat[u] \in Cache!Chats
    BY ChatOfTurn
  <2>1. CASE Chat[u] \in gone
    <3>1. \A v \in Turns : Active(v)' <=> Active(v)
      BY <2>1 DEF CacheInv, Cache!TypeOK, Cache!Enter, Cache!Moves, Active, Cache!Out
    <3>. QED  BY <2>1, <3>1 DEF CacheInv, TurnsCounted, Cache!Enter, Cache!endVars
  <2>2. CASE Chat[u] \notin gone
    <3>1. \A v \in Turns : Chat[v] = Chat[u] => ~Active(v)
      BY DEF Cache!Enter, Cache!Free, Active
    <3>2. \A v \in Turns : Active(v)' <=> Active(v) \/ v = u
      BY <2>2 DEF CacheInv, Cache!TypeOK, Cache!Enter, Cache!Moves, Active, Cache!Out
    <3>3. users[Chat[u]] = 0
      BY <3>1, <2>0 DEF CacheInv, TurnsCounted
    <3>4. users' = [users EXCEPT ![Chat[u]] = 1]
      BY <2>2, <3>3, <2>0 DEF Cache!Enter
    <3>5. deletion[Chat[u]] \in {"none", "done"} /\ deletion' = deletion
      BY DEF Cache!Enter, Cache!Free, Cache!endVars
    <3>6. \A v \in Turns : Active(v)' => users'[Chat[v]] = 1 /\ deletion'[Chat[v]] \in {"none", "done"}
      BY <2>0, <3>2, <3>4, <3>5, ChatOfTurn DEF CacheInv, Cache!TypeOK, TurnsCounted
    <3>7. \A k \in Cache!Chats : (\A v \in Turns : Chat[v] = k => ~Active(v)') => users'[k] = 0
      BY <2>0, <3>2, <3>4 DEF CacheInv, Cache!TypeOK, TurnsCounted
    <3>8. \A v, w \in Turns : Active(v)' /\ Active(w)' /\ Chat[v] = Chat[w] => v = w
      BY <3>1, <3>2 DEF CacheInv, TurnsCounted
    <3>. QED  BY <3>6, <3>7, <3>8 DEF TurnsCounted
  <2>. QED  BY <2>1, <2>2
<1>3. CloseStops'
  BY DEF CloseStops, Active, Cache!Out, Cache!Enter, Cache!Moves, Cache!Free, Cache!TypeOK, CacheInv, Cache!turnVars, Cache!cacheVars, Cache!buildVars, Cache!endVars
<1>4. BuildsRegistered'
  BY DEF BuildsRegistered, Cache!CachedFor, Cache!Enter, CacheInv, Cache!turnVars, Cache!cacheVars, Cache!buildVars, Cache!endVars
<1>5. CacheKept'
  BY DEF CacheKept, Cache!Made, Cache!Enter, CacheInv, Cache!turnVars, Cache!cacheVars, Cache!buildVars, Cache!endVars
<1>6. DiscardsOver'
  BY DEF DiscardsOver, Over, Cache!Enter, CacheInv, Cache!turnVars, Cache!cacheVars, Cache!buildVars, Cache!endVars
<1>7. NothingLost'
  BY DEF NothingLost, Cache!Made, Cache!Enter, CacheInv, Cache!turnVars, Cache!cacheVars, Cache!buildVars, Cache!endVars
<1>8. TurnsServed'
  BY DEF TurnsServed, WaitsFor, Holds, Cache!Enter, Cache!Moves, Cache!Free, Cache!TypeOK, CacheInv, Cache!turnVars, Cache!cacheVars, Cache!buildVars, Cache!endVars
<1>. QED  BY <1>1, <1>2, <1>3, <1>4, <1>5, <1>6, <1>7, <1>8 DEF CacheInv

LEMMA LookForTombstoneStep ==
    ASSUME CacheInv, NEW u \in Turns, Cache!LookForTombstone(u)
    PROVE  CacheInv'
<1>1. Cache!TypeOK'
  <2>0. Active(u)
    BY DEF CacheInv, Cache!TypeOK, Cache!LookForTombstone, Active, Cache!Out, Cache!Moves
  <2>1. CASE Cache!Exit(u)
    BY <2>0, <2>1, ExitCounts DEF CacheInv, Cache!TypeOK, Cache!LookForTombstone, Cache!cacheVars, Cache!buildVars, Cache!endVars
  <2>2. CASE ~Cache!Exit(u)
    BY <2>2, ChatOfTurn DEF CacheInv, Cache!TypeOK, Cache!LookForTombstone, Cache!Moves, Cache!cacheVars, Cache!buildVars, Cache!endVars
  <2>. QED  BY <2>1, <2>2
<1>2. TurnsCounted'
  <2>0. Active(u) /\ deletion' = deletion
    BY DEF CacheInv, Cache!TypeOK, Cache!LookForTombstone, Active, Cache!Out, Cache!Moves, Cache!endVars
  <2>1. CASE Cache!Exit(u)
    BY <2>0, <2>1, ExitCounts
  <2>2. CASE ~Cache!Exit(u)
    BY <2>0, <2>2, MovesCounts DEF Cache!LookForTombstone, Cache!Moves
  <2>. QED  BY <2>1, <2>2
<1>3. CloseStops'
  BY DEF CloseStops, Active, Cache!Out, Cache!LookForTombstone, Cache!Moves, Cache!Exit, Cache!TypeOK, CacheInv, Cache!turnVars, Cache!cacheVars, Cache!buildVars, Cache!endVars
<1>4. BuildsRegistered'
  BY DEF BuildsRegistered, Cache!CachedFor, Cache!LookForTombstone, CacheInv, Cache!turnVars, Cache!cacheVars, Cache!buildVars, Cache!endVars
<1>5. CacheKept'
  BY DEF CacheKept, Cache!Made, Cache!LookForTombstone, CacheInv, Cache!turnVars, Cache!cacheVars, Cache!buildVars, Cache!endVars
<1>6. DiscardsOver'
  BY DEF DiscardsOver, Over, Cache!LookForTombstone, CacheInv, Cache!turnVars, Cache!cacheVars, Cache!buildVars, Cache!endVars
<1>7. NothingLost'
  BY DEF NothingLost, Cache!Made, Cache!LookForTombstone, CacheInv, Cache!turnVars, Cache!cacheVars, Cache!buildVars, Cache!endVars
<1>8. TurnsServed'
  BY DEF TurnsServed, WaitsFor, Holds, TurnsCounted, Active, Cache!Out, Cache!LookForTombstone, Cache!Moves, Cache!Exit, Cache!TypeOK, CacheInv, Cache!turnVars, Cache!cacheVars, Cache!buildVars, Cache!endVars
<1>. QED  BY <1>1, <1>2, <1>3, <1>4, <1>5, <1>6, <1>7, <1>8 DEF CacheInv

LEMMA GetRuntimeStep ==
    ASSUME CacheInv, NEW u \in Turns, Cache!GetRuntime(u)
    PROVE  CacheInv'
<1>. DEFINE k == Chat[u]
<1>0. k \in Cache!Chats /\ Active(u) /\ turn[u] = "checked"
  BY ChatOfTurn DEF Cache!GetRuntime, Active, Cache!Out
<1>a. UNCHANGED <<cached, discarding, gone, tombs, deletion, victim, closing, cleaned>>
  BY DEF Cache!GetRuntime, Cache!cacheVars, Cache!endVars
<1>b. closing = "open"
  BY <1>0 DEF CacheInv, Cache!TypeOK, CloseStops
<1>1. CASE Cache!Exit(u) /\ UNCHANGED <<older, building, build, owner>>
  <2>1. turn' = [turn EXCEPT ![u] = "left"] /\ got' = [got EXCEPT ![u] = NoBuild]
    BY <1>1 DEF Cache!Exit
  <2>21. Cache!TypeOK'
    BY <1>0, <1>a, <1>1, ExitCounts DEF CacheInv, Cache!TypeOK
  <2>22. TurnsCounted'
    BY <1>0, <1>a, <1>1, ExitCounts
  <2>23. CloseStops'
    BY <1>a, <1>b DEF CloseStops
  <2>24. BuildsRegistered'
    BY <2>1, <1>a, <1>1 DEF BuildsRegistered, Cache!CachedFor, Cache!TypeOK, CacheInv
  <2>25. CacheKept'
    BY <2>1, <1>a, <1>1 DEF CacheKept, Cache!Made, Cache!TypeOK, CacheInv
  <2>26. DiscardsOver'
    BY <2>1, <1>a, <1>1 DEF DiscardsOver, Over, Cache!TypeOK, CacheInv
  <2>27. NothingLost'
    BY <2>1, <1>a, <1>1 DEF NothingLost, Cache!Made, Cache!TypeOK, CacheInv
  <2>28. TurnsServed'
    BY <2>1, <1>a, <1>1 DEF TurnsServed, WaitsFor, Holds, Cache!TypeOK, CacheInv
  <2>. QED  BY <2>21, <2>22, <2>23, <2>24, <2>25, <2>26, <2>27, <2>28 DEF CacheInv
<1>2. CASE /\ UNCHANGED <<users, building, build, owner>>
           /\ turn' = [turn EXCEPT ![u] = "got"]
           /\ \E b \in Cache!CachedFor(k) : got' = [got EXCEPT ![u] = b] /\ older' = Cache!MovedToEnd(b, cached)
  <2>1. PICK b \in cached : owner[b] = k /\ got' = [got EXCEPT ![u] = b] /\ older' = Cache!MovedToEnd(b, cached)
    BY <1>2 DEF Cache!CachedFor
  <2>2. older' \subseteq cached \X cached
    BY <2>1 DEF CacheInv, Cache!TypeOK, Cache!MovedToEnd
  <2>21. Cache!TypeOK'
    BY <2>1, <2>2, <1>a, <1>2 DEF CacheInv, Cache!TypeOK
  <2>22. TurnsCounted'
    BY <1>0, <1>a, <1>2, MovesCounts
  <2>23. CloseStops'
    BY <1>a, <1>b DEF CloseStops
  <2>24. BuildsRegistered'
    BY <2>1, <2>2, <1>a, <1>2 DEF BuildsRegistered, Cache!CachedFor, Cache!TypeOK, CacheInv
  <2>25. CacheKept'
    BY <2>1, <2>2, <1>a, <1>2 DEF CacheKept, Cache!Made, Cache!TypeOK, CacheInv
  <2>26. DiscardsOver'
    BY <2>1, <2>2, <1>a, <1>2 DEF DiscardsOver, Over, Cache!TypeOK, CacheInv
  <2>27. NothingLost'
    BY <2>1, <2>2, <1>a, <1>2 DEF NothingLost, Cache!Made, Cache!TypeOK, CacheInv
  <2>28. TurnsServed'
    BY <2>1, <2>2, <1>a, <1>2 DEF TurnsServed, WaitsFor, Holds, Cache!TypeOK, CacheInv
  <2>. QED  BY <2>21, <2>22, <2>23, <2>24, <2>25, <2>26, <2>27, <2>28 DEF CacheInv
<1>3. CASE /\ k \notin gone /\ building[k] # NoBuild
           /\ turn' = [turn EXCEPT ![u] = "waiting"] /\ got' = [got EXCEPT ![u] = building[k]]
           /\ UNCHANGED <<users, older, building, build, owner>>
  <2>1. building[k] \in Builds
    BY <1>0, <1>3 DEF CacheInv, Cache!TypeOK
  <2>21. Cache!TypeOK'
    BY <1>0, <2>1, <1>a, <1>3 DEF Cache!TypeOK, CacheInv
  <2>22. TurnsCounted'
    BY <1>0, <1>a, <1>3, MovesCounts
  <2>23. CloseStops'
    BY <1>a, <1>b DEF CloseStops
  <2>24. BuildsRegistered'
    BY <1>0, <2>1, <1>a, <1>3 DEF BuildsRegistered, Cache!CachedFor, Cache!TypeOK, CacheInv
  <2>25. CacheKept'
    BY <1>0, <2>1, <1>a, <1>3 DEF CacheKept, Cache!Made, Cache!TypeOK, CacheInv
  <2>26. DiscardsOver'
    BY <1>0, <2>1, <1>a, <1>3 DEF DiscardsOver, Over, Cache!TypeOK, CacheInv
  <2>27. NothingLost'
    BY <1>0, <2>1, <1>a, <1>3 DEF NothingLost, Cache!Made, Cache!TypeOK, CacheInv
  <2>28. TurnsServed'
    BY <1>0, <2>1, <1>a, <1>3 DEF TurnsServed, WaitsFor, Holds, BuildsRegistered, Cache!CachedFor, Cache!TypeOK, CacheInv
  <2>. QED  BY <2>21, <2>22, <2>23, <2>24, <2>25, <2>26, <2>27, <2>28 DEF CacheInv
<1>4. CASE /\ k \notin gone /\ Cache!CachedFor(k) = {} /\ building[k] = NoBuild
           /\ turn' = [turn EXCEPT ![u] = "waiting"] /\ UNCHANGED <<users, older>>
           /\ \E b \in Builds :
                 /\ build[b] = "new"
                 /\ build' = [build EXCEPT ![b] = "creating"]
                 /\ owner' = [owner EXCEPT ![b] = k]
                 /\ building' = [building EXCEPT ![k] = b]
                 /\ got' = [got EXCEPT ![u] = b]
  <2>1. PICK b \in Builds :
                 /\ build[b] = "new"
                 /\ build' = [build EXCEPT ![b] = "creating"]
                 /\ owner' = [owner EXCEPT ![b] = k]
                 /\ building' = [building EXCEPT ![k] = b]
                 /\ got' = [got EXCEPT ![u] = b]
    BY <1>4
  <2>2. b \notin cached /\ \A v \in Turns : turn[v] \in {"waiting", "got", "using"} => got[v] # b
    BY <2>1 DEF CacheInv, CacheKept, Cache!Made, TurnsServed, WaitsFor, Holds
  <2>4. \A j \in Cache!Chats : building[j] # b
    BY <2>1, <1>0, CacheApart DEF CacheInv, BuildsRegistered
  <2>5. Cache!CachedFor(k)' = {} /\ \A j \in Cache!Chats : Cache!CachedFor(j) = {} => Cache!CachedFor(j)' = {}
    BY <2>1, <2>2, <1>4, <1>a DEF CacheInv, Cache!TypeOK, Cache!CachedFor
  <2>6. ASSUME NEW j \in Cache!Chats, building'[j] # NoBuild
        PROVE  owner'[building'[j]] = j /\ build'[building'[j]] = "creating" /\ Cache!CachedFor(j)' = {}
    <3>1. CASE j = k
      BY <3>1, <1>0, <2>1, <2>5 DEF CacheInv, Cache!TypeOK
    <3>2. CASE j # k
      <4>1. building'[j] = building[j] /\ building[j] \in Builds /\ building[j] # b
        BY <3>2, <2>1, <2>4, <2>6 DEF CacheInv, Cache!TypeOK
      <4>. QED  BY <4>1, <2>1, <2>5, <2>6 DEF CacheInv, Cache!TypeOK, BuildsRegistered
    <3>. QED  BY <3>1, <3>2
  <2>7. ASSUME NEW c \in Builds, build'[c] = "creating"  PROVE building'[owner'[c]] = c
    <3>1. CASE c = b
      BY <3>1, <1>0, <2>1 DEF CacheInv, Cache!TypeOK
    <3>2. CASE c # b
      BY <3>2, <1>0, <1>4, <2>1, <2>7, CacheApart DEF CacheInv, Cache!TypeOK, BuildsRegistered
    <3>. QED  BY <3>1, <3>2
  <2>8. \A c \in Builds : build'[c] = "cleaning" <=> discarding'[c] # {}
    BY <2>1, <1>a DEF CacheInv, Cache!TypeOK, BuildsRegistered
  <2>21. Cache!TypeOK'
    BY <1>0, <2>1, <2>2, <1>a, <1>4 DEF Cache!TypeOK, CacheInv
  <2>22. TurnsCounted'
    BY <1>0, <1>a, <1>4, MovesCounts
  <2>23. CloseStops'
    BY <1>a, <1>b DEF CloseStops
  <2>24. BuildsRegistered'
    BY <2>6, <2>7, <2>8 DEF BuildsRegistered
  <2>25. CacheKept'
    BY <1>0, <2>1, <2>2, <1>a, <1>4 DEF CacheKept, Cache!Made, Cache!TypeOK, CacheInv
  <2>26. DiscardsOver'
    BY <1>0, <2>1, <2>2, <1>a, <1>4 DEF DiscardsOver, Over, BuildsRegistered, Cache!CachedFor, Cache!TypeOK, CacheInv
  <2>27. NothingLost'
    BY <1>0, <2>1, <2>2, <1>a, <1>4 DEF NothingLost, Cache!Made, Cache!TypeOK, CacheInv
  <2>28. TurnsServed'
    BY <1>0, <2>1, <2>2, <1>a, <1>4 DEF TurnsServed, WaitsFor, Holds, Cache!TypeOK, CacheInv
  <2>. QED  BY <2>21, <2>22, <2>23, <2>24, <2>25, <2>26, <2>27, <2>28 DEF CacheInv
<1>. QED
  <2>1. \/ Cache!Exit(u) /\ UNCHANGED <<older, building, build, owner>>
        \/ /\ UNCHANGED <<users, building, build, owner>> /\ turn' = [turn EXCEPT ![u] = "got"]
           /\ \E b \in Cache!CachedFor(k) : got' = [got EXCEPT ![u] = b] /\ older' = Cache!MovedToEnd(b, cached)
        \/ /\ k \notin gone /\ building[k] # NoBuild
           /\ turn' = [turn EXCEPT ![u] = "waiting"] /\ got' = [got EXCEPT ![u] = building[k]]
           /\ UNCHANGED <<users, older, building, build, owner>>
        \/ /\ k \notin gone /\ Cache!CachedFor(k) = {} /\ building[k] = NoBuild
           /\ turn' = [turn EXCEPT ![u] = "waiting"] /\ UNCHANGED <<users, older>>
           /\ \E b \in Builds :
                 /\ build[b] = "new"
                 /\ build' = [build EXCEPT ![b] = "creating"]
                 /\ owner' = [owner EXCEPT ![b] = k]
                 /\ building' = [building EXCEPT ![k] = b]
                 /\ got' = [got EXCEPT ![u] = b]
    BY ZenonT(40) DEF Cache!GetRuntime, Cache!Moves, Cache!cacheVars
  <2>. QED  BY <2>1, <1>1, <1>2, <1>3, <1>4

LEMMA BuildAnswersStep ==
    ASSUME CacheInv, NEW u \in Turns, Cache!BuildAnswers(u)
    PROVE  CacheInv'
<1>1. Cache!TypeOK'
  <2>0. Active(u)
    BY DEF CacheInv, Cache!TypeOK, Cache!BuildAnswers, Active, Cache!Out, Cache!Moves
  <2>1. CASE Cache!Exit(u)
    BY <2>0, <2>1, ExitCounts DEF CacheInv, Cache!TypeOK, Cache!BuildAnswers, Cache!cacheVars, Cache!buildVars, Cache!endVars
  <2>2. CASE ~Cache!Exit(u)
    BY <2>2, ChatOfTurn DEF CacheInv, Cache!TypeOK, Cache!BuildAnswers, Cache!Moves, Cache!cacheVars, Cache!buildVars, Cache!endVars
  <2>. QED  BY <2>1, <2>2
<1>2. TurnsCounted'
  <2>0. Active(u) /\ deletion' = deletion
    BY DEF CacheInv, Cache!TypeOK, Cache!BuildAnswers, Active, Cache!Out, Cache!Moves, Cache!endVars
  <2>1. CASE Cache!Exit(u)
    BY <2>0, <2>1, ExitCounts
  <2>2. CASE ~Cache!Exit(u)
    BY <2>0, <2>2, MovesCounts DEF Cache!BuildAnswers, Cache!Moves
  <2>. QED  BY <2>1, <2>2
<1>3. CloseStops'
  BY DEF CloseStops, Active, Cache!Out, Cache!BuildAnswers, Cache!Moves, Cache!Exit, Cache!TypeOK, CacheInv, Cache!turnVars, Cache!cacheVars, Cache!buildVars, Cache!endVars
<1>4. BuildsRegistered'
  BY DEF BuildsRegistered, Cache!CachedFor, Cache!BuildAnswers, CacheInv, Cache!turnVars, Cache!cacheVars, Cache!buildVars, Cache!endVars
<1>5. CacheKept'
  BY DEF CacheKept, Cache!Made, Cache!BuildAnswers, CacheInv, Cache!turnVars, Cache!cacheVars, Cache!buildVars, Cache!endVars
<1>6. DiscardsOver'
  BY DEF DiscardsOver, Over, Cache!BuildAnswers, CacheInv, Cache!turnVars, Cache!cacheVars, Cache!buildVars, Cache!endVars
<1>7. NothingLost'
  BY DEF NothingLost, Cache!Made, Cache!BuildAnswers, CacheInv, Cache!turnVars, Cache!cacheVars, Cache!buildVars, Cache!endVars
<1>8. TurnsServed'
  BY DEF TurnsServed, WaitsFor, Holds, Cache!BuildAnswers, Cache!Moves, Cache!Exit, Cache!TypeOK, CacheInv, Cache!turnVars, Cache!cacheVars, Cache!buildVars, Cache!endVars
<1>. QED  BY <1>1, <1>2, <1>3, <1>4, <1>5, <1>6, <1>7, <1>8 DEF CacheInv

LEMMA LookAgainStep ==
    ASSUME CacheInv, NEW u \in Turns, Cache!LookAgain(u)
    PROVE  CacheInv'
<1>1. Cache!TypeOK'
  <2>0. Active(u)
    BY DEF CacheInv, Cache!TypeOK, Cache!LookAgain, Active, Cache!Out, Cache!Moves
  <2>1. CASE Cache!Exit(u)
    BY <2>0, <2>1, ExitCounts DEF CacheInv, Cache!TypeOK, Cache!LookAgain, Cache!cacheVars, Cache!buildVars, Cache!endVars
  <2>2. CASE ~Cache!Exit(u)
    BY <2>2, ChatOfTurn DEF CacheInv, Cache!TypeOK, Cache!LookAgain, Cache!Moves, Cache!cacheVars, Cache!buildVars, Cache!endVars
  <2>. QED  BY <2>1, <2>2
<1>2. TurnsCounted'
  <2>0. Active(u) /\ deletion' = deletion
    BY DEF CacheInv, Cache!TypeOK, Cache!LookAgain, Active, Cache!Out, Cache!Moves, Cache!endVars
  <2>1. CASE Cache!Exit(u)
    BY <2>0, <2>1, ExitCounts
  <2>2. CASE ~Cache!Exit(u)
    BY <2>0, <2>2, MovesCounts DEF Cache!LookAgain, Cache!Moves
  <2>. QED  BY <2>1, <2>2
<1>3. CloseStops'
  BY DEF CloseStops, Active, Cache!Out, Cache!LookAgain, Cache!Moves, Cache!Exit, Cache!TypeOK, CacheInv, Cache!turnVars, Cache!cacheVars, Cache!buildVars, Cache!endVars
<1>4. BuildsRegistered'
  BY DEF BuildsRegistered, Cache!CachedFor, Cache!LookAgain, CacheInv, Cache!turnVars, Cache!cacheVars, Cache!buildVars, Cache!endVars
<1>5. CacheKept'
  BY DEF CacheKept, Cache!Made, Cache!LookAgain, CacheInv, Cache!turnVars, Cache!cacheVars, Cache!buildVars, Cache!endVars
<1>6. DiscardsOver'
  BY DEF DiscardsOver, Over, Cache!LookAgain, CacheInv, Cache!turnVars, Cache!cacheVars, Cache!buildVars, Cache!endVars
<1>7. NothingLost'
  BY DEF NothingLost, Cache!Made, Cache!LookAgain, CacheInv, Cache!turnVars, Cache!cacheVars, Cache!buildVars, Cache!endVars
<1>8. TurnsServed'
  BY DEF TurnsServed, WaitsFor, Holds, Cache!LookAgain, Cache!Moves, Cache!Exit, Cache!TypeOK, CacheInv, Cache!turnVars, Cache!cacheVars, Cache!buildVars, Cache!endVars
<1>. QED  BY <1>1, <1>2, <1>3, <1>4, <1>5, <1>6, <1>7, <1>8 DEF CacheInv

LEMMA CacheLeaveStep ==
    ASSUME CacheInv, NEW u \in Turns, Cache!Leave(u)
    PROVE  CacheInv'
<1>1. Cache!TypeOK'
  BY ExitCounts DEF Cache!Leave, Active, CacheInv, Cache!TypeOK, Cache!cacheVars, Cache!buildVars, Cache!endVars
<1>2. TurnsCounted'
  BY ExitCounts DEF Cache!Leave, Active, Cache!endVars
<1>3. CloseStops'
  BY DEF CloseStops, Active, Cache!Out, Cache!Leave, Cache!Exit, Cache!TypeOK, CacheInv, Cache!turnVars, Cache!cacheVars, Cache!buildVars, Cache!endVars
<1>4. BuildsRegistered'
  BY DEF BuildsRegistered, Cache!CachedFor, Cache!Leave, CacheInv, Cache!turnVars, Cache!cacheVars, Cache!buildVars, Cache!endVars
<1>5. CacheKept'
  BY DEF CacheKept, Cache!Made, Cache!Leave, CacheInv, Cache!turnVars, Cache!cacheVars, Cache!buildVars, Cache!endVars
<1>6. DiscardsOver'
  BY DEF DiscardsOver, Over, Cache!Leave, CacheInv, Cache!turnVars, Cache!cacheVars, Cache!buildVars, Cache!endVars
<1>7. NothingLost'
  BY DEF NothingLost, Cache!Made, Cache!Leave, CacheInv, Cache!turnVars, Cache!cacheVars, Cache!buildVars, Cache!endVars
<1>8. TurnsServed'
  BY DEF TurnsServed, WaitsFor, Holds, Cache!Leave, Cache!Exit, Cache!TypeOK, CacheInv, Cache!turnVars, Cache!cacheVars, Cache!buildVars, Cache!endVars
<1>. QED  BY <1>1, <1>2, <1>3, <1>4, <1>5, <1>6, <1>7, <1>8 DEF CacheInv

LEMMA CreateSucceedsStep ==
    ASSUME CacheInv, NEW b \in Builds, Cache!CreateSucceeds(b)
    PROVE  CacheInv'
<1>. DEFINE k == owner[b]
<1>1. /\ k \in Cache!Chats /\ build[b] = "creating" /\ building[k] = b /\ b # NoBuild
      /\ UNCHANGED <<turn, got, users, owner, gone, tombs, deletion, victim, closing, cleaned>>
  BY CacheApart DEF CacheInv, Cache!TypeOK, BuildsRegistered, Cache!CreateSucceeds, Cache!turnVars, Cache!endVars
<1>2. Cache!CachedFor(k) = {} /\ discarding[b] = {} /\ b \notin cached
  BY <1>1 DEF CacheInv, BuildsRegistered, CacheKept, Cache!Made
<1>3. /\ closing = "open" /\ b \notin cleaned
      /\ \A x \in Builds : b \notin discarding[x]
      /\ \A j \in Cache!Chats : deletion[j] = "popped" => victim[j] # b
  BY <1>1 DEF CacheInv, Cache!TypeOK, CloseStops, DiscardsOver, Over
<1>4. building' = [building EXCEPT ![k] = NoBuild]
  BY <1>1 DEF Cache!CreateSucceeds
<1>5. \A c \in cached : owner[c] # k
  BY <1>2 DEF Cache!CachedFor
<1>6. \A j \in Cache!Chats : building'[j] # NoBuild => j # k /\ building[j] # b /\ building'[j] = building[j]
  BY <1>1, <1>4 DEF CacheInv, Cache!TypeOK, BuildsRegistered
<1>7. CASE k \in gone
  <2>1. /\ cached' = cached /\ older' = older
        /\ discarding' = [discarding EXCEPT ![b] = {b}]
        /\ build' = [build EXCEPT ![b] = "cleaning"]
    BY <1>7, <1>1 DEF Cache!CreateSucceeds
  <2>2. \A j \in Cache!Chats : Cache!CachedFor(j)' = Cache!CachedFor(j)
    BY <1>1, <2>1 DEF Cache!CachedFor
  <2>3. \A v \in Turns : turn[v] = "waiting" => got[v] # b
    BY <1>1, <1>7 DEF CacheInv, TurnsServed, WaitsFor
  <2>21. Cache!TypeOK'
    BY <1>1, <1>2, <1>3, <1>4, <2>1, <2>3 DEF Cache!TypeOK, CacheInv
  <2>22. TurnsCounted'
    BY <1>1 DEF CacheInv, TurnsCounted, Active
  <2>23. CloseStops'
    BY <1>1, <1>3 DEF CloseStops
  <2>24. BuildsRegistered'
    BY <1>1, <1>4, <1>6, <2>1, <2>2 DEF CacheInv, Cache!TypeOK, BuildsRegistered
  <2>25. CacheKept'
    BY <1>1, <1>2, <1>3, <1>4, <2>1, <2>3 DEF CacheKept, Cache!Made, Cache!TypeOK, CacheInv
  <2>26. DiscardsOver'
    BY <1>1, <1>2, <1>3, <1>4, <2>1, <2>3 DEF DiscardsOver, Over, Cache!TypeOK, CacheInv
  <2>27. NothingLost'
    BY <1>1, <1>2, <1>3, <1>4, <2>1, <2>3 DEF NothingLost, Cache!Made, Cache!TypeOK, CacheInv
  <2>28. TurnsServed'
    BY <1>1, <1>2, <1>3, <1>4, <2>1, <2>3 DEF TurnsServed, WaitsFor, Holds, Cache!TypeOK, CacheInv
  <2>. QED  BY <2>21, <2>22, <2>23, <2>24, <2>25, <2>26, <2>27, <2>28 DEF CacheInv
<1>8. CASE k \notin gone
  <2>. DEFINE out == Cache!Evicted((cached \ Cache!CachedFor(k)) \cup {b}, k)
  <2>1. /\ cached' = (cached \cup {b}) \ out
        /\ older' = Cache!MovedToEnd(b, (cached \cup {b}) \ out)
        /\ discarding' = [discarding EXCEPT ![b] = out]
        /\ build' = [build EXCEPT ![b] = IF out # {} THEN "cleaning" ELSE "built"]
    <3>1. cached \ Cache!CachedFor(k) = cached
      BY <1>2
    <3>. QED  BY <1>8, <1>1, <3>1 DEF Cache!CreateSucceeds
  <2>2. \A c \in out : c \in cached /\ users[owner[c]] = 0 /\ c # b
    BY <1>2 DEF Cache!Evicted, Cache!Evictable
  <2>. HIDE DEF out
  <2>3. older' \subseteq cached' \X cached'
    BY <2>1, <2>2 DEF CacheInv, Cache!TypeOK, Cache!MovedToEnd
  <2>4. \A j \in Cache!Chats : j # k => Cache!CachedFor(j)' \subseteq Cache!CachedFor(j)
    BY <1>1, <2>1 DEF Cache!CachedFor
  <2>5. \A v \in Turns : Active(v) => got[v] \notin out \/ owner[got[v]] # Chat[v]
    BY <2>2 DEF CacheInv, TurnsCounted
  <2>6. \A c \in out : Cache!Made(c) /\ Over(c)
    BY <2>2 DEF CacheInv, CacheKept, Cache!Made, Over
  <2>21. Cache!TypeOK'
    BY <1>1, <1>4, <2>1, <2>2, <2>3 DEF CacheInv, Cache!TypeOK
  <2>22. TurnsCounted'
    BY <1>1 DEF CacheInv, TurnsCounted, Active
  <2>23. CloseStops'
    BY <1>1, <1>3 DEF CloseStops
  <2>24. BuildsRegistered'
    BY <1>1, <1>2, <1>4, <1>6, <2>1, <2>4 DEF CacheInv, Cache!TypeOK, BuildsRegistered
  <2>25. CacheKept'
    BY <1>1, <1>2, <1>3, <1>4, <1>5, <2>1, <2>2 DEF CacheKept, Cache!Made, Cache!TypeOK, CacheInv
  <2>26. DiscardsOver'
    BY <1>1, <1>3, <2>1, <2>2, <2>6 DEF CacheInv, Cache!TypeOK, DiscardsOver, Over
  <2>27. NothingLost'
    BY <1>1, <1>2, <1>3, <1>4, <1>5, <2>1, <2>2 DEF NothingLost, Cache!Made, Cache!TypeOK, CacheInv
  <2>28. TurnsServed'
    BY <1>1, <2>1, <2>5 DEF CacheInv, Cache!TypeOK, TurnsServed, WaitsFor, Holds, Active, Cache!Out
  <2>. QED  BY <2>21, <2>22, <2>23, <2>24, <2>25, <2>26, <2>27, <2>28 DEF CacheInv
<1>. QED  BY <1>7, <1>8

LEMMA CreateFailsStep ==
    ASSUME CacheInv, NEW b \in Builds, Cache!CreateFails(b)
    PROVE  CacheInv'
<1>1. Cache!TypeOK'
  BY DEF Cache!TypeOK, Cache!CreateFails, CacheInv, Cache!turnVars, Cache!cacheVars, Cache!buildVars, Cache!endVars
<1>2. TurnsCounted'
  BY DEF TurnsCounted, Active, Cache!Out, Cache!CreateFails, CacheInv, Cache!turnVars, Cache!cacheVars, Cache!buildVars, Cache!endVars
<1>3. CloseStops'
  BY DEF CloseStops, Active, Cache!Out, Cache!CreateFails, Cache!TypeOK, CacheInv, Cache!turnVars, Cache!cacheVars, Cache!buildVars, Cache!endVars
<1>4. BuildsRegistered'
  BY DEF BuildsRegistered, Cache!CachedFor, Cache!CreateFails, Cache!TypeOK, CacheInv, Cache!turnVars, Cache!cacheVars, Cache!buildVars, Cache!endVars
<1>5. CacheKept'
  BY DEF CacheKept, Cache!Made, Cache!CreateFails, Cache!TypeOK, CacheInv, Cache!turnVars, Cache!cacheVars, Cache!buildVars, Cache!endVars
<1>6. DiscardsOver'
  BY DEF DiscardsOver, Over, Cache!CreateFails, Cache!TypeOK, CacheInv, Cache!turnVars, Cache!cacheVars, Cache!buildVars, Cache!endVars
<1>7. NothingLost'
  BY DEF NothingLost, Cache!Made, Cache!CreateFails, Cache!TypeOK, CacheInv, Cache!turnVars, Cache!cacheVars, Cache!buildVars, Cache!endVars
<1>8. TurnsServed'
  BY DEF TurnsServed, WaitsFor, Holds, Cache!CreateFails, Cache!TypeOK, CacheInv, Cache!turnVars, Cache!cacheVars, Cache!buildVars, Cache!endVars
<1>. QED  BY <1>1, <1>2, <1>3, <1>4, <1>5, <1>6, <1>7, <1>8 DEF CacheInv

LEMMA CleanEvictedStep ==
    ASSUME CacheInv, NEW b \in Builds, Cache!CleanEvicted(b)
    PROVE  CacheInv'
<1>1. Cache!TypeOK'
  BY DEF Cache!TypeOK, Cache!CleanEvicted, CacheInv, Cache!turnVars, Cache!cacheVars, Cache!buildVars, Cache!endVars
<1>2. TurnsCounted'
  BY DEF TurnsCounted, Active, Cache!Out, Cache!CleanEvicted, CacheInv, Cache!turnVars, Cache!cacheVars, Cache!buildVars, Cache!endVars
<1>3. CloseStops'
  BY DEF CloseStops, Active, Cache!Out, Cache!CleanEvicted, CacheInv, Cache!turnVars, Cache!cacheVars, Cache!buildVars, Cache!endVars
<1>4. BuildsRegistered'
  BY DEF BuildsRegistered, Cache!CachedFor, Cache!CleanEvicted, Cache!TypeOK, CacheInv, Cache!turnVars, Cache!cacheVars, Cache!buildVars, Cache!endVars
<1>5. CacheKept'
  BY DEF CacheKept, Cache!Made, Cache!CleanEvicted, Cache!TypeOK, CacheInv, Cache!turnVars, Cache!cacheVars, Cache!buildVars, Cache!endVars
<1>6. DiscardsOver'
  BY DEF DiscardsOver, Over, Cache!CleanEvicted, Cache!TypeOK, CacheInv, Cache!turnVars, Cache!cacheVars, Cache!buildVars, Cache!endVars
<1>7. NothingLost'
  BY DEF NothingLost, Cache!Made, Cache!CleanEvicted, Cache!TypeOK, CacheInv, Cache!turnVars, Cache!cacheVars, Cache!buildVars, Cache!endVars
<1>8. TurnsServed'
  BY DEF TurnsServed, WaitsFor, Holds, Cache!CleanEvicted, Cache!TypeOK, CacheInv, Cache!turnVars, Cache!cacheVars, Cache!buildVars, Cache!endVars
<1>. QED  BY <1>1, <1>2, <1>3, <1>4, <1>5, <1>6, <1>7, <1>8 DEF CacheInv

LEMMA CancelBuildStep ==
    ASSUME CacheInv, NEW k \in Cache!Chats, Cache!CancelBuild(k)
    PROVE  CacheInv'
<1>1. Cache!TypeOK'
  BY DEF Cache!TypeOK, Cache!CancelBuild, Cache!Free, Cache!Cancelled, CacheInv, Cache!turnVars, Cache!cacheVars, Cache!buildVars, Cache!endVars
<1>2. TurnsCounted'
  BY DEF TurnsCounted, Active, Cache!Out, Cache!CancelBuild, Cache!Free, Cache!Cancelled, Cache!TypeOK, CacheInv, Cache!turnVars, Cache!cacheVars, Cache!buildVars, Cache!endVars
<1>3. CloseStops'
  BY DEF CloseStops, Active, Cache!Out, Cache!CancelBuild, Cache!Free, Cache!Cancelled, Cache!TypeOK, CacheInv, Cache!turnVars, Cache!cacheVars, Cache!buildVars, Cache!endVars
<1>4. BuildsRegistered'
  BY DEF BuildsRegistered, Cache!CachedFor, Cache!CancelBuild, Cache!Free, Cache!Cancelled, Cache!TypeOK, CacheInv, Cache!turnVars, Cache!cacheVars, Cache!buildVars, Cache!endVars
<1>5. CacheKept'
  BY DEF CacheKept, Cache!Made, Cache!CancelBuild, Cache!Free, Cache!Cancelled, Cache!TypeOK, CacheInv, Cache!turnVars, Cache!cacheVars, Cache!buildVars, Cache!endVars
<1>6. DiscardsOver'
  BY DEF DiscardsOver, Over, Cache!CancelBuild, Cache!Free, Cache!Cancelled, Cache!TypeOK, CacheInv, Cache!turnVars, Cache!cacheVars, Cache!buildVars, Cache!endVars
<1>7. NothingLost'
  BY DEF NothingLost, Cache!Made, Cache!CancelBuild, Cache!Free, Cache!Cancelled, Cache!TypeOK, CacheInv, Cache!turnVars, Cache!cacheVars, Cache!buildVars, Cache!endVars
<1>8. TurnsServed'
  <2>1. \A v \in Turns : turn[v] = "waiting" => Chat[v] # k /\ got[v] # building[k]
    BY CacheApart DEF Cache!CancelBuild, Cache!Free, Cache!Out, CacheInv, Cache!TypeOK, TurnsServed, WaitsFor, BuildsRegistered
  <2>2. \A v \in Turns : turn[v] = "waiting" => build'[got[v]] = build[got[v]]
    BY <2>1 DEF Cache!CancelBuild, Cache!Cancelled, CacheInv, TurnsServed, WaitsFor
  <2>. QED  BY <2>1, <2>2 DEF CacheInv, TurnsServed, WaitsFor, Holds, Cache!CancelBuild, Cache!turnVars, Cache!cacheVars
<1>. QED  BY <1>1, <1>2, <1>3, <1>4, <1>5, <1>6, <1>7, <1>8 DEF CacheInv

LEMMA PopRuntimeStep ==
    ASSUME CacheInv, NEW k \in Cache!Chats, Cache!PopRuntime(k)
    PROVE  CacheInv'
<1>1. Cache!TypeOK'
  BY DEF Cache!TypeOK, Cache!PopRuntime, Cache!CachedFor, Cache!Ended, CacheInv, Cache!turnVars, Cache!cacheVars, Cache!buildVars, Cache!endVars
<1>2. TurnsCounted'
  BY DEF TurnsCounted, Active, Cache!Out, Cache!PopRuntime, Cache!CachedFor, Cache!Ended, Cache!TypeOK, CacheInv, Cache!turnVars, Cache!cacheVars, Cache!buildVars, Cache!endVars
<1>3. CloseStops'
  BY DEF CloseStops, Active, Cache!Out, Cache!PopRuntime, Cache!CachedFor, Cache!Ended, Cache!TypeOK, CacheInv, Cache!turnVars, Cache!cacheVars, Cache!buildVars, Cache!endVars
<1>4. BuildsRegistered'
  BY DEF BuildsRegistered, Cache!CachedFor, Cache!PopRuntime, Cache!Ended, Cache!TypeOK, CacheInv, Cache!turnVars, Cache!cacheVars, Cache!buildVars, Cache!endVars
<1>5. CacheKept'
  BY DEF CacheKept, Cache!Made, Cache!PopRuntime, Cache!CachedFor, Cache!Ended, Cache!TypeOK, CacheInv, Cache!turnVars, Cache!cacheVars, Cache!buildVars, Cache!endVars
<1>6. DiscardsOver'
  BY DEF DiscardsOver, Over, CacheKept, Cache!Made, Cache!PopRuntime, Cache!CachedFor, Cache!Ended, Cache!TypeOK, CacheInv, Cache!turnVars, Cache!cacheVars, Cache!buildVars, Cache!endVars
<1>7. NothingLost'
  BY DEF NothingLost, Cache!Made, Cache!PopRuntime, Cache!CachedFor, Cache!Ended, Cache!TypeOK, CacheInv, Cache!turnVars, Cache!cacheVars, Cache!buildVars, Cache!endVars
<1>8. TurnsServed'
  BY DEF TurnsServed, WaitsFor, Holds, TurnsCounted, Active, Cache!Out, Cache!PopRuntime, Cache!CachedFor, Cache!Ended, Cache!TypeOK, CacheInv, Cache!turnVars, Cache!cacheVars, Cache!buildVars, Cache!endVars
<1>. QED  BY <1>1, <1>2, <1>3, <1>4, <1>5, <1>6, <1>7, <1>8 DEF CacheInv

LEMMA CleanAndBuryStep ==
    ASSUME CacheInv, NEW k \in Cache!Chats, Cache!CleanAndBury(k)
    PROVE  CacheInv'
<1>1. Cache!TypeOK'
  BY DEF Cache!TypeOK, Cache!CleanAndBury, CacheInv, Cache!turnVars, Cache!cacheVars, Cache!buildVars, Cache!endVars
<1>2. TurnsCounted'
  BY DEF TurnsCounted, Active, Cache!Out, Cache!CleanAndBury, Cache!TypeOK, CacheInv, Cache!turnVars, Cache!cacheVars, Cache!buildVars, Cache!endVars
<1>3. CloseStops'
  BY DEF CloseStops, Active, Cache!Out, Cache!CleanAndBury, CacheInv, Cache!turnVars, Cache!cacheVars, Cache!buildVars, Cache!endVars
<1>4. BuildsRegistered'
  BY DEF BuildsRegistered, Cache!CachedFor, Cache!CleanAndBury, CacheInv, Cache!turnVars, Cache!cacheVars, Cache!buildVars, Cache!endVars
<1>5. CacheKept'
  BY DEF CacheKept, Cache!Made, DiscardsOver, Over, Cache!CleanAndBury, Cache!TypeOK, CacheInv, Cache!turnVars, Cache!cacheVars, Cache!buildVars, Cache!endVars
<1>6. DiscardsOver'
  BY DEF DiscardsOver, Over, Cache!CleanAndBury, Cache!TypeOK, CacheInv, Cache!turnVars, Cache!cacheVars, Cache!buildVars, Cache!endVars
<1>7. NothingLost'
  <2>1. ASSUME NEW b \in Builds, Cache!Made(b), NEW j \in Cache!Chats, victim[j] = b, deletion[j] = "popped"
        PROVE  b \in cleaned' \/ (victim'[j] = b /\ deletion'[j] = "popped")
    BY <2>1, CacheApart DEF Cache!CleanAndBury, CacheInv, Cache!TypeOK
  <2>2. cleaned \subseteq cleaned' /\ UNCHANGED <<build, cached, discarding>>
    BY DEF Cache!CleanAndBury, Cache!cacheVars, Cache!buildVars
  <2>. QED  BY <2>1, <2>2 DEF CacheInv, NothingLost, Cache!Made
<1>8. TurnsServed'
  BY DEF TurnsServed, WaitsFor, Holds, Cache!CleanAndBury, CacheInv, Cache!turnVars, Cache!cacheVars, Cache!buildVars, Cache!endVars
<1>. QED  BY <1>1, <1>2, <1>3, <1>4, <1>5, <1>6, <1>7, <1>8 DEF CacheInv

LEMMA BuryElsewhereStep ==
    ASSUME CacheInv, NEW k \in Cache!Chats, Cache!BuryElsewhere(k)
    PROVE  CacheInv'
<1>1. Cache!TypeOK'
  BY DEF Cache!TypeOK, Cache!BuryElsewhere, Cache!Free, CacheInv, Cache!turnVars, Cache!cacheVars, Cache!buildVars, Cache!endVars
<1>2. TurnsCounted'
  BY DEF TurnsCounted, Active, Cache!Out, Cache!BuryElsewhere, CacheInv, Cache!turnVars, Cache!cacheVars, Cache!buildVars, Cache!endVars
<1>3. CloseStops'
  BY DEF CloseStops, Active, Cache!Out, Cache!BuryElsewhere, CacheInv, Cache!turnVars, Cache!cacheVars, Cache!buildVars, Cache!endVars
<1>4. BuildsRegistered'
  BY DEF BuildsRegistered, Cache!CachedFor, Cache!BuryElsewhere, CacheInv, Cache!turnVars, Cache!cacheVars, Cache!buildVars, Cache!endVars
<1>5. CacheKept'
  BY DEF CacheKept, Cache!Made, Cache!BuryElsewhere, CacheInv, Cache!turnVars, Cache!cacheVars, Cache!buildVars, Cache!endVars
<1>6. DiscardsOver'
  BY DEF DiscardsOver, Over, Cache!BuryElsewhere, CacheInv, Cache!turnVars, Cache!cacheVars, Cache!buildVars, Cache!endVars
<1>7. NothingLost'
  BY DEF NothingLost, Cache!Made, Cache!BuryElsewhere, CacheInv, Cache!turnVars, Cache!cacheVars, Cache!buildVars, Cache!endVars
<1>8. TurnsServed'
  BY DEF TurnsServed, WaitsFor, Holds, Cache!BuryElsewhere, CacheInv, Cache!turnVars, Cache!cacheVars, Cache!buildVars, Cache!endVars
<1>. QED  BY <1>1, <1>2, <1>3, <1>4, <1>5, <1>6, <1>7, <1>8 DEF CacheInv

LEMMA CloseBeginsStep ==
    ASSUME CacheInv, Cache!CloseBegins
    PROVE  CacheInv'
<1>1. Cache!TypeOK'
  BY DEF Cache!TypeOK, Cache!CloseBegins, Cache!Cancelled, CacheInv, Cache!turnVars, Cache!cacheVars, Cache!buildVars, Cache!endVars
<1>2. TurnsCounted'
  BY DEF TurnsCounted, Active, Cache!Out, Cache!CloseBegins, CacheInv, Cache!turnVars, Cache!cacheVars, Cache!buildVars, Cache!endVars
<1>3. CloseStops'
  BY DEF CloseStops, Active, Cache!Out, Cache!CloseBegins, Cache!Cancelled, Cache!TypeOK, CacheInv, Cache!turnVars, Cache!cacheVars, Cache!buildVars, Cache!endVars
<1>4. BuildsRegistered'
  BY DEF BuildsRegistered, Cache!CachedFor, Cache!CloseBegins, Cache!Cancelled, Cache!TypeOK, CacheInv, Cache!turnVars, Cache!cacheVars, Cache!buildVars, Cache!endVars
<1>5. CacheKept'
  BY DEF CacheKept, Cache!Made, Cache!CloseBegins, Cache!Cancelled, Cache!TypeOK, CacheInv, Cache!turnVars, Cache!cacheVars, Cache!buildVars, Cache!endVars
<1>6. DiscardsOver'
  BY DEF DiscardsOver, Over, Cache!CloseBegins, Cache!Cancelled, Cache!TypeOK, CacheInv, Cache!turnVars, Cache!cacheVars, Cache!buildVars, Cache!endVars
<1>7. NothingLost'
  BY DEF NothingLost, Cache!Made, Cache!CloseBegins, Cache!Cancelled, Cache!TypeOK, CacheInv, Cache!turnVars, Cache!cacheVars, Cache!buildVars, Cache!endVars
<1>8. TurnsServed'
  BY DEF TurnsServed, WaitsFor, Holds, TurnsCounted, Active, Cache!Out, Cache!CloseBegins, Cache!Cancelled, Cache!TypeOK, CacheInv, Cache!turnVars, Cache!cacheVars, Cache!buildVars, Cache!endVars
<1>. QED  BY <1>1, <1>2, <1>3, <1>4, <1>5, <1>6, <1>7, <1>8 DEF CacheInv

LEMMA CloseCleansStep ==
    ASSUME CacheInv, Cache!CloseCleans
    PROVE  CacheInv'
<1>1. Cache!TypeOK'
  BY DEF Cache!TypeOK, Cache!CloseCleans, CacheInv, Cache!turnVars, Cache!cacheVars, Cache!buildVars, Cache!endVars
<1>2. TurnsCounted'
  BY DEF TurnsCounted, Active, Cache!Out, Cache!CloseCleans, CacheInv, Cache!turnVars, Cache!cacheVars, Cache!buildVars, Cache!endVars
<1>3. CloseStops'
  BY DEF CloseStops, Active, Cache!Out, Cache!CloseCleans, Cache!TypeOK, CacheInv, Cache!turnVars, Cache!cacheVars, Cache!buildVars, Cache!endVars
<1>4. BuildsRegistered'
  BY DEF BuildsRegistered, Cache!CachedFor, Cache!CloseCleans, Cache!TypeOK, CacheInv, Cache!turnVars, Cache!cacheVars, Cache!buildVars, Cache!endVars
<1>5. CacheKept'
  BY DEF CacheKept, Cache!Made, Cache!CloseCleans, Cache!TypeOK, CacheInv, Cache!turnVars, Cache!cacheVars, Cache!buildVars, Cache!endVars
<1>6. DiscardsOver'
  BY DEF DiscardsOver, Over, CacheKept, Cache!Made, Cache!CloseCleans, Cache!TypeOK, CacheInv, Cache!turnVars, Cache!cacheVars, Cache!buildVars, Cache!endVars
<1>7. NothingLost'
  BY DEF NothingLost, Cache!Made, Cache!CloseCleans, Cache!TypeOK, CacheInv, Cache!turnVars, Cache!cacheVars, Cache!buildVars, Cache!endVars
<1>8. TurnsServed'
  BY DEF TurnsServed, WaitsFor, Holds, CloseStops, Active, Cache!Out, Cache!CloseCleans, Cache!TypeOK, CacheInv, Cache!turnVars, Cache!cacheVars, Cache!buildVars, Cache!endVars
<1>. QED  BY <1>1, <1>2, <1>3, <1>4, <1>5, <1>6, <1>7, <1>8 DEF CacheInv

LEMMA CacheInit == Cache!Init => CacheInv
<1>. SUFFICES ASSUME Cache!Init PROVE CacheInv
  OBVIOUS
<1>1. Cache!Chats # {} /\ \A u \in Turns : Chat[u] \in Cache!Chats
  BY CacheApart DEF Cache!Chats
<1>2. (CHOOSE k \in Cache!Chats : TRUE) \in Cache!Chats
  BY <1>1
<1>3. Cache!TypeOK
  BY <1>1, <1>2 DEF Cache!Init, Cache!TypeOK, Cache!Out
<1>4. \A u \in Turns : ~Active(u)
  BY DEF Cache!Init, Active, Cache!Out
<1>5. TurnsCounted /\ CloseStops /\ TurnsServed
  BY <1>4 DEF Cache!Init, TurnsCounted, CloseStops, TurnsServed, WaitsFor, Holds
<1>6. BuildsRegistered
  BY DEF Cache!Init, BuildsRegistered
<1>7. CacheKept /\ DiscardsOver /\ NothingLost
  BY DEF Cache!Init, CacheKept, DiscardsOver, NothingLost, Cache!Made
<1>. QED  BY <1>3, <1>5, <1>6, <1>7 DEF CacheInv

LEMMA CacheStutters == CacheInv /\ UNCHANGED Cache!vars => CacheInv'
<1>. SUFFICES ASSUME CacheInv, UNCHANGED Cache!vars PROVE CacheInv'
  OBVIOUS
<1>. USE DEF CacheInv, Cache!vars, Cache!turnVars, Cache!cacheVars, Cache!buildVars, Cache!endVars
<1>1. Cache!TypeOK' /\ TurnsCounted' /\ CloseStops'
  BY DEF Cache!TypeOK, TurnsCounted, CloseStops, Active
<1>2. BuildsRegistered' /\ CacheKept' /\ DiscardsOver'
  BY DEF BuildsRegistered, CacheKept, DiscardsOver, Cache!CachedFor, Cache!Made, Over
<1>3. NothingLost' /\ TurnsServed'
  BY DEF NothingLost, TurnsServed, WaitsFor, Holds, Cache!Made
<1>. QED  BY <1>1, <1>2, <1>3

LEMMA CacheNext == CacheInv /\ [Cache!Next]_(Cache!vars) => CacheInv'
<1>. SUFFICES ASSUME CacheInv, [Cache!Next]_(Cache!vars) PROVE CacheInv'
  OBVIOUS
<1>1. ASSUME NEW u \in Turns,
             Cache!Enter(u) \/ Cache!LookForTombstone(u) \/ Cache!GetRuntime(u) \/ Cache!BuildAnswers(u) \/ Cache!LookAgain(u) \/ Cache!Leave(u)
      PROVE  CacheInv'
  BY <1>1, CacheEnterStep, LookForTombstoneStep, GetRuntimeStep, BuildAnswersStep, LookAgainStep, CacheLeaveStep
<1>2. ASSUME NEW b \in Builds, Cache!CreateSucceeds(b) \/ Cache!CreateFails(b) \/ Cache!CleanEvicted(b)
      PROVE  CacheInv'
  BY <1>2, CreateSucceedsStep, CreateFailsStep, CleanEvictedStep
<1>3. ASSUME NEW k \in Cache!Chats, Cache!CancelBuild(k) \/ Cache!PopRuntime(k) \/ Cache!CleanAndBury(k) \/ Cache!BuryElsewhere(k)
      PROVE  CacheInv'
  BY <1>3, CancelBuildStep, PopRuntimeStep, CleanAndBuryStep, BuryElsewhereStep
<1>. QED  BY <1>1, <1>2, <1>3, CloseBeginsStep, CloseCleansStep, CacheStutters DEF Cache!Next

LEMMA CacheSafe == CacheInv => Cache!TypeOK /\ Cache!RuntimesAreSafe
<1>. SUFFICES ASSUME CacheInv PROVE Cache!RuntimesAreSafe
  BY DEF CacheInv
<1>1. Cache!RuntimesInUseAreIntact
  BY DEF CacheInv, TurnsServed, Holds, CacheKept, Cache!CachedFor, Cache!RuntimesInUseAreIntact
<1>2. Cache!NoRuntimeLeaks
  BY DEF CacheInv, Cache!TypeOK, NothingLost, CacheKept, CloseStops, Cache!NoRuntimeLeaks
<1>. QED  BY <1>1, <1>2 DEF Cache!RuntimesAreSafe
-----------------------------------------------------------------------------
(* The shell jobs.                                                         *)

(* What has not been started has left no trace; what has been started is   *)
(* in the records until it has a verdict; only a start() that returned     *)
(* leaves a detached job.                                                  *)
LeavesTraces(j) ==
    /\ starter[j] = "none" =>
         /\ process[j] = "none" /\ wrapper[j] = "none" /\ control[j] = "none" /\ status[j] = "none"
         /\ monitor[j] = "none" /\ verdict[j] = "none" /\ j \notin records
    /\ starter[j] # "none" => j \in records \/ Shell!Over(j)
    /\ starter[j] = "discarding" => Shell!Over(j)
    /\ starter[j] \in {"none", "waiting", "discarding"} => j \notin detached

(* What the wrapper, the control file, the monitor and the verdict say of  *)
(* the process.                                                            *)
EndIsTrue(j) ==
    /\ wrapper[j] \in {"none", "starting"} => process[j] = "none"
    /\ wrapper[j] = "failed" => process[j] # "alive"
    /\ wrapper[j] = "over" => process[j] = "dead"
    /\ control[j] = "finished" => wrapper[j] = "over"
    /\ control[j] = "failed" => wrapper[j] \in {"failing", "failed"}
    /\ verdict[j] = "completed" => process[j] = "dead"
    /\ verdict[j] = "failed" /\ Shell!MayRun(j) => Shell!Unseen(j)
    /\ verdict[j] # "cancelled"
    /\ monitor[j] \in {"returned", "waiting", "woken"} => verdict[j] # "none"
    /\ status[j] = "completed" => process[j] = "dead"
    /\ status[j] \in {"failed", "cancelled"} /\ Shell!MayRun(j) => Shell!Unseen(j)

(* A verdict was told to whoever consumed it, or by the start() that did   *)
(* not detach the job.                                                     *)
ToldOnce(j) ==
    /\ j \in consumed => j \in detached
    /\ told[j] <= 1
    /\ told[j] = 1 => j \in consumed \/ (starter[j] = "returned" /\ j \notin detached)

(* From the interruption on, every record has a verdict.                   *)
CleanupIsOrderly ==
    /\ cleanup \in {"waiting", "removing", "done"} => \A j \in records : Shell!Over(j)
    /\ cleanup = "done" => records = {}

ShellInv ==
    /\ Shell!TypeOK
    /\ \A j \in Jobs : LeavesTraces(j) /\ EndIsTrue(j) /\ ToldOnce(j)
    /\ CleanupIsOrderly

-----------------------------------------------------------------------------
(* What a step leaves alone of one job.                                    *)

SameProcess(k) ==
    /\ process'[k] = process[k] /\ wrapper'[k] = wrapper[k] /\ control'[k] = control[k]
    /\ k \in lapsed' <=> k \in lapsed
SameMonitor(k) == monitor'[k] = monitor[k] /\ verdict'[k] = verdict[k]
SameStart(k) ==
    /\ starter'[k] = starter[k]
    /\ k \in records' <=> k \in records
    /\ k \in detached' <=> k \in detached
SameStatus(k) == status'[k] = status[k]
SameTold(k) == told'[k] = told[k] /\ (k \in consumed' <=> k \in consumed)

LEMMA TracesStay ==
    ASSUME NEW k, LeavesTraces(k), SameProcess(k), SameMonitor(k), SameStart(k), SameStatus(k)
    PROVE  LeavesTraces(k)'
BY DEF LeavesTraces, SameProcess, SameMonitor, SameStart, SameStatus, Shell!Over, Shell!Verdicts

LEMMA EndsStay ==
    ASSUME NEW k, EndIsTrue(k), SameProcess(k), SameMonitor(k), SameStatus(k)
    PROVE  EndIsTrue(k)'
BY DEF EndIsTrue, SameProcess, SameMonitor, SameStatus, Shell!MayRun, Shell!Unseen

LEMMA ToldStays ==
    ASSUME NEW k, ToldOnce(k), SameStart(k), SameTold(k)
    PROVE  ToldOnce(k)'
BY DEF ToldOnce, SameStart, SameTold

(* The steps of one job.                                                   *)

(* What a step changes of one job's entry, it leaves of the others'.       *)
JobMaps ==
    /\ DOMAIN process = Jobs /\ DOMAIN wrapper = Jobs /\ DOMAIN control = Jobs
    /\ DOMAIN status = Jobs /\ DOMAIN monitor = Jobs /\ DOMAIN verdict = Jobs
    /\ DOMAIN starter = Jobs /\ DOMAIN told = Jobs

LEMMA JobsAreMapped == ShellInv => JobMaps
BY DEF ShellInv, Shell!TypeOK, JobMaps

LEMMA ErrorsBounded ==
    ASSUME Shell!ShellAssumption, ShellInv, Shell!GoesWrong
    PROVE  errors' \in 0 .. MaxErrors
<1>1. errors \in 0 .. MaxErrors /\ MaxErrors \in Nat
  BY DEF ShellInv, Shell!TypeOK, Shell!ShellAssumption
<1> QED BY <1>1 DEF Shell!GoesWrong

LEMMA LaunchKeeps ==
    ASSUME Shell!ShellAssumption, ShellInv, NEW j \in Jobs, Shell!Launch(j)
    PROVE  ShellInv'
<1> USE DEF Shell!Verdicts, Shell!Over, Shell!MayRun, Shell!Unseen
<1>0. JobMaps
  BY JobsAreMapped
<1>t. /\ process \in [Jobs -> {"none", "alive", "orphaned", "dead"}]
      /\ wrapper \in [Jobs -> {"none", "starting", "watching", "failing", "failed", "over"}]
      /\ control \in [Jobs -> {"none", "running", "finished", "failed"}]
  BY DEF ShellInv, Shell!TypeOK
<1>p. UNCHANGED process \/ process' = [process EXCEPT ![j] = "alive"]
  BY DEF Shell!Launch
<1>w. \E w \in {"watching", "failing", "failed"} : wrapper' = [wrapper EXCEPT ![j] = w]
  BY DEF Shell!Launch
<1>c. \E c \in {"none", "running", "failed"} : control' = [control EXCEPT ![j] = c]
  BY DEF Shell!Launch
<1>1. Shell!TypeOK'
  <2>1. /\ process' \in [Jobs -> {"none", "alive", "orphaned", "dead"}]
        /\ wrapper' \in [Jobs -> {"none", "starting", "watching", "failing", "failed", "over"}]
        /\ control' \in [Jobs -> {"none", "running", "finished", "failed"}]
    BY <1>t, <1>p, <1>w, <1>c
  <2>2. errors' \in 0 .. MaxErrors
    BY ErrorsBounded DEF Shell!Launch, ShellInv, Shell!TypeOK
  <2> QED BY <2>1, <2>2 DEF Shell!Launch, Shell!RemoteOnly, ShellInv, Shell!TypeOK, Shell!flagVars,
             Shell!callVars
<1>2. ASSUME NEW k \in Jobs, k # j
      PROVE  LeavesTraces(k)' /\ EndIsTrue(k)' /\ ToldOnce(k)'
  <2>1. SameProcess(k)
    <3>1. process'[k] = process[k] /\ wrapper'[k] = wrapper[k] /\ control'[k] = control[k]
      BY <1>2, <1>t, <1>p, <1>w, <1>c
    <3> QED BY <3>1 DEF Shell!Launch, Shell!RemoteOnly, SameProcess
  <2>2. SameMonitor(k) /\ SameStart(k) /\ SameStatus(k) /\ SameTold(k)
    BY DEF Shell!Launch, Shell!RemoteOnly, Shell!flagVars, SameMonitor, SameStart, SameStatus, SameTold
  <2> QED BY <2>1, <2>2, TracesStay, EndsStay, ToldStays DEF ShellInv
<1>3. LeavesTraces(j)'
  BY <1>0 DEF Shell!Launch, Shell!RemoteOnly, ShellInv, JobMaps, LeavesTraces, EndIsTrue,
         Shell!flagVars, Shell!remoteVars, Shell!callVars
<1>4. EndIsTrue(j)'
  <2>1. /\ wrapper[j] = "starting" /\ process[j] = "none"
        /\ \/ process'[j] = "alive" /\ wrapper'[j] = "watching" /\ control'[j] = "running"
           \/ process'[j] = "none" /\ wrapper'[j] = "failed" /\ control'[j] \in {"none", "failed"}
           \/ process'[j] = "alive" /\ wrapper'[j] = "failing" /\ control'[j] \in {"none", "failed"}
    BY <1>t DEF Shell!Launch, ShellInv, EndIsTrue
  <2>2. /\ verdict' = verdict /\ monitor' = monitor /\ status' = status /\ lapsed' = lapsed
    BY DEF Shell!Launch, Shell!RemoteOnly
  <2> QED BY <2>1, <2>2 DEF ShellInv, EndIsTrue
<1>5. ToldOnce(j)'
  BY DEF Shell!Launch, Shell!RemoteOnly, ShellInv, Shell!TypeOK, LeavesTraces, ToldOnce,
         Shell!flagVars, Shell!remoteVars, Shell!callVars
<1>6. CleanupIsOrderly'
  BY <1>0 DEF Shell!Launch, Shell!RemoteOnly, ShellInv, JobMaps, LeavesTraces, CleanupIsOrderly,
         Shell!flagVars, Shell!remoteVars, Shell!callVars
<1> QED BY <1>1, <1>2, <1>3, <1>4, <1>5, <1>6 DEF ShellInv

LEMMA ExitsKeeps ==
    ASSUME Shell!ShellAssumption, ShellInv, NEW j \in Jobs, Shell!Exits(j)
    PROVE  ShellInv'
<1> USE DEF Shell!Verdicts, Shell!Over, Shell!MayRun, Shell!Unseen
<1>0. JobMaps
  BY JobsAreMapped
<1>p. \E q \in {"orphaned", "dead"} : process' = [process EXCEPT ![j] = q]
  BY DEF Shell!Exits
<1>1. Shell!TypeOK'
  <2>1. process' \in [Jobs -> {"none", "alive", "orphaned", "dead"}]
    BY <1>p DEF ShellInv, Shell!TypeOK
  <2> QED BY <2>1 DEF Shell!Exits, Shell!RemoteOnly, ShellInv, Shell!TypeOK, Shell!flagVars, Shell!callVars
<1>2. ASSUME NEW k \in Jobs, k # j
      PROVE  LeavesTraces(k)' /\ EndIsTrue(k)' /\ ToldOnce(k)'
  <2>1. SameProcess(k) /\ SameMonitor(k) /\ SameStart(k) /\ SameStatus(k) /\ SameTold(k)
    BY <1>0, <1>2 DEF Shell!Exits, Shell!RemoteOnly, ShellInv, JobMaps, Shell!flagVars,
           Shell!remoteVars, Shell!callVars,
                SameProcess, SameMonitor, SameStart, SameStatus, SameTold
  <2> QED BY <2>1, TracesStay, EndsStay, ToldStays DEF ShellInv
<1>3. LeavesTraces(j)'
  BY <1>0 DEF Shell!Exits, Shell!RemoteOnly, ShellInv, JobMaps, LeavesTraces, EndIsTrue,
         Shell!flagVars, Shell!remoteVars, Shell!callVars
<1>4. EndIsTrue(j)'
  <2>1. /\ process[j] \in {"alive", "orphaned"} /\ process'[j] \in {"orphaned", "dead"}
        /\ wrapper' = wrapper /\ control' = control
    BY <1>0 DEF Shell!Exits, ShellInv, JobMaps
  <2>2. /\ verdict' = verdict /\ monitor' = monitor /\ status' = status /\ lapsed' = lapsed
    BY DEF Shell!Exits, Shell!RemoteOnly
  <2> QED BY <2>1, <2>2 DEF ShellInv, EndIsTrue
<1>5. ToldOnce(j)'
  BY DEF Shell!Exits, Shell!RemoteOnly, ShellInv, Shell!TypeOK, LeavesTraces, ToldOnce,
         Shell!flagVars, Shell!remoteVars, Shell!callVars
<1>6. CleanupIsOrderly'
  BY <1>0 DEF Shell!Exits, Shell!RemoteOnly, ShellInv, JobMaps, LeavesTraces, CleanupIsOrderly,
         Shell!flagVars, Shell!remoteVars, Shell!callVars
<1> QED BY <1>1, <1>2, <1>3, <1>4, <1>5, <1>6 DEF ShellInv

LEMMA WritesControlKeeps ==
    ASSUME Shell!ShellAssumption, ShellInv, NEW j \in Jobs, Shell!WritesControl(j)
    PROVE  ShellInv'
<1> USE DEF Shell!Verdicts, Shell!Over, Shell!MayRun, Shell!Unseen
<1>0. JobMaps
  BY JobsAreMapped
<1>1. Shell!TypeOK'
  BY DEF Shell!WritesControl, Shell!RemoteOnly, ShellInv, Shell!TypeOK, Shell!flagVars,
         Shell!remoteVars, Shell!callVars
<1>2. ASSUME NEW k \in Jobs, k # j
      PROVE  LeavesTraces(k)' /\ EndIsTrue(k)' /\ ToldOnce(k)'
  <2>1. SameProcess(k) /\ SameMonitor(k) /\ SameStart(k) /\ SameStatus(k) /\ SameTold(k)
    BY <1>0, <1>2 DEF Shell!WritesControl, Shell!RemoteOnly, ShellInv, JobMaps, Shell!flagVars,
           Shell!remoteVars, Shell!callVars,
                SameProcess, SameMonitor, SameStart, SameStatus, SameTold
  <2> QED BY <2>1, TracesStay, EndsStay, ToldStays DEF ShellInv
<1>3. LeavesTraces(j)'
  BY <1>0 DEF Shell!WritesControl, Shell!RemoteOnly, ShellInv, JobMaps, LeavesTraces, EndIsTrue,
         Shell!flagVars, Shell!remoteVars, Shell!callVars
<1>4. EndIsTrue(j)'
  BY <1>0 DEF Shell!WritesControl, Shell!RemoteOnly, ShellInv, JobMaps, LeavesTraces, EndIsTrue,
         Shell!flagVars, Shell!remoteVars, Shell!callVars
<1>5. ToldOnce(j)'
  BY DEF Shell!WritesControl, Shell!RemoteOnly, ShellInv, Shell!TypeOK, LeavesTraces, ToldOnce,
         Shell!flagVars, Shell!remoteVars, Shell!callVars
<1>6. CleanupIsOrderly'
  BY <1>0 DEF Shell!WritesControl, Shell!RemoteOnly, ShellInv, JobMaps, LeavesTraces,
         CleanupIsOrderly, Shell!flagVars, Shell!remoteVars,
         Shell!callVars
<1> QED BY <1>1, <1>2, <1>3, <1>4, <1>5, <1>6 DEF ShellInv

LEMMA WrapperFailsKeeps ==
    ASSUME Shell!ShellAssumption, ShellInv, NEW j \in Jobs, Shell!WrapperFails(j)
    PROVE  ShellInv'
<1> USE DEF Shell!Verdicts, Shell!Over, Shell!MayRun, Shell!Unseen
<1>0. JobMaps
  BY JobsAreMapped
<1>1. Shell!TypeOK'
  <2>0. /\ wrapper \in [Jobs -> {"none", "starting", "watching", "failing", "failed", "over"}]
        /\ control \in [Jobs -> {"none", "running", "finished", "failed"}]
    BY DEF ShellInv, Shell!TypeOK
  <2>1. wrapper' \in [Jobs -> {"none", "starting", "watching", "failing", "failed", "over"}]
    BY <2>0 DEF Shell!WrapperFails
  <2>2. control' \in [Jobs -> {"none", "running", "finished", "failed"}]
    BY <2>0 DEF Shell!WrapperFails
  <2>3. errors' \in 0 .. MaxErrors
    BY ErrorsBounded DEF Shell!WrapperFails
  <2> QED BY <2>1, <2>2, <2>3 DEF Shell!WrapperFails, Shell!RemoteOnly, ShellInv, Shell!TypeOK,
             Shell!flagVars, Shell!callVars
<1>2. ASSUME NEW k \in Jobs, k # j
      PROVE  LeavesTraces(k)' /\ EndIsTrue(k)' /\ ToldOnce(k)'
  <2>1. SameProcess(k) /\ SameMonitor(k) /\ SameStart(k) /\ SameStatus(k) /\ SameTold(k)
    BY <1>0, <1>2 DEF Shell!WrapperFails, Shell!RemoteOnly, ShellInv, JobMaps, Shell!flagVars,
           Shell!remoteVars, Shell!callVars,
                SameProcess, SameMonitor, SameStart, SameStatus, SameTold
  <2> QED BY <2>1, TracesStay, EndsStay, ToldStays DEF ShellInv
<1>3. LeavesTraces(j)'
  BY <1>0 DEF Shell!WrapperFails, Shell!RemoteOnly, ShellInv, JobMaps, LeavesTraces, EndIsTrue,
         Shell!flagVars, Shell!remoteVars, Shell!callVars
<1>4. EndIsTrue(j)'
  BY <1>0 DEF Shell!WrapperFails, Shell!RemoteOnly, ShellInv, JobMaps, LeavesTraces, EndIsTrue,
         Shell!flagVars, Shell!remoteVars, Shell!callVars
<1>5. ToldOnce(j)'
  BY DEF Shell!WrapperFails, Shell!RemoteOnly, ShellInv, Shell!TypeOK, LeavesTraces, ToldOnce,
         Shell!flagVars, Shell!remoteVars, Shell!callVars
<1>6. CleanupIsOrderly'
  BY <1>0 DEF Shell!WrapperFails, Shell!RemoteOnly, ShellInv, JobMaps, LeavesTraces,
         CleanupIsOrderly, Shell!flagVars, Shell!remoteVars,
         Shell!callVars
<1> QED BY <1>1, <1>2, <1>3, <1>4, <1>5, <1>6 DEF ShellInv

LEMMA WrapperEndsKeeps ==
    ASSUME Shell!ShellAssumption, ShellInv, NEW j \in Jobs, Shell!WrapperEnds(j)
    PROVE  ShellInv'
<1> USE DEF Shell!Verdicts, Shell!Over, Shell!MayRun, Shell!Unseen
<1>0. JobMaps
  BY JobsAreMapped
<1>1. Shell!TypeOK'
  BY DEF Shell!WrapperEnds, Shell!RemoteOnly, ShellInv, Shell!TypeOK, Shell!flagVars,
         Shell!remoteVars, Shell!callVars
<1>2. ASSUME NEW k \in Jobs, k # j
      PROVE  LeavesTraces(k)' /\ EndIsTrue(k)' /\ ToldOnce(k)'
  <2>1. SameProcess(k) /\ SameMonitor(k) /\ SameStart(k) /\ SameStatus(k) /\ SameTold(k)
    BY <1>0, <1>2 DEF Shell!WrapperEnds, Shell!RemoteOnly, ShellInv, JobMaps, Shell!flagVars,
           Shell!remoteVars, Shell!callVars,
                SameProcess, SameMonitor, SameStart, SameStatus, SameTold
  <2> QED BY <2>1, TracesStay, EndsStay, ToldStays DEF ShellInv
<1>3. LeavesTraces(j)'
  BY <1>0 DEF Shell!WrapperEnds, Shell!RemoteOnly, ShellInv, JobMaps, LeavesTraces, EndIsTrue,
         Shell!flagVars, Shell!remoteVars, Shell!callVars
<1>4. EndIsTrue(j)'
  BY <1>0 DEF Shell!WrapperEnds, Shell!RemoteOnly, ShellInv, JobMaps, LeavesTraces, EndIsTrue,
         Shell!flagVars, Shell!remoteVars, Shell!callVars
<1>5. ToldOnce(j)'
  BY DEF Shell!WrapperEnds, Shell!RemoteOnly, ShellInv, Shell!TypeOK, LeavesTraces, ToldOnce,
         Shell!flagVars, Shell!remoteVars, Shell!callVars
<1>6. CleanupIsOrderly'
  BY <1>0 DEF Shell!WrapperEnds, Shell!RemoteOnly, ShellInv, JobMaps, LeavesTraces,
         CleanupIsOrderly, Shell!flagVars, Shell!remoteVars,
         Shell!callVars
<1> QED BY <1>1, <1>2, <1>3, <1>4, <1>5, <1>6 DEF ShellInv

LEMMA RunReturnsKeeps ==
    ASSUME Shell!ShellAssumption, ShellInv, NEW j \in Jobs, Shell!RunReturns(j)
    PROVE  ShellInv'
<1> USE DEF Shell!Verdicts, Shell!Over, Shell!MayRun, Shell!Unseen
<1>0. JobMaps
  BY JobsAreMapped
<1>o. PICK o \in Shell!Verdicts \ {"cancelled"} :
            /\ o = "completed" => control[j] = "finished"
            /\ o = "failed" => control[j] \in {"finished", "failed"}
            /\ Shell!Reports(j, o)
  BY DEF Shell!RunReturns
<1>u. UNCHANGED <<lapsed, errors>>
  BY DEF Shell!RunReturns
<1>1. Shell!TypeOK'
  BY <1>o, <1>u DEF Shell!Reports, ShellInv, Shell!TypeOK, Shell!flagVars, Shell!remoteVars,
         Shell!callVars
<1>2. ASSUME NEW k \in Jobs, k # j
      PROVE  LeavesTraces(k)' /\ EndIsTrue(k)' /\ ToldOnce(k)'
  <2>1. SameProcess(k) /\ SameMonitor(k) /\ SameStart(k) /\ SameStatus(k) /\ SameTold(k)
    BY <1>0, <1>2, <1>o, <1>u DEF Shell!Reports, ShellInv, JobMaps, Shell!flagVars,
           Shell!remoteVars, Shell!callVars,
                SameProcess, SameMonitor, SameStart, SameStatus, SameTold
  <2> QED BY <2>1, TracesStay, EndsStay, ToldStays DEF ShellInv
<1>3. LeavesTraces(j)'
  BY <1>0, <1>o, <1>u DEF Shell!Reports, ShellInv, JobMaps, LeavesTraces, EndIsTrue,
         Shell!flagVars, Shell!remoteVars, Shell!callVars
<1>4. EndIsTrue(j)'
  <2>1. monitor'[j] = "returned" /\ verdict'[j] = o
    BY <1>0, <1>o DEF Shell!Reports, ShellInv, JobMaps
  <2>2. process' = process /\ wrapper' = wrapper /\ control' = control /\ status' = status
    BY <1>o DEF Shell!Reports
  <2> QED BY <1>o, <1>u, <2>1, <2>2 DEF ShellInv, EndIsTrue
<1>5. ToldOnce(j)'
  BY <1>o, <1>u DEF Shell!Reports, ShellInv, Shell!TypeOK, LeavesTraces, ToldOnce,
         Shell!flagVars, Shell!remoteVars, Shell!callVars
<1>6. CleanupIsOrderly'
  BY <1>0, <1>o, <1>u DEF Shell!Reports, ShellInv, JobMaps, LeavesTraces, CleanupIsOrderly,
         Shell!flagVars, Shell!remoteVars,
         Shell!callVars
<1> QED BY <1>1, <1>2, <1>3, <1>4, <1>5, <1>6 DEF ShellInv

LEMMA RunFailsKeeps ==
    ASSUME Shell!ShellAssumption, ShellInv, NEW j \in Jobs, Shell!RunFails(j)
    PROVE  ShellInv'
<1> USE DEF Shell!Verdicts, Shell!Over, Shell!MayRun, Shell!Unseen
<1>0. JobMaps
  BY JobsAreMapped
<1>1. Shell!TypeOK'
  BY ErrorsBounded DEF Shell!RunFails, Shell!Reports, ShellInv, Shell!TypeOK, Shell!flagVars,
         Shell!remoteVars, Shell!callVars
<1>2. ASSUME NEW k \in Jobs, k # j
      PROVE  LeavesTraces(k)' /\ EndIsTrue(k)' /\ ToldOnce(k)'
  <2>1. SameProcess(k) /\ SameMonitor(k) /\ SameStart(k) /\ SameStatus(k) /\ SameTold(k)
    BY <1>0, <1>2 DEF Shell!RunFails, Shell!Reports, ShellInv, JobMaps, Shell!flagVars,
           Shell!remoteVars, Shell!callVars,
                SameProcess, SameMonitor, SameStart, SameStatus, SameTold
  <2> QED BY <2>1, TracesStay, EndsStay, ToldStays DEF ShellInv
<1>3. LeavesTraces(j)'
  BY <1>0 DEF Shell!RunFails, Shell!Reports, ShellInv, JobMaps, LeavesTraces, EndIsTrue,
         Shell!flagVars, Shell!remoteVars, Shell!callVars
<1>4. EndIsTrue(j)'
  <2>1. monitor'[j] = "returned" /\ verdict'[j] = "failed"
    BY <1>0 DEF Shell!RunFails, Shell!Reports, ShellInv, JobMaps
  <2>2. process' = process /\ wrapper' = wrapper /\ control' = control /\ status' = status
    BY DEF Shell!RunFails, Shell!Reports
  <2> QED BY <2>1, <2>2 DEF Shell!RunFails, ShellInv, EndIsTrue
<1>5. ToldOnce(j)'
  BY DEF Shell!RunFails, Shell!Reports, ShellInv, Shell!TypeOK, LeavesTraces, ToldOnce,
         Shell!flagVars, Shell!remoteVars, Shell!callVars
<1>6. CleanupIsOrderly'
  BY <1>0 DEF Shell!RunFails, Shell!Reports, ShellInv, JobMaps, LeavesTraces, CleanupIsOrderly,
         Shell!flagVars, Shell!remoteVars,
         Shell!callVars
<1> QED BY <1>1, <1>2, <1>3, <1>4, <1>5, <1>6 DEF ShellInv

LEMMA AwaitsCancellationKeeps ==
    ASSUME Shell!ShellAssumption, ShellInv, NEW j \in Jobs, Shell!AwaitsCancellation(j)
    PROVE  ShellInv'
<1> USE DEF Shell!Verdicts, Shell!Over, Shell!MayRun, Shell!Unseen
<1>0. JobMaps
  BY JobsAreMapped
<1>1. Shell!TypeOK'
  BY DEF Shell!AwaitsCancellation, ShellInv, Shell!TypeOK, Shell!flagVars, Shell!remoteVars,
         Shell!callVars
<1>2. ASSUME NEW k \in Jobs, k # j
      PROVE  LeavesTraces(k)' /\ EndIsTrue(k)' /\ ToldOnce(k)'
  <2>1. SameProcess(k) /\ SameMonitor(k) /\ SameStart(k) /\ SameStatus(k) /\ SameTold(k)
    BY <1>0, <1>2 DEF Shell!AwaitsCancellation, ShellInv, JobMaps, Shell!flagVars, Shell!remoteVars,
           Shell!callVars,
                SameProcess, SameMonitor, SameStart, SameStatus, SameTold
  <2> QED BY <2>1, TracesStay, EndsStay, ToldStays DEF ShellInv
<1>3. LeavesTraces(j)'
  BY <1>0 DEF Shell!AwaitsCancellation, ShellInv, JobMaps, LeavesTraces, EndIsTrue, Shell!flagVars,
         Shell!remoteVars,
         Shell!callVars
<1>4. EndIsTrue(j)'
  BY <1>0 DEF Shell!AwaitsCancellation, ShellInv, JobMaps, LeavesTraces, EndIsTrue, Shell!flagVars,
         Shell!remoteVars,
         Shell!callVars
<1>5. ToldOnce(j)'
  BY DEF Shell!AwaitsCancellation, ShellInv, Shell!TypeOK, LeavesTraces, ToldOnce, Shell!flagVars,
         Shell!remoteVars,
         Shell!callVars
<1>6. CleanupIsOrderly'
  BY <1>0 DEF Shell!AwaitsCancellation, ShellInv, JobMaps, LeavesTraces, CleanupIsOrderly,
         Shell!flagVars,
         Shell!remoteVars, Shell!callVars
<1> QED BY <1>1, <1>2, <1>3, <1>4, <1>5, <1>6 DEF ShellInv

LEMMA CommitsKeeps ==
    ASSUME Shell!ShellAssumption, ShellInv, NEW j \in Jobs, Shell!Commits(j)
    PROVE  ShellInv'
<1> USE DEF Shell!Verdicts, Shell!Over, Shell!MayRun, Shell!Unseen
<1>0. JobMaps
  BY JobsAreMapped
<1>s. \/ status'[j] = status[j] /\ status[j] \in Shell!Verdicts
      \/ status'[j] = "cancelled" /\ verdict[j] # "interrupted"
      \/ status'[j] = verdict[j]
  BY <1>0 DEF Shell!Commits, JobMaps
<1>1. Shell!TypeOK'
  BY DEF Shell!Commits, Shell!MayCommit, ShellInv, Shell!TypeOK, Shell!flagVars, Shell!remoteVars,
         Shell!callVars
<1>2. ASSUME NEW k \in Jobs, k # j
      PROVE  LeavesTraces(k)' /\ EndIsTrue(k)' /\ ToldOnce(k)'
  <2>1. SameProcess(k) /\ SameMonitor(k) /\ SameStart(k) /\ SameStatus(k) /\ SameTold(k)
    BY <1>0, <1>2 DEF Shell!Commits, Shell!MayCommit, ShellInv, JobMaps, Shell!flagVars,
           Shell!remoteVars, Shell!callVars,
                SameProcess, SameMonitor, SameStart, SameStatus, SameTold
  <2> QED BY <2>1, TracesStay, EndsStay, ToldStays DEF ShellInv
<1>3. LeavesTraces(j)'
  <2>1. monitor[j] \in {"woken", "returned"}
    BY DEF Shell!Commits, Shell!MayCommit
  <2>v. verdict[j] \in Shell!Verdicts
    BY <2>1 DEF ShellInv, Shell!TypeOK, EndIsTrue
  <2>2. starter[j] # "none" /\ status'[j] \in Shell!Verdicts
    BY <1>s, <2>1, <2>v DEF ShellInv, LeavesTraces
  <2>3. UNCHANGED <<starter, records, detached>>
    BY DEF Shell!Commits, Shell!flagVars
  <2> QED BY <2>2, <2>3 DEF ShellInv, LeavesTraces
<1>4. EndIsTrue(j)'
  <2>1. monitor[j] \in {"woken", "returned"} /\ monitor'[j] = "over"
    BY <1>0 DEF Shell!Commits, Shell!MayCommit, JobMaps
  <2>2. UNCHANGED <<process, wrapper, control, lapsed, verdict>>
    BY DEF Shell!Commits, Shell!remoteVars
  <2>3. EndIsTrue(j) /\ verdict[j] \in Shell!Verdicts
    BY <2>1 DEF ShellInv, Shell!TypeOK, EndIsTrue
  <2> QED BY <1>s, <2>1, <2>2, <2>3 DEF EndIsTrue
<1>5. ToldOnce(j)'
  BY DEF Shell!Commits, Shell!MayCommit, ShellInv, Shell!TypeOK, LeavesTraces, ToldOnce,
         Shell!flagVars, Shell!remoteVars,
         Shell!callVars
<1>6. CleanupIsOrderly'
  BY <1>0 DEF Shell!Commits, Shell!MayCommit, ShellInv, JobMaps, LeavesTraces, EndIsTrue,
         CleanupIsOrderly,
         Shell!flagVars,
         Shell!remoteVars, Shell!callVars
<1> QED BY <1>1, <1>2, <1>3, <1>4, <1>5, <1>6 DEF ShellInv

LEMMA StartKeeps ==
    ASSUME Shell!ShellAssumption, ShellInv, NEW j \in Jobs, Shell!Start(j)
    PROVE  ShellInv'
<1> USE DEF Shell!Verdicts, Shell!Over, Shell!MayRun, Shell!Unseen
<1>0. JobMaps
  BY JobsAreMapped
<1>1. Shell!TypeOK'
  BY DEF Shell!Start, ShellInv, Shell!TypeOK, Shell!flagVars, Shell!remoteVars, Shell!callVars
<1>2. ASSUME NEW k \in Jobs, k # j
      PROVE  LeavesTraces(k)' /\ EndIsTrue(k)' /\ ToldOnce(k)'
  <2>1. SameProcess(k) /\ SameMonitor(k) /\ SameStart(k) /\ SameStatus(k) /\ SameTold(k)
    BY <1>0, <1>2 DEF Shell!Start, ShellInv, JobMaps, Shell!flagVars, Shell!remoteVars,
           Shell!callVars,
                SameProcess, SameMonitor, SameStart, SameStatus, SameTold
  <2> QED BY <2>1, TracesStay, EndsStay, ToldStays DEF ShellInv
<1>3. LeavesTraces(j)'
  BY <1>0 DEF Shell!Start, ShellInv, JobMaps, LeavesTraces, EndIsTrue, Shell!flagVars,
         Shell!remoteVars, Shell!callVars
<1>4. EndIsTrue(j)'
  <2>1. process[j] = "none" /\ control[j] = "none" /\ verdict[j] = "none"
    BY DEF Shell!Start, ShellInv, LeavesTraces
  <2>2. wrapper'[j] = "starting" /\ status'[j] = "running" /\ monitor'[j] = "running"
    BY <1>0 DEF Shell!Start, ShellInv, JobMaps
  <2> QED BY <2>1, <2>2 DEF Shell!Start, EndIsTrue
<1>5. ToldOnce(j)'
  BY DEF Shell!Start, ShellInv, Shell!TypeOK, LeavesTraces, ToldOnce, Shell!flagVars,
         Shell!remoteVars, Shell!callVars
<1>6. CleanupIsOrderly'
  BY <1>0 DEF Shell!Start, ShellInv, JobMaps, LeavesTraces, CleanupIsOrderly, Shell!flagVars,
         Shell!remoteVars, Shell!callVars
<1> QED BY <1>1, <1>2, <1>3, <1>4, <1>5, <1>6 DEF ShellInv

LEMMA DetachKeeps ==
    ASSUME Shell!ShellAssumption, ShellInv, NEW j \in Jobs, Shell!Detach(j)
    PROVE  ShellInv'
<1> USE DEF Shell!Verdicts, Shell!Over, Shell!MayRun, Shell!Unseen
<1>0. JobMaps
  BY JobsAreMapped
<1>1. Shell!TypeOK'
  BY DEF Shell!Detach, ShellInv, Shell!TypeOK, Shell!flagVars, Shell!remoteVars, Shell!callVars
<1>2. ASSUME NEW k \in Jobs, k # j
      PROVE  LeavesTraces(k)' /\ EndIsTrue(k)' /\ ToldOnce(k)'
  <2>1. SameProcess(k) /\ SameMonitor(k) /\ SameStart(k) /\ SameStatus(k) /\ SameTold(k)
    BY <1>0, <1>2 DEF Shell!Detach, ShellInv, JobMaps, Shell!flagVars, Shell!remoteVars,
           Shell!callVars,
                SameProcess, SameMonitor, SameStart, SameStatus, SameTold
  <2> QED BY <2>1, TracesStay, EndsStay, ToldStays DEF ShellInv
<1>3. LeavesTraces(j)'
  BY <1>0 DEF Shell!Detach, ShellInv, JobMaps, LeavesTraces, EndIsTrue, Shell!flagVars,
         Shell!remoteVars, Shell!callVars
<1>4. EndIsTrue(j)'
  BY <1>0 DEF Shell!Detach, ShellInv, JobMaps, LeavesTraces, EndIsTrue, Shell!flagVars,
         Shell!remoteVars, Shell!callVars
<1>5. ToldOnce(j)'
  BY DEF Shell!Detach, ShellInv, Shell!TypeOK, LeavesTraces, ToldOnce, Shell!flagVars,
         Shell!remoteVars, Shell!callVars
<1>6. CleanupIsOrderly'
  BY <1>0 DEF Shell!Detach, ShellInv, JobMaps, LeavesTraces, CleanupIsOrderly, Shell!flagVars,
         Shell!remoteVars, Shell!callVars
<1> QED BY <1>1, <1>2, <1>3, <1>4, <1>5, <1>6 DEF ShellInv

LEMMA StartEndsKeeps ==
    ASSUME Shell!ShellAssumption, ShellInv, NEW j \in Jobs, Shell!StartEnds(j)
    PROVE  ShellInv'
<1> USE DEF Shell!Verdicts, Shell!Over, Shell!MayRun, Shell!Unseen
<1>0. JobMaps
  BY JobsAreMapped
<1>1. Shell!TypeOK'
  BY DEF Shell!StartEnds, ShellInv, Shell!TypeOK, Shell!flagVars, Shell!remoteVars, Shell!callVars
<1>2. ASSUME NEW k \in Jobs, k # j
      PROVE  LeavesTraces(k)' /\ EndIsTrue(k)' /\ ToldOnce(k)'
  <2>1. SameProcess(k) /\ SameMonitor(k) /\ SameStart(k) /\ SameStatus(k) /\ SameTold(k)
    BY <1>0, <1>2 DEF Shell!StartEnds, ShellInv, JobMaps, Shell!flagVars, Shell!remoteVars,
           Shell!callVars,
                SameProcess, SameMonitor, SameStart, SameStatus, SameTold
  <2> QED BY <2>1, TracesStay, EndsStay, ToldStays DEF ShellInv
<1>3. LeavesTraces(j)'
  BY <1>0 DEF Shell!StartEnds, ShellInv, JobMaps, LeavesTraces, EndIsTrue, Shell!flagVars,
         Shell!remoteVars, Shell!callVars
<1>4. EndIsTrue(j)'
  BY <1>0 DEF Shell!StartEnds, ShellInv, JobMaps, LeavesTraces, EndIsTrue, Shell!flagVars,
         Shell!remoteVars, Shell!callVars
<1>5. ToldOnce(j)'
  BY DEF Shell!StartEnds, ShellInv, Shell!TypeOK, LeavesTraces, ToldOnce, Shell!flagVars,
         Shell!remoteVars, Shell!callVars
<1>6. CleanupIsOrderly'
  BY <1>0 DEF Shell!StartEnds, ShellInv, JobMaps, LeavesTraces, CleanupIsOrderly, Shell!flagVars,
         Shell!remoteVars,
         Shell!callVars
<1> QED BY <1>1, <1>2, <1>3, <1>4, <1>5, <1>6 DEF ShellInv

LEMMA DiscardKeeps ==
    ASSUME Shell!ShellAssumption, ShellInv, NEW j \in Jobs, Shell!Discard(j)
    PROVE  ShellInv'
<1> USE DEF Shell!Verdicts, Shell!Over, Shell!MayRun, Shell!Unseen
<1>0. JobMaps
  BY JobsAreMapped
<1>1. Shell!TypeOK'
  <2>1. /\ starter' \in [Jobs -> {"none", "waiting", "discarding", "returned", "left"}]
        /\ control' \in [Jobs -> {"none", "running", "finished", "failed"}]
    <3>1. control' = [control EXCEPT ![j] = "none"]
      BY DEF Shell!Discard
    <3>2. CASE starter' = [starter EXCEPT ![j] = "returned"]
      BY <3>1, <3>2 DEF ShellInv, Shell!TypeOK
    <3>3. CASE starter' = [starter EXCEPT ![j] = "left"]
      BY <3>1, <3>3 DEF ShellInv, Shell!TypeOK
    <3> QED BY <3>2, <3>3 DEF Shell!Discard
  <2>2. told' \in [Jobs -> Nat]
    <3>1. told \in [Jobs -> Nat]
      BY DEF ShellInv, Shell!TypeOK
    <3>2. CASE told' = [told EXCEPT ![j] = @ + 1]
      BY <3>1, <3>2
    <3>3. CASE UNCHANGED told
      BY <3>1, <3>3
    <3> QED BY <3>2, <3>3 DEF Shell!Discard
  <2> QED BY <2>1, <2>2 DEF Shell!Discard, ShellInv, Shell!TypeOK, Shell!flagVars, Shell!callVars
<1>2. ASSUME NEW k \in Jobs, k # j
      PROVE  LeavesTraces(k)' /\ EndIsTrue(k)' /\ ToldOnce(k)'
  <2>1. SameProcess(k) /\ SameMonitor(k) /\ SameStart(k) /\ SameStatus(k) /\ SameTold(k)
    <3>1. SameTold(k)
      BY <1>0, <1>2 DEF Shell!Discard, ShellInv, JobMaps, Shell!flagVars, SameTold
    <3>3. SameStart(k)
      BY <1>0, <1>2 DEF Shell!Discard, ShellInv, JobMaps, Shell!flagVars, SameStart
    <3>2. SameProcess(k) /\ SameMonitor(k) /\ SameStatus(k)
      BY <1>0, <1>2 DEF Shell!Discard, ShellInv, JobMaps, SameProcess, SameMonitor, SameStatus
    <3> QED BY <3>1, <3>2, <3>3
  <2> QED BY <2>1, TracesStay, EndsStay, ToldStays DEF ShellInv
<1>3. LeavesTraces(j)'
  BY <1>0 DEF Shell!Discard, ShellInv, JobMaps, LeavesTraces, EndIsTrue, Shell!flagVars,
         Shell!remoteVars, Shell!callVars
<1>4. EndIsTrue(j)'
  BY <1>0 DEF Shell!Discard, ShellInv, JobMaps, LeavesTraces, EndIsTrue, Shell!flagVars,
         Shell!remoteVars, Shell!callVars
<1>5. ToldOnce(j)'
  <2>1. told[j] = 0 /\ j \notin consumed /\ j \notin detached
    <3>1. starter[j] = "discarding"
      BY DEF Shell!Discard
    <3>2. LeavesTraces(j) /\ ToldOnce(j) /\ told[j] \in Nat
      BY DEF ShellInv, Shell!TypeOK
    <3>3. j \notin consumed /\ j \notin detached /\ told[j] # 1
      BY <3>1, <3>2 DEF LeavesTraces, ToldOnce
    <3> QED BY <3>2, <3>3 DEF ToldOnce
  <2>2. CASE starter' = [starter EXCEPT ![j] = "returned"] /\ told' = [told EXCEPT ![j] = @ + 1]
    <3>1. told'[j] = 1 /\ starter'[j] = "returned"
      <4>1. told \in [Jobs -> Nat] /\ j \in DOMAIN starter
        BY DEF ShellInv, Shell!TypeOK
      <4>2. told'[j] = told[j] + 1
        BY <2>2, <4>1
      <4> QED BY <2>1, <2>2, <4>1, <4>2
    <3> QED BY <2>1, <3>1 DEF Shell!Discard, ToldOnce, Shell!flagVars
  <2>3. CASE UNCHANGED told
    BY <2>1, <2>3 DEF Shell!Discard, ToldOnce, Shell!flagVars
  <2> QED BY <2>2, <2>3 DEF Shell!Discard
<1>6. CleanupIsOrderly'
  BY <1>0 DEF Shell!Discard, ShellInv, JobMaps, LeavesTraces, CleanupIsOrderly, Shell!flagVars,
         Shell!remoteVars, Shell!callVars
<1> QED BY <1>1, <1>2, <1>3, <1>4, <1>5, <1>6 DEF ShellInv

LEMMA StartIsCancelledKeeps ==
    ASSUME Shell!ShellAssumption, ShellInv, NEW j \in Jobs, Shell!StartIsCancelled(j)
    PROVE  ShellInv'
<1> USE DEF Shell!Verdicts, Shell!Over, Shell!MayRun, Shell!Unseen
<1>0. JobMaps
  BY JobsAreMapped
<1>1. Shell!TypeOK'
  BY DEF Shell!StartIsCancelled, ShellInv, Shell!TypeOK, Shell!flagVars, Shell!remoteVars,
         Shell!callVars
<1>2. ASSUME NEW k \in Jobs, k # j
      PROVE  LeavesTraces(k)' /\ EndIsTrue(k)' /\ ToldOnce(k)'
  <2>1. SameProcess(k) /\ SameMonitor(k) /\ SameStart(k) /\ SameStatus(k) /\ SameTold(k)
    BY <1>0, <1>2 DEF Shell!StartIsCancelled, ShellInv, JobMaps, Shell!flagVars, Shell!remoteVars,
           Shell!callVars,
                SameProcess, SameMonitor, SameStart, SameStatus, SameTold
  <2> QED BY <2>1, TracesStay, EndsStay, ToldStays DEF ShellInv
<1>3. LeavesTraces(j)'
  BY <1>0 DEF Shell!StartIsCancelled, ShellInv, JobMaps, LeavesTraces, EndIsTrue, Shell!flagVars,
         Shell!remoteVars,
         Shell!callVars
<1>4. EndIsTrue(j)'
  BY <1>0 DEF Shell!StartIsCancelled, ShellInv, JobMaps, LeavesTraces, EndIsTrue, Shell!flagVars,
         Shell!remoteVars,
         Shell!callVars
<1>5. ToldOnce(j)'
  BY DEF Shell!StartIsCancelled, ShellInv, Shell!TypeOK, LeavesTraces, ToldOnce, Shell!flagVars,
         Shell!remoteVars,
         Shell!callVars
<1>6. CleanupIsOrderly'
  BY <1>0 DEF Shell!StartIsCancelled, ShellInv, JobMaps, LeavesTraces, CleanupIsOrderly,
         Shell!flagVars, Shell!remoteVars,
         Shell!callVars
<1> QED BY <1>1, <1>2, <1>3, <1>4, <1>5, <1>6 DEF ShellInv

-----------------------------------------------------------------------------
(* The steps of the callers and of the sweep.  A verdict that is told was  *)
(* available, so it was not told before.                                   *)

TellsAvailable == UNCHANGED <<consumed, told>> \/ \E j \in Jobs : Shell!Available(j) /\ Shell!Tell(j)

LEMMA TellKeeps ==
    ASSUME ShellInv, TellsAvailable, UNCHANGED <<records, detached, starter>>
    PROVE  consumed' \subseteq Jobs /\ told' \in [Jobs -> Nat] /\ \A k \in Jobs : ToldOnce(k)'
<1>1. consumed \subseteq Jobs /\ told \in [Jobs -> Nat] /\ \A k \in Jobs : ToldOnce(k)
  BY DEF ShellInv, Shell!TypeOK
<1>2. CASE UNCHANGED <<consumed, told>>
  BY <1>1, <1>2 DEF ToldOnce
<1>3. ASSUME NEW j \in Jobs, Shell!Available(j), Shell!Over(j),
             consumed' = consumed \cup {j}, told' = [told EXCEPT ![j] = @ + 1]
      PROVE  consumed' \subseteq Jobs /\ told' \in [Jobs -> Nat] /\ \A k \in Jobs : ToldOnce(k)'
  <2>1. consumed' \subseteq Jobs /\ told' \in [Jobs -> Nat] /\ told'[j] = told[j] + 1
    BY <1>1, <1>3
  <2>2. told[j] = 0
    <3>1. j \in detached /\ j \notin consumed
      BY <1>3 DEF Shell!Available
    <3>2. told[j] \in Nat /\ told[j] <= 1 /\ told[j] # 1
      BY <1>1, <3>1 DEF ToldOnce
    <3> QED BY <3>2
  <2>3. ToldOnce(j)'
    BY <1>3, <2>1, <2>2 DEF ToldOnce, Shell!Available
  <2>4. ASSUME NEW k \in Jobs, k # j
        PROVE  ToldOnce(k)'
    <3>1. told'[k] = told[k] /\ (k \in consumed' <=> k \in consumed)
      BY <1>1, <1>3, <2>4
    <3>2. ToldOnce(k)
      BY <1>1
    <3> QED BY <3>1, <3>2 DEF ToldOnce
  <2> QED BY <2>1, <2>3, <2>4
<1> QED BY <1>2, <1>3 DEF TellsAvailable, Shell!Tell

(* Nobody but the calls themselves and the told verdicts have changed.     *)
LEMMA CallKeeps ==
    ASSUME ShellInv, TellsAvailable,
           UNCHANGED <<Shell!remoteVars, records, status, detached, requested, confirmed, resolved,
                       monitor, verdict, starter, cleanup, errors>>,
           callerPc' \in [Shell!Actors -> Shell!Phases], target' \in [Shell!Actors -> Jobs],
           reply' \in [Shell!Actors -> {"none", "not ready", "exited", "killed", "signalled", "error"}],
           holder' \in [Jobs -> Shell!Actors \cup {NoCaller}]
    PROVE  ShellInv'
<1>1. consumed' \subseteq Jobs /\ told' \in [Jobs -> Nat] /\ \A k \in Jobs : ToldOnce(k)'
  BY TellKeeps
<1>2. Shell!TypeOK'
  BY <1>1 DEF ShellInv, Shell!TypeOK, Shell!remoteVars
<1>3. ASSUME NEW k \in Jobs
      PROVE  LeavesTraces(k)' /\ EndIsTrue(k)'
  <2>1. SameProcess(k) /\ SameMonitor(k) /\ SameStart(k) /\ SameStatus(k)
    BY DEF Shell!remoteVars, SameProcess, SameMonitor, SameStart, SameStatus
  <2> QED BY <2>1, TracesStay, EndsStay DEF ShellInv
<1>4. CleanupIsOrderly'
  BY DEF ShellInv, CleanupIsOrderly, Shell!Over
<1> QED BY <1>1, <1>2, <1>3, <1>4 DEF ShellInv

LEMMA GetKeeps ==
    ASSUME ShellInv, NEW c \in Callers, NEW j \in Jobs, Shell!Get(c, j)
    PROVE  ShellInv'
<1>1. TellsAvailable
  BY DEF Shell!Get, TellsAvailable
<1>2. callerPc' \in [Shell!Actors -> Shell!Phases] /\ target' \in [Shell!Actors -> Jobs]
  <2>1. c \in Shell!Actors /\ callerPc \in [Shell!Actors -> Shell!Phases] /\ target \in [Shell!Actors -> Jobs]
    BY DEF ShellInv, Shell!TypeOK, Shell!Actors
  <2>2. CASE callerPc' = [callerPc EXCEPT ![c] = "answered"] /\ UNCHANGED target
    BY <2>1, <2>2 DEF Shell!Phases
  <2>3. CASE callerPc' = [callerPc EXCEPT ![c] = "getting"] /\ target' = [target EXCEPT ![c] = j]
    BY <2>1, <2>3 DEF Shell!Phases
  <2> QED BY <2>2, <2>3 DEF Shell!Get, Shell!Answers
<1>3. /\ UNCHANGED <<Shell!remoteVars, records, status, detached, requested, confirmed, resolved,
                     monitor, verdict, starter, reply, holder, cleanup, errors>>
      /\ reply \in [Shell!Actors -> {"none", "not ready", "exited", "killed", "signalled", "error"}]
      /\ holder \in [Jobs -> Shell!Actors \cup {NoCaller}]
  BY DEF Shell!Get, ShellInv, Shell!TypeOK
<1> QED BY <1>1, <1>2, <1>3, CallKeeps

LEMMA GetEndsKeeps ==
    ASSUME ShellInv, NEW c \in Callers, Shell!GetEnds(c)
    PROVE  ShellInv'
<1>1. c \in Shell!Actors /\ callerPc \in [Shell!Actors -> Shell!Phases] /\ target \in [Shell!Actors -> Jobs]
  BY DEF ShellInv, Shell!TypeOK, Shell!Actors
<1>2. TellsAvailable
  BY <1>1 DEF Shell!GetEnds, TellsAvailable
<1>3. callerPc' \in [Shell!Actors -> Shell!Phases]
  BY <1>1 DEF Shell!GetEnds, Shell!Answers, Shell!Phases
<1>4. /\ UNCHANGED <<Shell!remoteVars, records, status, detached, requested, confirmed, resolved,
                     monitor, verdict, starter, target, reply, holder, cleanup, errors>>
      /\ reply \in [Shell!Actors -> {"none", "not ready", "exited", "killed", "signalled", "error"}]
      /\ holder \in [Jobs -> Shell!Actors \cup {NoCaller}]
  BY DEF Shell!GetEnds, ShellInv, Shell!TypeOK
<1> QED BY <1>1, <1>2, <1>3, <1>4, CallKeeps

LEMMA CancelBeginsKeeps ==
    ASSUME ShellInv, NEW c \in Callers, NEW j \in Jobs, Shell!CancelBegins(c, j)
    PROVE  ShellInv'
<1>1. c \in Shell!Actors /\ callerPc \in [Shell!Actors -> Shell!Phases] /\ target \in [Shell!Actors -> Jobs]
  BY DEF ShellInv, Shell!TypeOK, Shell!Actors
<1>2. callerPc' \in [Shell!Actors -> Shell!Phases] /\ target' \in [Shell!Actors -> Jobs]
  BY <1>1 DEF Shell!CancelBegins, Shell!Phases
<1>3. TellsAvailable
  BY DEF Shell!CancelBegins, TellsAvailable, Shell!flagVars
<1>4. /\ UNCHANGED <<Shell!remoteVars, records, status, detached, requested, confirmed, resolved,
                     monitor, verdict, starter, reply, holder, cleanup, errors>>
      /\ reply \in [Shell!Actors -> {"none", "not ready", "exited", "killed", "signalled", "error"}]
      /\ holder \in [Jobs -> Shell!Actors \cup {NoCaller}]
  BY DEF Shell!CancelBegins, ShellInv, Shell!TypeOK, Shell!flagVars
<1> QED BY <1>2, <1>3, <1>4, CallKeeps

(* The end of a cancellation tells a verdict that is available.            *)
LEMMA EndOfCancellation ==
    ASSUME ShellInv, NEW a \in Shell!Actors, Shell!CancelEnds(a)
    PROVE  /\ TellsAvailable
           /\ callerPc' \in [Shell!Actors -> Shell!Phases]
           /\ holder' \in [Jobs -> Shell!Actors \cup {NoCaller}]
<1>1. callerPc \in [Shell!Actors -> Shell!Phases] /\ target[a] \in Jobs /\ holder \in [Jobs -> Shell!Actors \cup {NoCaller}]
  BY DEF ShellInv, Shell!TypeOK
<1>2. TellsAvailable
  BY <1>1 DEF Shell!CancelEnds, TellsAvailable
<1>3. callerPc' \in [Shell!Actors -> Shell!Phases]
  BY <1>1 DEF Shell!CancelEnds, Shell!Answers, Shell!Phases
<1>4. holder' \in [Jobs -> Shell!Actors \cup {NoCaller}]
  BY <1>1 DEF Shell!CancelEnds
<1> QED BY <1>2, <1>3, <1>4

LEMMA CancelSettlesKeeps ==
    ASSUME ShellInv, NEW a \in Shell!Actors, Shell!CancelSettles(a)
    PROVE  ShellInv'
<1>1. /\ TellsAvailable
      /\ callerPc' \in [Shell!Actors -> Shell!Phases]
      /\ holder' \in [Jobs -> Shell!Actors \cup {NoCaller}]
  BY EndOfCancellation DEF Shell!CancelSettles
<1>2. /\ UNCHANGED <<Shell!remoteVars, records, status, detached, requested, confirmed, resolved,
                     monitor, verdict, starter, target, reply, cleanup, errors>>
      /\ reply \in [Shell!Actors -> {"none", "not ready", "exited", "killed", "signalled", "error"}]
      /\ target \in [Shell!Actors -> Jobs]
  BY DEF Shell!CancelSettles, ShellInv, Shell!TypeOK
<1> QED BY <1>1, <1>2, CallKeeps

LEMMA CancelLocksKeeps ==
    ASSUME Shell!ShellAssumption, ShellInv, NEW a \in Shell!Actors, Shell!CancelLocks(a)
    PROVE  ShellInv'
<1> DEFINE j == target[a]
<1>1. j \in Jobs /\ callerPc \in [Shell!Actors -> Shell!Phases] /\ holder \in [Jobs -> Shell!Actors \cup {NoCaller}]
  BY DEF ShellInv, Shell!TypeOK
<1>2. /\ target \in [Shell!Actors -> Jobs]
      /\ reply \in [Shell!Actors -> {"none", "not ready", "exited", "killed", "signalled", "error"}]
  BY DEF ShellInv, Shell!TypeOK
<1>3. UNCHANGED <<Shell!remoteVars, records, detached, confirmed, monitor, verdict, starter, target,
                  reply, cleanup, errors>>
  BY DEF Shell!CancelLocks
<1>4. CASE /\ Shell!Answers(a)
           /\ IF a \in Callers /\ Shell!Reachable(a, j) THEN Shell!Tell(j) ELSE UNCHANGED <<consumed, told>>
           /\ UNCHANGED <<status, requested, resolved, holder>>
  <2>1. TellsAvailable
    <3>1. CASE a \in Callers /\ Shell!Reachable(a, j) /\ a \notin Shell!Sweeps
      BY <1>1, <1>4, <3>1 DEF TellsAvailable, Shell!Reachable
    <3>2. CASE UNCHANGED <<consumed, told>>
      BY <3>2 DEF TellsAvailable
    <3> QED BY <1>4, <3>1, <3>2 DEF Shell!ShellAssumption, Shell!Sweeps
  <2>2. callerPc' \in [Shell!Actors -> Shell!Phases]
    BY <1>1, <1>4 DEF Shell!Answers, Shell!Phases
  <2> QED BY <1>1, <1>2, <1>3, <1>4, <2>1, <2>2, CallKeeps
<1>5. CASE /\ Shell!Reachable(a, j) /\ ~Shell!Over(j)
           /\ callerPc' = [callerPc EXCEPT ![a] = "requesting"]
           /\ holder' = [holder EXCEPT ![j] = a]
           /\ status' = [status EXCEPT ![j] = "cancelling"]
           /\ requested' = requested \cup {j}
           /\ resolved' = resolved \ {j}
           /\ UNCHANGED <<consumed, told>>
  <2>1. Shell!TypeOK'
    <3>1. callerPc' \in [Shell!Actors -> Shell!Phases] /\ holder' \in [Jobs -> Shell!Actors \cup {NoCaller}]
      BY <1>1, <1>5 DEF Shell!Phases
    <3>2. status' \in [Jobs -> Shell!Verdicts \cup {"none", "running", "cancelling"}]
      BY <1>1, <1>5 DEF ShellInv, Shell!TypeOK, Shell!Verdicts
    <3>3. requested' \subseteq Jobs /\ resolved' \subseteq Jobs
      BY <1>1, <1>5 DEF ShellInv, Shell!TypeOK
    <3> QED BY <1>2, <1>3, <1>5, <3>1, <3>2, <3>3 DEF ShellInv, Shell!TypeOK, Shell!remoteVars
  <2>2. ASSUME NEW k \in Jobs, k # j
        PROVE  LeavesTraces(k)' /\ EndIsTrue(k)'
    <3>1. SameProcess(k) /\ SameMonitor(k) /\ SameStart(k) /\ SameStatus(k)
      BY <1>1, <1>3, <1>5, <2>2
      DEF ShellInv, Shell!TypeOK, Shell!remoteVars, SameProcess, SameMonitor, SameStart, SameStatus
    <3> QED BY <3>1, TracesStay, EndsStay DEF ShellInv
  <2>3. j \in records /\ status'[j] = "cancelling"
    BY <1>1, <1>5 DEF Shell!Reachable, Shell!Available, ShellInv, Shell!TypeOK
  <2>4. ASSUME NEW k \in Jobs, k = j
        PROVE  LeavesTraces(k)' /\ EndIsTrue(k)'
    BY <1>1, <1>3, <1>5, <2>3, <2>4 DEF ShellInv, LeavesTraces, EndIsTrue, Shell!MayRun,
           Shell!Unseen, Shell!Over, Shell!Verdicts, Shell!remoteVars
  <2>5. \A k \in Jobs : ToldOnce(k)'
    BY <1>3, <1>5, TellKeeps DEF TellsAvailable
  <2>6. CleanupIsOrderly'
    BY <1>1, <1>3, <1>5, <2>3 DEF ShellInv, CleanupIsOrderly, Shell!Over
  <2>7. ASSUME NEW k \in Jobs
        PROVE  LeavesTraces(k)' /\ EndIsTrue(k)'
    <3>1. CASE k = j
      BY <2>4, <3>1
    <3>2. CASE k # j
      BY <2>2, <3>2
    <3> QED BY <3>1, <3>2
  <2> QED BY <2>1, <2>5, <2>6, <2>7 DEF ShellInv
<1> QED BY <1>4, <1>5 DEF Shell!CancelLocks

LEMMA CancelRunsKeeps ==
    ASSUME Shell!ShellAssumption, ShellInv, NEW a \in Shell!Actors, Shell!CancelRuns(a)
    PROVE  ShellInv'
<1> DEFINE j == target[a]
<1>1. j \in Jobs
  BY DEF ShellInv, Shell!TypeOK
<1>2. UNCHANGED <<wrapper, control, lapsed, records, status, Shell!flagVars, monitor, verdict, starter,
                  callerPc, target, holder, cleanup, told>>
  BY DEF Shell!CancelRuns
<1>3. reply' \in [Shell!Actors -> {"none", "not ready", "exited", "killed", "signalled", "error"}]
  <2>1. reply \in [Shell!Actors -> {"none", "not ready", "exited", "killed", "signalled", "error"}]
    BY DEF ShellInv, Shell!TypeOK
  <2>2. \E r \in {"not ready", "exited", "killed", "signalled", "error"} :
            reply' = [reply EXCEPT ![a] = r]
    BY DEF Shell!CancelRuns
  <2> QED BY <2>1, <2>2
<1>4. errors' \in 0 .. MaxErrors
  <2>1. errors \in 0 .. MaxErrors /\ MaxErrors \in Nat
    BY DEF ShellInv, Shell!TypeOK, Shell!ShellAssumption
  <2>2. errors' = errors \/ (errors < MaxErrors /\ errors' = errors + 1)
    BY DEF Shell!CancelRuns, Shell!GoesWrong
  <2> QED BY <2>1, <2>2
<1>5. \/ UNCHANGED process
      \/ process[j] \in {"alive", "orphaned"} /\ process' = [process EXCEPT ![j] = "dead"]
  BY DEF Shell!CancelRuns
<1>6. /\ process' \in [Jobs -> {"none", "alive", "orphaned", "dead"}]
      /\ \A k \in Jobs :
            \/ process'[k] = process[k]
            \/ process[k] \in {"alive", "orphaned"} /\ process'[k] = "dead"
  <2>1. process \in [Jobs -> {"none", "alive", "orphaned", "dead"}]
    BY DEF ShellInv, Shell!TypeOK
  <2> QED BY <1>1, <1>5, <2>1
<1>7. Shell!TypeOK'
  BY <1>2, <1>3, <1>4, <1>6 DEF ShellInv, Shell!TypeOK, Shell!flagVars
<1>8. ASSUME NEW k \in Jobs
      PROVE  LeavesTraces(k)' /\ EndIsTrue(k)'
  BY <1>2, <1>6 DEF ShellInv, LeavesTraces, EndIsTrue, Shell!MayRun, Shell!Unseen, Shell!Over,
         Shell!Verdicts, Shell!flagVars
<1>9. \A k \in Jobs : ToldOnce(k)'
  BY <1>2, TellKeeps DEF TellsAvailable, Shell!flagVars
<1>10. CleanupIsOrderly'
  BY <1>2 DEF ShellInv, CleanupIsOrderly, Shell!Over
<1> QED BY <1>7, <1>8, <1>9, <1>10 DEF ShellInv

LEMMA CancelResolvesKeeps ==
    ASSUME ShellInv, NEW a \in Shell!Actors, Shell!CancelResolves(a)
    PROVE  ShellInv'
<1> DEFINE j == target[a]
<1>1. j \in Jobs /\ callerPc \in [Shell!Actors -> Shell!Phases] /\ holder \in [Jobs -> Shell!Actors \cup {NoCaller}]
  BY DEF ShellInv, Shell!TypeOK
<1>2. UNCHANGED <<Shell!remoteVars, records, status, detached, requested, verdict, starter, target,
                  cleanup, errors>>
  BY DEF Shell!CancelResolves
<1>3. /\ TellsAvailable
      /\ callerPc' \in [Shell!Actors -> Shell!Phases]
      /\ holder' \in [Jobs -> Shell!Actors \cup {NoCaller}]
  <2>1. CASE /\ Shell!Answers(a) /\ holder' = [holder EXCEPT ![j] = NoCaller]
             /\ UNCHANGED <<consumed, told>>
    BY <1>1, <2>1 DEF Shell!Answers, Shell!Phases, TellsAvailable
  <2>2. CASE callerPc' = [callerPc EXCEPT ![a] = "settling"] /\ UNCHANGED <<holder, consumed, told>>
    BY <1>1, <2>2 DEF Shell!Phases, TellsAvailable
  <2>3. CASE Shell!CancelEnds(a)
    BY <2>3, EndOfCancellation
  <2> QED BY <2>1, <2>2, <2>3 DEF Shell!CancelResolves
<1>4. /\ consumed' \subseteq Jobs /\ told' \in [Jobs -> Nat]
      /\ \A k \in Jobs : ToldOnce(k)'
  BY <1>2, <1>3, TellKeeps
<1>5. monitor' = [monitor EXCEPT ![j] = IF @ = "waiting" THEN "woken" ELSE @]
  BY DEF Shell!CancelResolves
<1>6. /\ monitor' \in [Jobs -> {"none", "running", "returned", "waiting", "woken", "over"}]
      /\ \A k \in Jobs : \/ monitor'[k] = monitor[k]
                         \/ monitor[k] = "waiting" /\ monitor'[k] = "woken"
  BY <1>1, <1>5 DEF ShellInv, Shell!TypeOK
<1>7. Shell!TypeOK'
  <2>1. resolved' \subseteq Jobs /\ confirmed' \subseteq Jobs
    BY <1>1 DEF Shell!CancelResolves, ShellInv, Shell!TypeOK
  <2>2. reply' \in [Shell!Actors -> {"none", "not ready", "exited", "killed", "signalled", "error"}]
    BY DEF Shell!CancelResolves, ShellInv, Shell!TypeOK
  <2> QED BY <1>2, <1>3, <1>4, <1>6, <2>1, <2>2 DEF ShellInv, Shell!TypeOK, Shell!remoteVars
<1>8. ASSUME NEW k \in Jobs
      PROVE  LeavesTraces(k)' /\ EndIsTrue(k)'
  BY <1>2, <1>6 DEF ShellInv, LeavesTraces, EndIsTrue, Shell!MayRun, Shell!Unseen, Shell!Over,
         Shell!Verdicts, Shell!remoteVars
<1>9. CleanupIsOrderly'
  BY <1>2 DEF ShellInv, CleanupIsOrderly, Shell!Over
<1> QED BY <1>4, <1>7, <1>8, <1>9 DEF ShellInv

-----------------------------------------------------------------------------
(* The steps of cleanup().                                                 *)

LEMMA SweepIsTyped ==
    ASSUME ShellInv
    PROVE  Shell!Sweep \in [Shell!Actors -> Shell!Phases]
BY DEF ShellInv, Shell!TypeOK, Shell!Sweep, Shell!Phases

LEMMA CleanupBeginsKeeps ==
    ASSUME ShellInv, Shell!CleanupBegins
    PROVE  ShellInv'
<1>1. callerPc' \in [Shell!Actors -> Shell!Phases]
  BY SweepIsTyped DEF Shell!CleanupBegins
<1>2. target' \in [Shell!Actors -> Jobs]
  BY DEF Shell!CleanupBegins, ShellInv, Shell!TypeOK, Shell!Active
<1>3. UNCHANGED <<Shell!remoteVars, records, status, Shell!flagVars, monitor, verdict, starter, reply, holder,
                  told, errors>> /\ cleanup' = "sweeping"
  BY DEF Shell!CleanupBegins
<1>4. Shell!TypeOK'
  BY <1>1, <1>2, <1>3 DEF ShellInv, Shell!TypeOK, Shell!remoteVars, Shell!flagVars
<1>5. \A k \in Jobs : LeavesTraces(k)' /\ EndIsTrue(k)' /\ ToldOnce(k)'
  BY <1>3 DEF ShellInv, LeavesTraces, EndIsTrue, Shell!MayRun, Shell!Unseen, ToldOnce, Shell!Over,
         Shell!remoteVars, Shell!flagVars
<1>6. CleanupIsOrderly'
  BY <1>3 DEF CleanupIsOrderly
<1> QED BY <1>4, <1>5, <1>6 DEF ShellInv

LEMMA SweepAgainKeeps ==
    ASSUME ShellInv, Shell!SweepAgain
    PROVE  ShellInv'
<1>1. callerPc' \in [Shell!Actors -> Shell!Phases]
  BY SweepIsTyped DEF Shell!SweepAgain
<1>2. UNCHANGED <<Shell!remoteVars, records, status, Shell!flagVars, monitor, verdict, starter, target, reply,
                  holder, cleanup, told, errors>>
  BY DEF Shell!SweepAgain
<1>3. Shell!TypeOK'
  BY <1>1, <1>2 DEF ShellInv, Shell!TypeOK, Shell!remoteVars, Shell!flagVars
<1>4. \A k \in Jobs : LeavesTraces(k)' /\ EndIsTrue(k)' /\ ToldOnce(k)'
  BY <1>2 DEF ShellInv, LeavesTraces, EndIsTrue, Shell!MayRun, Shell!Unseen, ToldOnce, Shell!Over,
         Shell!remoteVars, Shell!flagVars
<1>5. CleanupIsOrderly'
  BY <1>2 DEF ShellInv, CleanupIsOrderly, Shell!Over
<1> QED BY <1>3, <1>4, <1>5 DEF ShellInv

LEMMA InterruptKeeps ==
    ASSUME ShellInv, Shell!Interrupt
    PROVE  ShellInv'
<1>1. UNCHANGED <<Shell!remoteVars, records, Shell!flagVars, monitor, verdict, starter, Shell!callVars, told,
                  errors>> /\ cleanup' = "waiting"
  BY DEF Shell!Interrupt
<1>2. /\ status' \in [Jobs -> Shell!Verdicts \cup {"none", "running", "cancelling"}]
      /\ \A k \in Jobs : \/ status'[k] = status[k] /\ (k \notin records \/ Shell!Over(k))
                         \/ k \in records /\ status'[k] = "interrupted"
  BY DEF Shell!Interrupt, Shell!Active, ShellInv, Shell!TypeOK, Shell!Verdicts
<1>3. Shell!TypeOK'
  BY <1>1, <1>2 DEF ShellInv, Shell!TypeOK, Shell!remoteVars, Shell!flagVars, Shell!callVars
<1>4. ASSUME NEW k \in Jobs
      PROVE  LeavesTraces(k)' /\ EndIsTrue(k)' /\ ToldOnce(k)'
  <2>1. LeavesTraces(k)' /\ EndIsTrue(k)'
    BY <1>1, <1>2 DEF ShellInv, LeavesTraces, EndIsTrue, Shell!MayRun, Shell!Unseen, Shell!Over,
           Shell!Verdicts, Shell!remoteVars, Shell!flagVars
  <2>2. ToldOnce(k)'
    BY <1>1 DEF ShellInv, ToldOnce, Shell!flagVars
  <2> QED BY <2>1, <2>2
<1>5. CleanupIsOrderly'
  BY <1>1, <1>2 DEF ShellInv, Shell!TypeOK, CleanupIsOrderly, Shell!Over, Shell!Verdicts
<1> QED BY <1>3, <1>4, <1>5 DEF ShellInv

LEMMA StopMonitorsKeeps ==
    ASSUME ShellInv, Shell!StopMonitors
    PROVE  ShellInv'
<1>1. UNCHANGED <<Shell!remoteVars, records, status, Shell!flagVars, verdict, starter, Shell!callVars, told,
                  errors>> /\ cleanup = "waiting" /\ cleanup' = "removing"
  BY DEF Shell!StopMonitors
<1>2. /\ monitor' \in [Jobs -> {"none", "running", "returned", "waiting", "woken", "over"}]
      /\ \A k \in Jobs : monitor'[k] = monitor[k] \/ (k \in records /\ monitor'[k] = "over")
  BY DEF Shell!StopMonitors, ShellInv, Shell!TypeOK
<1>3. Shell!TypeOK'
  BY <1>1, <1>2 DEF ShellInv, Shell!TypeOK, Shell!remoteVars, Shell!flagVars, Shell!callVars
<1>4. ASSUME NEW k \in Jobs
      PROVE  LeavesTraces(k)' /\ EndIsTrue(k)' /\ ToldOnce(k)'
  <2>1. LeavesTraces(k)' /\ EndIsTrue(k)'
    BY <1>1, <1>2 DEF ShellInv, LeavesTraces, EndIsTrue, Shell!MayRun, Shell!Unseen, Shell!Over,
           Shell!Verdicts, Shell!remoteVars, Shell!flagVars
  <2>2. ToldOnce(k)'
    BY <1>1 DEF ShellInv, ToldOnce, Shell!flagVars
  <2> QED BY <2>1, <2>2
<1>5. CleanupIsOrderly'
  BY <1>1 DEF ShellInv, CleanupIsOrderly, Shell!Over
<1> QED BY <1>3, <1>4, <1>5 DEF ShellInv

LEMMA RemoveFilesKeeps ==
    ASSUME ShellInv, Shell!RemoveFiles
    PROVE  ShellInv'
<1>1. UNCHANGED <<process, wrapper, lapsed, status, Shell!flagVars, monitor, verdict, starter, Shell!callVars,
                  told, errors>>
      /\ records' = {} /\ cleanup = "removing" /\ cleanup' = "done"
  BY DEF Shell!RemoveFiles
<1>2. /\ control' \in [Jobs -> {"none", "running", "finished", "failed"}]
      /\ \A k \in Jobs : control'[k] = control[k] \/ control'[k] = "none"
  BY DEF Shell!RemoveFiles, ShellInv, Shell!TypeOK
<1>3. Shell!TypeOK'
  BY <1>1, <1>2 DEF ShellInv, Shell!TypeOK, Shell!flagVars, Shell!callVars
<1>4. ASSUME NEW k \in Jobs
      PROVE  LeavesTraces(k)' /\ EndIsTrue(k)' /\ ToldOnce(k)'
  <2>1. k \in records => Shell!Over(k)
    BY <1>1 DEF ShellInv, CleanupIsOrderly
  <2>2. LeavesTraces(k)' /\ EndIsTrue(k)'
    BY <1>1, <1>2, <2>1 DEF ShellInv, LeavesTraces, EndIsTrue, Shell!MayRun, Shell!Unseen,
           Shell!Over, Shell!Verdicts, Shell!flagVars
  <2>3. ToldOnce(k)'
    BY <1>1 DEF ShellInv, ToldOnce, Shell!flagVars
  <2> QED BY <2>2, <2>3
<1>5. CleanupIsOrderly'
  BY <1>1 DEF CleanupIsOrderly
<1> QED BY <1>3, <1>4, <1>5 DEF ShellInv

-----------------------------------------------------------------------------
(* Initially nothing has happened, and every step keeps the invariant.     *)

LEMMA InitEstablishes ==
    ASSUME Shell!ShellAssumption, Shell!Init
    PROVE  ShellInv
<1>1. \E j \in Jobs : TRUE
  BY DEF Shell!ShellAssumption
<1>2. (CHOOSE j \in Jobs : TRUE) \in Jobs
  BY <1>1
<1>3. Shell!TypeOK
  BY <1>2 DEF Shell!Init, Shell!TypeOK, Shell!Phases, Shell!Verdicts, Shell!ShellAssumption
<1>4. \A j \in Jobs : LeavesTraces(j) /\ EndIsTrue(j) /\ ToldOnce(j)
  BY DEF Shell!Init, LeavesTraces, EndIsTrue, Shell!MayRun, Shell!Unseen, ToldOnce, Shell!Over,
         Shell!Verdicts
<1>5. CleanupIsOrderly
  BY DEF Shell!Init, CleanupIsOrderly
<1> QED BY <1>3, <1>4, <1>5 DEF ShellInv

LEMMA StutterKeeps ==
    ASSUME ShellInv, UNCHANGED Shell!vars
    PROVE  ShellInv'
<1>1. Shell!TypeOK'
  BY DEF ShellInv, Shell!TypeOK, Shell!vars, Shell!remoteVars, Shell!flagVars, Shell!callVars
<1>2. \A k \in Jobs : LeavesTraces(k)' /\ EndIsTrue(k)' /\ ToldOnce(k)'
  BY DEF ShellInv, LeavesTraces, EndIsTrue, Shell!MayRun, Shell!Unseen, ToldOnce, Shell!Over,
         Shell!vars, Shell!remoteVars, Shell!flagVars
<1>3. CleanupIsOrderly'
  BY DEF ShellInv, CleanupIsOrderly, Shell!Over, Shell!vars
<1> QED BY <1>1, <1>2, <1>3 DEF ShellInv

LEMMA StepKeeps ==
    ASSUME Shell!ShellAssumption, ShellInv, [Shell!Next]_(Shell!vars)
    PROVE  ShellInv'
<1>1. ASSUME NEW j \in Jobs, Shell!JobStep(j)
      PROVE  ShellInv'
  BY <1>1, LaunchKeeps, ExitsKeeps, WritesControlKeeps, RunReturnsKeeps, AwaitsCancellationKeeps,
     WrapperFailsKeeps, WrapperEndsKeeps, RunFailsKeeps, CommitsKeeps, StartKeeps, DetachKeeps, StartEndsKeeps, DiscardKeeps, StartIsCancelledKeeps
  DEF Shell!JobStep
<1>2. ASSUME NEW c \in Callers, Shell!GetEnds(c)
      PROVE  ShellInv'
  BY <1>2, GetEndsKeeps
<1>3. ASSUME NEW c \in Callers, NEW j \in Jobs, Shell!Get(c, j) \/ Shell!CancelBegins(c, j)
      PROVE  ShellInv'
  BY <1>3, GetKeeps, CancelBeginsKeeps
<1>4. ASSUME NEW a \in Shell!Actors, Shell!CancelStep(a)
      PROVE  ShellInv'
  BY <1>4, CancelLocksKeeps, CancelRunsKeeps, CancelResolvesKeeps, CancelSettlesKeeps
  DEF Shell!CancelStep
<1>5. ASSUME Shell!CleanupBegins \/ Shell!CleanupStep
      PROVE  ShellInv'
  BY <1>5, CleanupBeginsKeeps, SweepAgainKeeps, InterruptKeeps, StopMonitorsKeeps, RemoveFilesKeeps
  DEF Shell!CleanupStep
<1>6. ASSUME UNCHANGED Shell!vars
      PROVE  ShellInv'
  BY <1>6, StutterKeeps
<1> QED BY <1>1, <1>2, <1>3, <1>4, <1>5, <1>6 DEF Shell!Next

LEMMA ShellInvHolds == ASSUME Shell!ShellAssumption PROVE Shell!Spec => []ShellInv
<1>1. Shell!Init => ShellInv
  BY InitEstablishes
<1>2. ShellInv /\ [Shell!Next]_(Shell!vars) => ShellInv'
  BY StepKeeps
<1> QED BY <1>1, <1>2, PTL DEF Shell!Spec

(* What is known of the end of a job: whoever is told a verdict is the     *)
(* only one, a job whose verdict says that it ended has no process left    *)
(* unless the backend or the wrapper failed before it saw the end, and     *)
(* what cleanup() leaves running otherwise it has called interrupted.      *)
LEMMA AccountsFollow == ShellInv => Shell!TypeOK /\ Shell!JobsAreAccounted
<1> SUFFICES ASSUME ShellInv PROVE Shell!TypeOK /\ Shell!JobsAreAccounted
  OBVIOUS
<1>1. Shell!OneCallerIsTold
  BY DEF ShellInv, ToldOnce, Shell!OneCallerIsTold
<1>2. ASSUME NEW j \in Jobs, cleanup = "done", Shell!MayRun(j)
      PROVE  status[j] = "interrupted" \/ Shell!Unseen(j)
  <2>1. starter[j] # "none" /\ j \notin records
    BY <1>2 DEF ShellInv, LeavesTraces, CleanupIsOrderly, Shell!MayRun
  <2>2. Shell!Over(j)
    BY <2>1 DEF ShellInv, LeavesTraces
  <2>3. status[j] # "completed"
    BY <1>2 DEF ShellInv, EndIsTrue, Shell!MayRun
  <2>4. status[j] \in {"failed", "cancelled"} => Shell!Unseen(j)
    BY <1>2 DEF ShellInv, EndIsTrue
  <2> QED BY <2>2, <2>3, <2>4 DEF Shell!Over, Shell!Verdicts
<1>3. Shell!VerdictsAreTrue
  BY <1>2 DEF ShellInv, EndIsTrue, Shell!VerdictsAreTrue
<1> QED BY <1>1, <1>3 DEF ShellInv, Shell!JobsAreAccounted

(* Types; a verdict is handed over at most once, and it is true.           *)
THEOREM ShellJobsSafe == ASSUME Shell!ShellAssumption PROVE Shell!Spec => [](Shell!TypeOK /\ Shell!JobsAreAccounted)
<1>1. ShellInv => Shell!TypeOK /\ Shell!JobsAreAccounted
  BY AccountsFollow
<1> QED BY <1>1, ShellInvHolds, PTL

-----------------------------------------------------------------------------
(* No step changes the verdict of a job: a start() begins a job that has   *)
(* none, and a cancellation, a commit or the interruption of cleanup()     *)
(* looks first.                                                            *)
LEMMA VerdictStays ==
    ASSUME Shell!ShellAssumption, ShellInv, [Shell!Next]_(Shell!vars), NEW k \in Jobs, Shell!Over(k)
    PROVE  status'[k] = status[k]
<1>1. status \in [Jobs -> Shell!Verdicts \cup {"none", "running", "cancelling"}]
  BY DEF ShellInv, Shell!TypeOK
<1>2. ASSUME NEW j \in Jobs, Shell!JobStep(j)
      PROVE  status'[k] = status[k]
  <2>1. CASE Shell!Start(j)
    <3>1. starter[j] = "none" /\ status' = [status EXCEPT ![j] = "running"]
      BY <2>1 DEF Shell!Start
    <3>2. ~Shell!Over(j)
      BY <3>1 DEF ShellInv, LeavesTraces, Shell!Over, Shell!Verdicts
    <3> QED BY <1>1, <3>1, <3>2
  <2>2. CASE Shell!Commits(j)
    BY <1>1, <2>2 DEF Shell!Commits, Shell!Over
  <2>3. CASE UNCHANGED status
    BY <2>3
  <2> QED BY <1>2, <2>1, <2>2, <2>3
      DEF Shell!JobStep, Shell!Launch, Shell!Exits, Shell!WritesControl, Shell!WrapperFails,
          Shell!WrapperEnds, Shell!RemoteOnly, Shell!RunReturns, Shell!RunFails, Shell!Reports,
          Shell!AwaitsCancellation, Shell!Detach, Shell!StartEnds, Shell!Discard, Shell!StartIsCancelled
<1>3. ASSUME NEW a \in Shell!Actors, Shell!CancelStep(a)
      PROVE  status'[k] = status[k]
  <2>1. CASE Shell!CancelLocks(a)
    <3>1. target[a] \in Jobs
      BY DEF ShellInv, Shell!TypeOK
    <3>2. UNCHANGED status \/ (~Shell!Over(target[a]) /\ status' = [status EXCEPT ![target[a]] = "cancelling"])
      BY <2>1 DEF Shell!CancelLocks
    <3> QED BY <1>1, <3>1, <3>2
  <2>2. CASE Shell!CancelRuns(a) \/ Shell!CancelResolves(a) \/ Shell!CancelSettles(a)
    BY <2>2 DEF Shell!CancelRuns, Shell!CancelResolves, Shell!CancelSettles
  <2> QED BY <1>3, <2>1, <2>2 DEF Shell!CancelStep
<1>4. ASSUME NEW c \in Callers, Shell!GetEnds(c) \/ \E j \in Jobs : Shell!Get(c, j) \/ Shell!CancelBegins(c, j)
      PROVE  status'[k] = status[k]
  BY <1>4 DEF Shell!GetEnds, Shell!Get, Shell!CancelBegins
<1>5. ASSUME Shell!CleanupBegins \/ Shell!CleanupStep
      PROVE  status'[k] = status[k]
  BY <1>5 DEF Shell!CleanupBegins, Shell!CleanupStep, Shell!SweepAgain, Shell!Interrupt, Shell!StopMonitors, Shell!RemoveFiles, Shell!Active
<1>6. ASSUME UNCHANGED Shell!vars
      PROVE  status'[k] = status[k]
  BY <1>6 DEF Shell!vars
<1> QED BY <1>2, <1>3, <1>4, <1>5, <1>6 DEF Shell!Next

(* A verdict is final.                                                     *)
THEOREM ShellVerdictsStay == ASSUME Shell!ShellAssumption PROVE Shell!Spec => Shell!VerdictsAreFinal
<1>1. ShellInv /\ [Shell!Next]_(Shell!vars) => [\A j \in Jobs : Shell!Over(j) => status'[j] = status[j]]_(Shell!vars)
  BY VerdictStays
<1> QED BY <1>1, ShellInvHolds, PTL DEF Shell!Spec, Shell!VerdictsAreFinal

-----------------------------------------------------------------------------
(* The three parts.  Each keeps its invariant whichever part moves.        *)

RuntimeInv == part \in {"events", "cache", "shell"} /\ EventsInv /\ CacheInv /\ ShellInv

LEMMA RuntimeInit == ProcessInit => RuntimeInv
<1>1. Shell!ShellAssumption
  BY RuntimeAssumption
<1>. QED  BY <1>1, EventsInit, CacheInit, InitEstablishes DEF ProcessInit, RuntimeInv

LEMMA RuntimeNext == RuntimeInv /\ [ProcessNext]_processVars => RuntimeInv'
<1>. SUFFICES ASSUME RuntimeInv, [ProcessNext]_processVars PROVE RuntimeInv'
  OBVIOUS
<1>1. Shell!ShellAssumption
  BY RuntimeAssumption
<1>2. /\ part' = part
      /\ [Events!Next]_(Events!vars) /\ [Cache!Next]_(Cache!vars) /\ [Shell!Next]_(Shell!vars)
  <2>1. UNCHANGED eventVars => UNCHANGED Events!vars
    BY DEF eventVars, Events!vars
  <2>2. UNCHANGED cacheVars => UNCHANGED Cache!vars
    BY DEF cacheVars, Cache!vars, Cache!turnVars, Cache!cacheVars, Cache!buildVars, Cache!endVars
  <2>3. UNCHANGED shellVars => UNCHANGED Shell!vars
    BY DEF shellVars, Shell!vars, Shell!remoteVars, Shell!flagVars, Shell!callVars
  <2>. QED  BY <2>1, <2>2, <2>3 DEF ProcessNext, EventStep, CacheStep, ShellStep, processVars
<1>3. EventsInv' /\ CacheInv'
  BY <1>2, EventsNext, CacheNext DEF RuntimeInv
<1>4. ShellInv'
  BY <1>1, <1>2, StepKeeps DEF RuntimeInv
<1>. QED  BY <1>2, <1>3, <1>4 DEF RuntimeInv

LEMMA RuntimeInvHolds == ProcessSpec => []RuntimeInv
BY RuntimeInit, RuntimeNext, PTL DEF ProcessSpec

(* Every variable of the part that moves has its type (TypeOK).            *)
THEOREM TypesKept == ProcessSpec => []ProcessTypes
<1>1. RuntimeInv => ProcessTypes
  BY EventsSafe, CacheSafe, AccountsFollow DEF RuntimeInv, ProcessTypes
<1>. QED  BY <1>1, RuntimeInvHolds, PTL

(* A client of _publish and subscribe() gets every event of its Run from   *)
(* the replay window or from its queue, exactly once and in order; `done`  *)
(* comes after the last event; a stream that is cut says so.               *)
THEOREM StreamsStayGapless == ProcessSpec => []StreamsAreGapless
<1>1. RuntimeInv => StreamsAreGapless
  BY EventsSafe DEF RuntimeInv, StreamsAreGapless
<1>. QED  BY <1>1, RuntimeInvHolds, PTL

(* The runtime that use_runtime() hands out is neither evicted, discarded  *)
(* nor cleaned up while it is used, and every runtime that was made is in  *)
(* the cache or is cleaned up, whatever fails or is cancelled meanwhile.   *)
THEOREM RuntimesStaySafe == ProcessSpec => []RuntimesAreSafe
<1>1. RuntimeInv => RuntimesAreSafe
  BY CacheSafe DEF RuntimeInv, RuntimesAreSafe
<1>. QED  BY <1>1, RuntimeInvHolds, PTL

(* The result of a shell job is told to one caller at most, and it is what *)
(* became of the command.                                                  *)
THEOREM JobsStayAccounted == ProcessSpec => []JobsAreAccounted
<1>1. RuntimeInv => JobsAreAccounted
  BY AccountsFollow DEF RuntimeInv, JobsAreAccounted
<1>. QED  BY <1>1, RuntimeInvHolds, PTL

(* The verdict of a shell job does not change any more.                    *)
THEOREM VerdictsStayFinal == ProcessSpec => VerdictsAreFinal
<1>1. RuntimeInv /\ [ProcessNext]_processVars => [\A j \in Jobs : Shell!Over(j) => status'[j] = status[j]]_(Shell!vars)
  <2>. SUFFICES ASSUME RuntimeInv, [ProcessNext]_processVars, NEW j \in Jobs, Shell!Over(j)
                PROVE  status'[j] = status[j]
    OBVIOUS
  <2>1. Shell!ShellAssumption
    BY RuntimeAssumption
  <2>2. [Shell!Next]_(Shell!vars)
    BY DEF ProcessNext, EventStep, CacheStep, ShellStep, processVars, shellVars, Shell!vars, Shell!remoteVars, Shell!flagVars, Shell!callVars
  <2>. QED  BY <2>1, <2>2, VerdictStays DEF RuntimeInv
<1>. QED  BY <1>1, RuntimeInvHolds, PTL DEF ProcessSpec, VerdictsAreFinal, Shell!VerdictsAreFinal

-----------------------------------------------------------------------------
(* The locks of the cancellations of shell jobs.                           *)

Working(a) == callerPc[a] \in {"requesting", "settling"}

(* Until cleanup() begins its own cancellations rest; from then on each is *)
(* aimed at its job, and no job starts any more.                           *)
SweepsAim ==
    /\ cleanup = "none" => \A j \in Jobs : callerPc[j] = "idle"
    /\ cleanup # "none" => \A j \in Shell!Active : target[j] = j

HoldersWork ==
    /\ \A a \in Shell!Actors : Working(a) <=> holder[target[a]] = a
    /\ \A j \in Jobs : holder[j] # NoCaller => target[holder[j]] = j

LocksInv == SweepsAim /\ HoldersWork

(* What is active stays so or is over; only start() adds to it.            *)
LEMMA ActiveShrinks ==
    ASSUME Shell!ShellAssumption, ShellInv, [Shell!Next]_(Shell!vars), cleanup # "none"
    PROVE  Shell!Active' \subseteq Shell!Active
<1>1. records' \subseteq records
  <2>1. ASSUME NEW j \in Jobs, Shell!JobStep(j) PROVE records' \subseteq records
    BY <2>1 DEF Shell!JobStep, Shell!Launch, Shell!Exits, Shell!WritesControl, Shell!WrapperFails,
       Shell!WrapperEnds, Shell!RemoteOnly, Shell!RunReturns, Shell!RunFails, Shell!Reports,
       Shell!AwaitsCancellation, Shell!Commits, Shell!Start, Shell!Detach, Shell!StartEnds,
       Shell!Discard, Shell!StartIsCancelled
  <2>2. ASSUME NEW c \in Callers, Shell!GetEnds(c) \/ \E j \in Jobs : Shell!Get(c, j) \/ Shell!CancelBegins(c, j)
        PROVE  records' \subseteq records
    BY <2>2 DEF Shell!GetEnds, Shell!Get, Shell!CancelBegins
  <2>3. ASSUME NEW a \in Shell!Actors, Shell!CancelStep(a) PROVE records' \subseteq records
    BY <2>3 DEF Shell!CancelStep, Shell!CancelLocks, Shell!CancelRuns, Shell!CancelResolves, Shell!CancelSettles
  <2>4. ASSUME Shell!CleanupBegins \/ Shell!CleanupStep \/ UNCHANGED Shell!vars PROVE records' \subseteq records
    BY <2>4 DEF Shell!CleanupBegins, Shell!CleanupStep, Shell!SweepAgain, Shell!Interrupt,
       Shell!StopMonitors, Shell!RemoveFiles, Shell!vars
  <2> QED BY <2>1, <2>2, <2>3, <2>4 DEF Shell!Next
<1>2. \A j \in Jobs : Shell!Over(j) => Shell!Over(j)'
  BY VerdictStays DEF Shell!Over
<1>3. records \subseteq Jobs
  BY DEF ShellInv, Shell!TypeOK
<1> QED BY <1>1, <1>2, <1>3 DEF Shell!Active

(* A cancellation that rests may be aimed anew.                            *)
LEMMA AimedAnew ==
    ASSUME ShellInv, HoldersWork, NEW A \in SUBSET Shell!Actors, \A a \in A : ~Working(a),
           target' \in [Shell!Actors -> Jobs], \A a \in Shell!Actors \ A : target'[a] = target[a],
           \A a \in Shell!Actors : Working(a)' <=> Working(a), holder' = holder,
           NoCaller \notin Shell!Actors
    PROVE  HoldersWork'
<1>1. target \in [Shell!Actors -> Jobs] /\ holder \in [Jobs -> Shell!Actors \cup {NoCaller}]
  BY DEF ShellInv, Shell!TypeOK
<1>2. \A j \in Jobs : holder[j] # NoCaller => target[holder[j]] = j /\ Working(holder[j])
  BY <1>1 DEF HoldersWork
<1>3. \A a \in A, j \in Jobs : holder[j] # a
  BY <1>2
<1>4. ASSUME NEW a \in Shell!Actors PROVE Working(a)' <=> holder'[target'[a]] = a
  <2>1. CASE a \in A
    <3>1. target'[a] \in Jobs
      OBVIOUS
    <3> QED BY <1>3, <2>1, <3>1
  <2>2. CASE a \notin A
    BY <2>2 DEF HoldersWork
  <2> QED BY <2>1, <2>2
<1>5. \A j \in Jobs : holder'[j] # NoCaller => target'[holder'[j]] = j
  BY <1>1, <1>2
<1> QED BY <1>4, <1>5 DEF HoldersWork, Working

(* A cancellation takes the lock of its job, goes on with it, or gives it  *)
(* back.                                                                   *)
LEMMA CancellationMoves ==
    ASSUME Shell!ShellAssumption, ShellInv, HoldersWork, NEW a \in Shell!Actors, Shell!CancelStep(a)
    PROVE  HoldersWork'
<1> DEFINE j == target[a]
<1>1. /\ target \in [Shell!Actors -> Jobs] /\ holder \in [Jobs -> Shell!Actors \cup {NoCaller}]
      /\ callerPc \in [Shell!Actors -> Shell!Phases] /\ target' = target /\ a # NoCaller
  BY DEF ShellInv, Shell!TypeOK, Shell!CancelStep, Shell!CancelLocks, Shell!CancelRuns, Shell!CancelResolves,
         Shell!CancelSettles, Shell!CancelEnds, Shell!ShellAssumption
<1>2. \/ UNCHANGED <<callerPc, holder>>
      \/ ~Working(a) /\ callerPc' = [callerPc EXCEPT ![a] = "answered"] /\ holder' = holder
      \/ holder[j] = NoCaller /\ callerPc' = [callerPc EXCEPT ![a] = "requesting"] /\ holder' = [holder EXCEPT ![j] = a]
      \/ Working(a) /\ callerPc' = [callerPc EXCEPT ![a] = "settling"] /\ holder' = holder
      \/ Working(a) /\ callerPc' = [callerPc EXCEPT ![a] = "answered"] /\ holder' = [holder EXCEPT ![j] = NoCaller]
  BY DEF Shell!CancelStep, Shell!CancelLocks, Shell!CancelRuns, Shell!CancelResolves, Shell!CancelSettles,
         Shell!CancelEnds, Shell!Answers, Working
<1>3. \A b \in Shell!Actors : Working(b) <=> holder[target[b]] = b
  BY DEF HoldersWork
<1>4. \A k \in Jobs : holder[k] # NoCaller => target[holder[k]] = k
  BY DEF HoldersWork
<1>5. ASSUME NEW b \in Shell!Actors PROVE Working(b)' <=> holder'[target'[b]] = b
  <2>1. target'[b] = target[b] /\ target[b] \in Jobs /\ j \in Jobs /\ b # NoCaller
    BY <1>1 DEF Shell!ShellAssumption
  <2>2. CASE b # a
    <3>1. callerPc'[b] = callerPc[b]
      BY <1>1, <1>2, <2>2
    <3>2. holder'[target[b]] = b <=> holder[target[b]] = b
      BY <1>1, <1>2, <1>3, <2>1, <2>2
    <3> QED BY <1>3, <2>1, <3>1, <3>2 DEF Working
  <2>3. CASE b = a
    <3>1. CASE UNCHANGED <<callerPc, holder>>
      BY <1>3, <2>1, <3>1 DEF Working
    <3>2. CASE ~Working(a) /\ callerPc' = [callerPc EXCEPT ![a] = "answered"] /\ holder' = holder
      BY <1>1, <1>3, <2>1, <2>3, <3>2 DEF Working
    <3>3. CASE callerPc' = [callerPc EXCEPT ![a] = "requesting"] /\ holder' = [holder EXCEPT ![j] = a]
      BY <1>1, <2>1, <2>3, <3>3 DEF Working
    <3>4. CASE Working(a) /\ callerPc' = [callerPc EXCEPT ![a] = "settling"] /\ holder' = holder
      BY <1>1, <1>3, <2>1, <2>3, <3>4 DEF Working
    <3>5. CASE callerPc' = [callerPc EXCEPT ![a] = "answered"] /\ holder' = [holder EXCEPT ![j] = NoCaller]
      BY <1>1, <2>1, <2>3, <3>5 DEF Working
    <3> QED BY <1>2, <3>1, <3>2, <3>3, <3>4, <3>5
  <2> QED BY <2>2, <2>3
<1>6. ASSUME NEW k \in Jobs, holder'[k] # NoCaller PROVE target'[holder'[k]] = k
  BY <1>1, <1>2, <1>4, <1>6
<1> QED BY <1>5, <1>6 DEF HoldersWork, Working

LEMMA LocksNext ==
    ASSUME Shell!ShellAssumption, ShellInv, ShellInv', LocksInv, [Shell!Next]_(Shell!vars)
    PROVE  LocksInv'
<1>1. /\ target \in [Shell!Actors -> Jobs] /\ callerPc \in [Shell!Actors -> Shell!Phases]
      /\ target' \in [Shell!Actors -> Jobs] /\ records \subseteq Jobs
  BY DEF ShellInv, Shell!TypeOK
<1>2. Jobs \subseteq Shell!Actors /\ Callers \subseteq Shell!Actors /\ NoCaller \notin Shell!Actors /\ Callers \cap Jobs = {}
  BY DEF Shell!ShellAssumption, Shell!Actors, Shell!Sweeps
<1>3. SweepsAim /\ HoldersWork
  BY DEF LocksInv
<1>4. ASSUME UNCHANGED <<callerPc, target, holder, cleanup>> PROVE LocksInv'
  <2>1. HoldersWork'
    BY <1>3, <1>4 DEF HoldersWork, Working
  <2>2. SweepsAim'
    BY <1>3, <1>4, ActiveShrinks DEF SweepsAim
  <2> QED BY <2>1, <2>2 DEF LocksInv
<1>5. ASSUME NEW j \in Jobs, Shell!JobStep(j) PROVE LocksInv'
  BY <1>4, <1>5 DEF Shell!JobStep, Shell!Launch, Shell!Exits, Shell!WritesControl, Shell!WrapperFails,
       Shell!WrapperEnds, Shell!RemoteOnly, Shell!RunReturns, Shell!RunFails, Shell!Reports,
     Shell!AwaitsCancellation, Shell!Commits, Shell!Start, Shell!Detach, Shell!StartEnds,
     Shell!Discard, Shell!StartIsCancelled, Shell!callVars
<1>6. ASSUME NEW c \in Callers, Shell!GetEnds(c) \/ \E j \in Jobs : Shell!Get(c, j) \/ Shell!CancelBegins(c, j)
      PROVE  LocksInv'
  <2>1. /\ ~Working(c) /\ (\E p \in {"answered", "getting", "queued"} : callerPc' = [callerPc EXCEPT ![c] = p])
        /\ \A a \in Shell!Actors \ {c} : target'[a] = target[a]
        /\ holder' = holder /\ cleanup' = cleanup
    BY <1>1, <1>6 DEF Shell!GetEnds, Shell!Get, Shell!CancelBegins, Shell!Answers, Working
  <2>2. \A a \in Shell!Actors : Working(a)' <=> Working(a)
    BY <1>1, <2>1 DEF Working
  <2>3. HoldersWork'
    <3>1. {c} \in SUBSET Shell!Actors /\ \A a \in {c} : ~Working(a)
      BY <1>2, <2>1
    <3> QED BY <1>1, <1>2, <1>3, <2>1, <2>2, <3>1, AimedAnew
  <2>4. \A j \in Jobs : callerPc'[j] = callerPc[j] /\ target'[j] = target[j]
    BY <1>1, <1>2, <2>1
  <2>5. Shell!Active' = Shell!Active
    BY <1>6 DEF Shell!GetEnds, Shell!Get, Shell!CancelBegins, Shell!Active, Shell!Over
  <2>6. Shell!Active \subseteq Jobs
    BY <1>1 DEF Shell!Active
  <2>7. SweepsAim'
    BY <1>3, <2>1, <2>4, <2>5, <2>6 DEF SweepsAim
  <2> QED BY <2>3, <2>7 DEF LocksInv
<1>7. ASSUME NEW a \in Shell!Actors, Shell!CancelStep(a) PROVE LocksInv'
  <2>1. HoldersWork'
    BY <1>3, <1>7, CancellationMoves
  <2>2. target' = target /\ cleanup' = cleanup
    BY <1>7 DEF Shell!CancelStep, Shell!CancelLocks, Shell!CancelRuns, Shell!CancelResolves, Shell!CancelSettles
  <2>3. callerPc[a] # "idle"
    BY <1>7 DEF Shell!CancelStep, Shell!CancelLocks, Shell!CancelRuns, Shell!CancelResolves, Shell!CancelSettles
  <2>4. \A b \in Shell!Actors : b # a => callerPc'[b] = callerPc[b]
    BY <1>1, <1>7 DEF Shell!CancelStep, Shell!CancelLocks, Shell!CancelRuns, Shell!CancelResolves,
       Shell!CancelSettles, Shell!CancelEnds, Shell!Answers
  <2>5. cleanup' = "none" => \A j \in Jobs : callerPc'[j] = "idle"
    BY <1>2, <1>3, <2>2, <2>3, <2>4 DEF SweepsAim
  <2>6. cleanup' # "none" => \A j \in Shell!Active' : target'[j] = j
    BY <1>3, <2>2, ActiveShrinks DEF SweepsAim
  <2> QED BY <2>1, <2>5, <2>6 DEF LocksInv, SweepsAim
<1>8. CASE Shell!CleanupBegins
  <2>1. /\ \A j \in Jobs : callerPc[j] = "idle"
        /\ callerPc' = Shell!Sweep /\ holder' = holder /\ cleanup' = "sweeping"
        /\ target' = [a \in Shell!Actors |-> IF a \in Shell!Active THEN a ELSE target[a]]
    BY <1>3, <1>8 DEF Shell!CleanupBegins, SweepsAim
  <2>2. Shell!Active' = Shell!Active /\ Shell!Active \subseteq Jobs
    BY <1>1, <1>8 DEF Shell!CleanupBegins, Shell!Active, Shell!Over
  <2>3. \A a \in Shell!Actors : Working(a)' <=> Working(a)
    BY <1>1, <2>1, <2>2 DEF Working, Shell!Sweep
  <2>4. \A a \in Shell!Active : ~Working(a)
    BY <2>1, <2>2 DEF Working
  <2>5. \A a \in Shell!Actors \ Shell!Active : target'[a] = target[a]
    BY <2>1
  <2>6. Shell!Active \in SUBSET Shell!Actors
    BY <1>2, <2>2
  <2>7. HoldersWork'
    BY <1>1, <1>2, <1>3, <2>1, <2>3, <2>4, <2>5, <2>6, AimedAnew
  <2>8. SweepsAim'
    BY <1>2, <2>1, <2>2 DEF SweepsAim
  <2> QED BY <2>7, <2>8 DEF LocksInv
<1>9. CASE Shell!SweepAgain
  <2>1. /\ callerPc' = Shell!Sweep /\ UNCHANGED <<holder, cleanup, target>>
        /\ \A j \in Jobs : callerPc[j] \in {"idle", "answered"}
        /\ cleanup # "none"
    BY <1>9 DEF Shell!SweepAgain, Shell!SweepEnds, Shell!Sweeps
  <2>2. Shell!Active' = Shell!Active /\ Shell!Active \subseteq Jobs
    BY <1>1, <1>9 DEF Shell!SweepAgain, Shell!Active, Shell!Over
  <2>3. \A a \in Shell!Actors : Working(a)' <=> Working(a)
    BY <1>1, <2>1, <2>2 DEF Working, Shell!Sweep
  <2>4. HoldersWork'
    BY <1>1, <1>3, <2>1, <2>3 DEF HoldersWork, Working
  <2>5. SweepsAim'
    BY <1>3, <2>1, <2>2 DEF SweepsAim
  <2> QED BY <2>4, <2>5 DEF LocksInv
<1>10. CASE Shell!Interrupt \/ Shell!StopMonitors \/ Shell!RemoveFiles
  <2>1. /\ UNCHANGED <<callerPc, target, holder>> /\ cleanup # "none" /\ cleanup' # "none"
    BY <1>10 DEF Shell!Interrupt, Shell!StopMonitors, Shell!RemoveFiles, Shell!SweepEnds, Shell!callVars
  <2>2. HoldersWork'
    BY <1>3, <2>1 DEF HoldersWork, Working
  <2>3. SweepsAim'
    BY <1>3, <2>1, ActiveShrinks DEF SweepsAim
  <2> QED BY <2>2, <2>3 DEF LocksInv
<1>11. CASE UNCHANGED Shell!vars
  BY <1>4, <1>11 DEF Shell!vars, Shell!callVars
<1> QED BY <1>5, <1>6, <1>7, <1>8, <1>9, <1>10, <1>11 DEF Shell!Next, Shell!CleanupStep

LEMMA LocksInit == Shell!Init /\ Shell!ShellAssumption => LocksInv
<1> SUFFICES ASSUME Shell!Init, Shell!ShellAssumption PROVE LocksInv
  OBVIOUS
<1>1. \A a \in Shell!Actors : a # NoCaller /\ target[a] \in Jobs /\ callerPc[a] = "idle"
  BY DEF Shell!Init, Shell!ShellAssumption
<1>2. \A j \in Jobs : j \in Shell!Actors /\ holder[j] = NoCaller
  BY DEF Shell!Init, Shell!Actors, Shell!Sweeps
<1>3. cleanup = "none"
  BY DEF Shell!Init
<1> QED BY <1>1, <1>2, <1>3 DEF LocksInv, SweepsAim, HoldersWork, Working

(* No cancel_lock of a shell job is left behind: its holder is a           *)
(* cancellation of this very job that is at work, so that cleanup() and    *)
(* the next cancellation wait for no one who is gone; and what cleanup()   *)
(* cancels for a job is that job.                                          *)
CancelLocksAreUsed ==
    /\ \A j \in Jobs : holder[j] # NoCaller =>
          target[holder[j]] = j /\ callerPc[holder[j]] \in {"requesting", "settling"}
    /\ cleanup # "none" => \A j \in Shell!Active : target[j] = j

(* Whoever waits for a shell job's cancel_lock waits for a cancellation    *)
(* that is at work on the job, also after a request failed or cleanup()    *)
(* began, and each cancellation of cleanup() concerns its own job.         *)
THEOREM CancelLocksAreNotLost == ProcessSpec => []CancelLocksAreUsed
<1>1. ProcessInit => LocksInv
  BY LocksInit, RuntimeAssumption DEF ProcessInit
<1>2. RuntimeInv /\ RuntimeInv' /\ LocksInv /\ [ProcessNext]_processVars => LocksInv'
  <2> SUFFICES ASSUME RuntimeInv, RuntimeInv', LocksInv, [ProcessNext]_processVars PROVE LocksInv'
    OBVIOUS
  <2>1. ShellInv /\ ShellInv'
    BY DEF RuntimeInv
  <2>2. [Shell!Next]_(Shell!vars)
    BY DEF ProcessNext, EventStep, CacheStep, ShellStep, processVars, shellVars, Shell!vars, Shell!remoteVars,
           Shell!flagVars, Shell!callVars
  <2> QED BY <2>1, <2>2, LocksNext, RuntimeAssumption
<1>3. RuntimeInv /\ LocksInv => CancelLocksAreUsed
  <2> SUFFICES ASSUME RuntimeInv, LocksInv PROVE CancelLocksAreUsed
    OBVIOUS
  <2>1. holder \in [Jobs -> Shell!Actors \cup {NoCaller}]
    BY DEF RuntimeInv, ShellInv, Shell!TypeOK
  <2> QED BY <2>1 DEF LocksInv, SweepsAim, HoldersWork, Working, CancelLocksAreUsed
<1> QED BY <1>1, <1>2, <1>3, RuntimeInvHolds, PTL DEF ProcessSpec

-----------------------------------------------------------------------------
(* The ends of the streams.                                                *)

(* A client whose Run is over, or that found none, has its stream ended:   *)
(* `done` or the error waits in its queue, with the end mark behind it,    *)
(* however full the queue was when the Run's callback came.                *)
StreamsOfFinishedRunsEnd ==
    \A c \in Clients :
        /\ stream[c].state \in {"starting", "open"}
        /\ stream[c].run # NoRun => phase[stream[c].run] = "finished"
        => Events!Released(c)

(* When the done callback of a Run has run, or there was no Run, nobody is *)
(* left in a stream that has no end.                                       *)
THEOREM FinishedRunsReleaseClients == ProcessSpec => []StreamsOfFinishedRunsEnd
<1>1. EventsInv => StreamsOfFinishedRunsEnd
  <2> SUFFICES ASSUME EventsInv, NEW c \in Clients, stream[c].state \in {"starting", "open"},
                      stream[c].run # NoRun => phase[stream[c].run] = "finished"
               PROVE  Events!Released(c)
    BY DEF StreamsOfFinishedRunsEnd
  <2> DEFINE q == stream[c].queue
  <2>1. q \in Seq(Events!QueueItems) /\ Heard(c)
    BY DEF EventsInv, Events!TypeOK, Events!Streams
  <2>2. \/ q = <<Events!EndMark>>
        \/ q = <<Events!Dropped, Events!EndMark>>
        \/ Len(q) - 2 \in Nat /\ q[Len(q)] = Events!EndMark
    <3>1. CASE stream[c].run = NoRun
      BY <2>1, <3>1 DEF Heard, NothingToHear
    <3>2. CASE stream[c].run # NoRun
      <4>1. phase[stream[c].run] = "finished" /\ Listening(c)
        BY <2>1, <3>2 DEF Heard
      <4>2. Finishing(c) \/ ToldDone(c) \/ Cut(c)
        BY <4>1 DEF Listening, Live
      <4> QED BY <2>1, <4>2 DEF Finishing, ToldDone, Cut
    <3> QED BY <3>1, <3>2
  <2>3. q # <<>> /\ q[Len(q)] = Events!EndMark
    <3>1. CASE q = <<Events!EndMark>>
      BY <3>1
    <3>2. CASE q = <<Events!Dropped, Events!EndMark>>
      BY <3>2
    <3>3. CASE Len(q) - 2 \in Nat /\ q[Len(q)] = Events!EndMark
      BY <2>1, <3>3
    <3> QED BY <2>2, <3>1, <3>2, <3>3
  <2> QED BY <2>3 DEF Events!Released, Events!Last
<1> QED BY <1>1, RuntimeInvHolds, PTL DEF RuntimeInv

-----------------------------------------------------------------------------
(* The specialist sessions.                                                *)

USE DEF Actors, Slots, Idle, Phases, Outcomes, Records, lockVars, storeVars, boundVars,
        InUse, Advance
USE BoundAssumption, ActorAssumption

(* The part of the invariant that is about what tool calls hold.           *)
HoldsType ==
    /\ pc \in [Actors -> Phases]
    /\ lock \in [Sessions -> Actors \cup {Nobody}] /\ slot \in [Slots -> Calls \cup {Nobody}]
    /\ permits \in Nat
    /\ seen \in [Calls -> SUBSET Sessions] /\ active \subseteq Sessions

HInv == HoldsType /\ PhasesByKind /\ ResourcesMatchPhases

(* The sets that are counted are finite.                                   *)
LEMMA CountedAreFinite ==
    /\ IsFiniteSet(Permitted) /\ IsFiniteSet(Permitted')
    /\ IsFiniteSet(SessionConnections) /\ IsFiniteSet(SessionConnections')
    /\ IsFiniteSet(SlotConnections) /\ IsFiniteSet(SlotConnections')
<1>1. IsFiniteSet(Calls \cup Deletions)
  BY FiniteAssumption, FS_Union
<1>2. IsFiniteSet(0 .. MaxSessions - 1)
  BY FS_Interval
<1>3. Permitted \subseteq Calls /\ Permitted' \subseteq Calls
  BY DEF Permitted
<1>4. SessionConnections \subseteq Calls \cup Deletions
      /\ SessionConnections' \subseteq Calls \cup Deletions
  BY DEF SessionConnections
<1>5. SlotConnections \subseteq 0 .. MaxSessions - 1
      /\ SlotConnections' \subseteq 0 .. MaxSessions - 1
  BY DEF SlotConnections
<1> QED BY <1>1, <1>2, <1>3, <1>4, <1>5, FiniteAssumption, FS_Subset

(* Giving connections back keeps within the pool.                          *)
LEMMA FewerConnections ==
    ASSUME Connections <= PoolSize,
           SessionConnections' \subseteq SessionConnections,
           SlotConnections' \subseteq SlotConnections
    PROVE  Connections' <= PoolSize
<1> DEFINE x == Cardinality(SessionConnections) x2 == Cardinality(SessionConnections')
           y == Cardinality(SlotConnections) y2 == Cardinality(SlotConnections')
<1>1. x2 <= x /\ y2 <= y
  BY CountedAreFinite, FS_Subset
<1>2. x \in Nat /\ x2 \in Nat /\ y \in Nat /\ y2 \in Nat
  BY CountedAreFinite, FS_CardinalityType
<1>3. x + y <= PoolSize
  BY DEF Connections
<1>4. x2 + y2 <= PoolSize
  <2> HIDE DEF x, x2, y, y2
  <2> QED BY <1>1, <1>2, <1>3
<1> QED BY <1>4 DEF Connections

(* Whatever its phase, a tool call that ends gives back what it holds.     *)
LEMMA Released ==
    ASSUME HInv, NEW a \in Actors, NEW i \in Idle,
           pc' = [pc EXCEPT ![a] = i], Release(a), seen' = seen
    PROVE  HInv'
<1> USE DEF HInv, HoldsType, ResourcesMatchPhases
<1>1. /\ pc' \in [Actors -> Phases]
      /\ lock' \in [Sessions -> Actors \cup {Nobody}]
      /\ slot' \in [Slots -> Calls \cup {Nobody}]
      /\ seen' \in [Calls -> SUBSET Sessions]
      /\ active' \subseteq Sessions
  BY DEF Release
<1>2. PhasesByKind'
  BY DEF PhasesByKind
<1>3. LocksMatch'
  BY DEF LocksMatch, Release
<1>4. SlotsMatch'
  BY DEF SlotsMatch, Slotted, Release, PhasesByKind
<1>5. permits' = Cardinality(Permitted') /\ permits' \in Nat
  <2>1. CASE a \in Permitted
    <3>1. Permitted' = Permitted \ {a}
      BY <2>1 DEF Permitted
    <3>2. Cardinality(Permitted \ {a}) = Cardinality(Permitted) - 1
      BY <2>1, CountedAreFinite, FS_RemoveElement
    <3>3. permits' = permits - 1
      BY <2>1 DEF Release, Permitted
    <3>4. Cardinality(Permitted') \in Nat
      BY CountedAreFinite, FS_CardinalityType
    <3> QED BY <3>1, <3>2, <3>3, <3>4
  <2>2. CASE a \notin Permitted
    <3>1. Permitted' = Permitted
      BY <2>2 DEF Permitted
    <3>2. permits' = permits
      BY <2>2 DEF Release, Permitted, PhasesByKind
    <3> QED BY <3>1, <3>2
  <2> QED BY <2>1, <2>2
<1>6. active' = {Target[c] : c \in Tracked}'
  <2>2. CASE a \in Tracked
    <3>0. \A c \in Tracked : Target[c] = Target[a] => c = a
      BY <2>2 DEF Tracked, LocksMatch
    <3>1. Tracked' = Tracked \ {a}
      BY <2>2 DEF Tracked
    <3>2. active' = active \ {Target[a]}
      BY <2>2 DEF Release, Tracked
    <3> QED BY <2>2, <3>0, <3>1, <3>2
  <2>3. CASE a \notin Tracked
    <3>1. Tracked' = Tracked
      BY <2>3 DEF Tracked
    <3>2. active' = active
      BY <2>3 DEF Release, Tracked, PhasesByKind
    <3> QED BY <3>1, <3>2
  <2> QED BY <2>2, <2>3
<1>7. Connections' <= PoolSize
  <2>1. SessionConnections' \subseteq SessionConnections
    BY DEF SessionConnections
  <2>2. SlotConnections' \subseteq SlotConnections
    BY DEF SlotConnections, Release
  <2> QED BY <2>1, <2>2, FewerConnections
<1> QED BY <1>1, <1>2, <1>3, <1>4, <1>5, <1>6, <1>7

(* A delegation that goes on with its specialist keeps what it holds.      *)
LEMMA GoesOn ==
    ASSUME HInv, NEW c \in Calls, NEW to \in InUse,
           pc[c] \in InUse, pc' = [pc EXCEPT ![c] = to], UNCHANGED <<lockVars, seen>>
    PROVE  HInv'
<1> USE DEF HInv, HoldsType, ResourcesMatchPhases
<1>1. HoldsType'
  OBVIOUS
<1>2. PhasesByKind'
  BY DEF PhasesByKind
<1>3. LocksMatch' /\ SlotsMatch'
  <2>1. LocksMatch'
    BY DEF LocksMatch
  <2>2. SlotsMatch'
    BY DEF SlotsMatch, Slotted
  <2> QED BY <2>1, <2>2
<1>4. Permitted' = Permitted /\ Tracked' = Tracked
  BY DEF Permitted, Tracked
<1>5. SessionConnections' = SessionConnections /\ SlotConnections' = SlotConnections
  BY DEF SessionConnections, SlotConnections
<1> QED BY <1>1, <1>2, <1>3, <1>4, <1>5 DEF Connections

(* A free session is locked, before a connection is there for the lock.    *)
LEMMA Locked ==
    ASSUME HInv, NEW a \in Actors, Start(a)
    PROVE  HInv'
<1> USE DEF HInv, HoldsType, ResourcesMatchPhases, Start, Starts
<1>1. HoldsType'
  OBVIOUS
<1>2. PhasesByKind'
  BY DEF PhasesByKind
<1>3. LocksMatch'
  BY DEF LocksMatch
<1>4. SlotsMatch'
  BY DEF SlotsMatch, Slotted
<1>5. Permitted' = Permitted /\ Tracked' = Tracked
  BY DEF Permitted, Tracked
<1>6. Connections' <= PoolSize
  <2>1. SessionConnections' \subseteq SessionConnections
    BY DEF SessionConnections
  <2>2. SlotConnections' \subseteq SlotConnections
    BY DEF SlotConnections
  <2> QED BY <2>1, <2>2, FewerConnections
<1> QED BY <1>1, <1>2, <1>3, <1>4, <1>5, <1>6

(* A connection is taken only while the pool has one.                      *)
LEMMA Connected ==
    ASSUME HInv, NEW a \in Actors, Connect(a)
    PROVE  HInv'
<1> USE DEF HInv, HoldsType, ResourcesMatchPhases, Connect
<1>1. HoldsType'
  OBVIOUS
<1>2. PhasesByKind'
  BY DEF PhasesByKind
<1>3. LocksMatch'
  BY DEF LocksMatch
<1>4. SlotsMatch'
  BY DEF SlotsMatch, Slotted
<1>5. Permitted' = Permitted /\ Tracked' = Tracked
  BY DEF Permitted, Tracked
<1>6. Connections' <= PoolSize
  <2> DEFINE x == Cardinality(SessionConnections) x2 == Cardinality(SessionConnections')
             y == Cardinality(SlotConnections) y2 == Cardinality(SlotConnections')
  <2>1. x \in Nat /\ y \in Nat
    BY CountedAreFinite, FS_CardinalityType
  <2>2. CASE pc[a] = "queued"
    <3>1. SessionConnections' = SessionConnections \cup {a} /\ a \notin SessionConnections
      BY <2>2 DEF SessionConnections
    <3>2. x2 = x + 1
      BY <3>1, CountedAreFinite, FS_AddElement
    <3>3. \A k \in Slots : slot[k] # a
      BY <2>2 DEF SlotsMatch, Slotted, PhasesByKind
    <3>4. SlotConnections' = SlotConnections
      BY <3>3 DEF SlotConnections
    <3>5. y2 = y
      BY <3>4
    <3>6. x + y < PoolSize
      BY DEF Connections
    <3>7. x2 + y2 <= PoolSize
      <4> HIDE DEF x, x2, y, y2
      <4> QED BY <2>1, <3>2, <3>5, <3>6
    <3> QED BY <3>7 DEF Connections
  <2>3. CASE pc[a] = "slotted"
    <3>1. SessionConnections' = SessionConnections
      BY <2>3 DEF SessionConnections
    <3>2. a \in Calls
      BY <2>3 DEF PhasesByKind
    <3>3. PICK k \in Slots : slot[k] = a
      BY <2>3, <3>2 DEF SlotsMatch, Slotted, PhasesByKind
    <3>4. SlotConnections' = SlotConnections \cup {k} /\ k \notin SlotConnections
      BY <2>3, <3>3 DEF SlotConnections, SlotsMatch
    <3>5. y2 = y + 1
      BY <3>4, CountedAreFinite, FS_AddElement
    <3>6. x2 = x /\ x + y < PoolSize
      BY <3>1 DEF Connections
    <3>7. x2 + y2 <= PoolSize
      <4> HIDE DEF x, x2, y, y2
      <4> QED BY <2>1, <3>5, <3>6
    <3> QED BY <3>7 DEF Connections
  <2> QED BY <2>2, <2>3
<1> QED BY <1>1, <1>2, <1>3, <1>4, <1>5, <1>6

(* Listing takes nothing.                                                  *)
LEMMA Listed ==
    ASSUME HInv, saved \subseteq Sessions, NEW c \in Calls, ListNamespaces(c)
    PROVE  HInv'
<1> USE DEF HInv, HoldsType, ResourcesMatchPhases, ListNamespaces
<1>1. HoldsType'
  OBVIOUS
<1>2. PhasesByKind'
  BY DEF PhasesByKind
<1>3. LocksMatch'
  BY DEF LocksMatch
<1>4. SlotsMatch'
  BY DEF SlotsMatch, Slotted
<1>5. Permitted' = Permitted /\ Tracked' = Tracked
  BY DEF Permitted, Tracked
<1>6. SessionConnections' = SessionConnections /\ SlotConnections' = SlotConnections
  <2>1. SessionConnections' = SessionConnections
    BY DEF SessionConnections
  <2>2. SlotConnections' = SlotConnections
    BY DEF SlotConnections
  <2> QED BY <2>1, <2>2
<1> QED BY <1>1, <1>2, <1>3, <1>4, <1>5, <1>6 DEF Connections

(* A new session takes a slot nobody has, an old one needs none.           *)
LEMMA Reserved ==
    ASSUME HInv, NEW c \in Calls, ReserveCapacity(c)
    PROVE  HInv'
<1> USE DEF HInv, HoldsType, ResourcesMatchPhases
<1>1. ReserveCapacity(c) => pc[c] = "listed" /\ UNCHANGED <<lock, permits, active, seen>>
  BY DEF ReserveCapacity
<1>2. CASE Target[c] \in seen[c]
  <2>0. pc' = [pc EXCEPT ![c] = "reserved"] /\ slot' = slot
    BY <1>2 DEF ReserveCapacity
  <2>1. HoldsType' /\ PhasesByKind'
    BY <1>1, <2>0 DEF PhasesByKind
  <2>2. LocksMatch'
    BY <1>1, <2>0 DEF LocksMatch
  <2>3. SlotsMatch'
    BY <1>1, <1>2, <2>0 DEF SlotsMatch, Slotted
  <2>4. Permitted' = Permitted /\ Tracked' = Tracked
    BY <1>1, <2>0 DEF Permitted, Tracked
  <2>5. \A k \in Slots : slot[k] # c
    BY <1>1, <1>2 DEF SlotsMatch, Slotted
  <2>6. SessionConnections' \subseteq SessionConnections
        /\ SlotConnections' \subseteq SlotConnections
    BY <1>1, <2>0, <2>5 DEF SessionConnections, SlotConnections
  <2> QED BY <1>1, <2>1, <2>2, <2>3, <2>4, <2>6, FewerConnections
<1>3. CASE Target[c] \notin seen[c]
  <2>1. PICK k \in Slots : slot[k] = Nobody /\ slot' = [slot EXCEPT ![k] = c]
                            /\ pc' = [pc EXCEPT ![c] = "slotted"]
    BY <1>3 DEF ReserveCapacity, FreeSlots
  <2>2. HoldsType' /\ PhasesByKind'
    BY <1>1, <1>3, <2>1 DEF PhasesByKind
  <2>3. LocksMatch'
    BY <1>1, <2>1 DEF LocksMatch
  <2>4. \A j \in Slots : slot[j] # c
    BY <1>1 DEF SlotsMatch, Slotted
  <2>5. SlotsMatch'
    BY <1>1, <1>3, <2>1, <2>4 DEF SlotsMatch, Slotted
  <2>6. Permitted' = Permitted /\ Tracked' = Tracked
    BY <1>1, <2>1 DEF Permitted, Tracked
  <2>7. SessionConnections' \subseteq SessionConnections
    BY <1>1, <2>1 DEF SessionConnections
  <2>8. SlotConnections' \subseteq SlotConnections
    BY <1>1, <2>1, <2>4 DEF SlotConnections
  <2> QED BY <1>1, <2>2, <2>3, <2>5, <2>6, <2>7, <2>8, FewerConnections
<1> QED BY <1>2, <1>3

(* A permit is one more call that has one.                                 *)
LEMMA PermitTaken ==
    ASSUME HInv, NEW c \in Calls, TakePermit(c)
    PROVE  HInv'
<1> USE DEF HInv, HoldsType, ResourcesMatchPhases, TakePermit
<1>1. HoldsType'
  OBVIOUS
<1>2. PhasesByKind'
  BY DEF PhasesByKind
<1>3. LocksMatch'
  BY DEF LocksMatch
<1>4. SlotsMatch'
  BY DEF SlotsMatch, Slotted
<1>5. Permitted' = Permitted \cup {c} /\ c \notin Permitted /\ Tracked' = Tracked
  BY DEF Permitted, Tracked
<1>6. Cardinality(Permitted') = Cardinality(Permitted) + 1
  BY <1>5, CountedAreFinite, FS_AddElement
<1>7. SessionConnections' = SessionConnections /\ SlotConnections' = SlotConnections
  BY DEF SessionConnections, SlotConnections
<1> QED BY <1>1, <1>2, <1>3, <1>4, <1>5, <1>6, <1>7 DEF Connections

(* The session counts as active from here on.                              *)
LEMMA Invoked ==
    ASSUME HInv, NEW c \in Calls, Invoke(c)
    PROVE  HInv'
<1> USE DEF HInv, HoldsType, ResourcesMatchPhases, Invoke
<1>1. HoldsType'
  OBVIOUS
<1>2. PhasesByKind'
  BY DEF PhasesByKind
<1>3. LocksMatch'
  BY DEF LocksMatch
<1>4. SlotsMatch'
  BY DEF SlotsMatch, Slotted
<1>5. Permitted' = Permitted /\ Tracked' = Tracked \cup {c}
  BY DEF Permitted, Tracked
<1>6. SessionConnections' = SessionConnections /\ SlotConnections' = SlotConnections
  BY DEF SessionConnections, SlotConnections
<1> QED BY <1>1, <1>2, <1>3, <1>4, <1>5, <1>6 DEF Connections

(* A Run stops when nothing is held any more.                              *)
LEMMA StopsIdle ==
    ASSUME HInv, RunStops
    PROVE  HInv'
<1> USE DEF HInv, HoldsType, ResourcesMatchPhases, RunStops, Stopped
<1>0. \A a \in Actors : pc[a] \in Idle /\ pc'[a] \in Idle
  OBVIOUS
<1>1. HoldsType'
  OBVIOUS
<1>2. PhasesByKind'
  BY <1>0 DEF PhasesByKind
<1>3. LocksMatch'
  BY <1>0 DEF LocksMatch
<1>4. SlotsMatch'
  BY <1>0 DEF SlotsMatch, Slotted
<1>5. Permitted' = Permitted /\ Tracked' = Tracked
  BY <1>0 DEF Permitted, Tracked
<1>6. SessionConnections' = SessionConnections
  BY <1>0 DEF SessionConnections
<1>7. SlotConnections' = SlotConnections
  BY <1>0 DEF SlotConnections, SlotsMatch, Slotted
<1> QED BY <1>1, <1>2, <1>3, <1>4, <1>5, <1>6, <1>7 DEF Connections

(* A dead process holds nothing.                                           *)
LEMMA CrashReleases ==
    ASSUME HInv, Crash
    PROVE  HInv'
<1> USE DEF HInv, HoldsType, ResourcesMatchPhases, Crash, Stopped
<1>0. \A a \in Actors : pc'[a] \in Idle
  OBVIOUS
<1>1. HoldsType'
  OBVIOUS
<1>2. PhasesByKind'
  BY <1>0 DEF PhasesByKind
<1>3. LocksMatch'
  BY <1>0 DEF LocksMatch
<1>4. SlotsMatch'
  BY <1>0 DEF SlotsMatch, Slotted
<1>5. Permitted' = {} /\ Tracked' = {}
  BY <1>0 DEF Permitted, Tracked
<1>6. permits' = Cardinality(Permitted')
  BY <1>5, FS_EmptySet
<1>7. active' = {Target[c] : c \in Tracked}'
  BY <1>5
<1>8. Connections' <= PoolSize
  <2>1. SessionConnections' \subseteq SessionConnections
    BY <1>0 DEF SessionConnections
  <2>2. SlotConnections' \subseteq SlotConnections
    BY DEF SlotConnections
  <2> QED BY <2>1, <2>2, FewerConnections
<1> QED BY <1>1, <1>2, <1>3, <1>4, <1>6, <1>7, <1>8

(* Erasing a session changes the phase of the deletion only.               *)
LEMMA Erased ==
    ASSUME HInv, NEW d \in Deletions, Erase(d)
    PROVE  HInv'
<1> USE DEF HInv, HoldsType, ResourcesMatchPhases, Erase
<1>1. HoldsType'
  OBVIOUS
<1>2. PhasesByKind'
  BY DEF PhasesByKind
<1>3. LocksMatch'
  BY DEF LocksMatch
<1>4. SlotsMatch'
  BY DEF SlotsMatch, Slotted
<1>5. Permitted' = Permitted /\ Tracked' = Tracked
  BY DEF Permitted, Tracked
<1>6. SessionConnections' = SessionConnections /\ SlotConnections' = SlotConnections
  BY DEF SessionConnections, SlotConnections
<1> QED BY <1>1, <1>2, <1>3, <1>4, <1>5, <1>6 DEF Connections

(* The same phases and the same locks.                                     *)
LEMMA NothingHeldChanges ==
    ASSUME HInv, UNCHANGED <<pc, lockVars, seen>>
    PROVE  HInv'
BY DEF HInv, HoldsType, PhasesByKind, ResourcesMatchPhases, LocksMatch, SlotsMatch, Slotted,
       Permitted, Tracked, Connections, SessionConnections, SlotConnections

(* The steps that end a tool call, and those of the specialist.            *)
Ending(a) ==
    \/ Refuse(a) \/ ConnectTimesOut(a) \/ CancelEarly(a)
    \/ a \in Calls /\ (CapacityIsFull(a) \/ PermitsAreTaken(a) \/ Replay(a) \/ BuildFails(a)
                       \/ Leave(a))
    \/ a \in Deletions /\ DeletionEnds(a)

Running(c) ==
    \/ Built(c) \/ Completes(c) \/ Fails(c) \/ SaveResult(c) \/ Returns(c) \/ SaveFails(c)
    \/ SaveFailure(c) \/ CancelSpecialist(c) \/ CancelFailure(c)

LEMMA EndingReleases ==
    ASSUME HInv, NEW a \in Actors, Ending(a)
    PROVE  HInv'
<1>1. PICK i \in Idle : pc' = [pc EXCEPT ![a] = i] /\ Release(a) /\ seen' = seen
  BY DEF Ending, Refuse, ConnectTimesOut, CancelEarly, CapacityIsFull, PermitsAreTaken, Replay,
         BuildFails, Leave, DeletionEnds, Answer, Unwind
<1> QED BY <1>1, Released

LEMMA RunningGoesOn ==
    ASSUME HInv, NEW c \in Calls, Running(c)
    PROVE  HInv'
<1>1. PICK to \in InUse : pc' = [pc EXCEPT ![c] = to]
  BY DEF Running, Built, Completes, Fails, SaveResult, Returns, SaveFails, SaveFailure,
         CancelSpecialist, CancelFailure
<1>2. pc[c] \in InUse /\ UNCHANGED <<lockVars, seen>>
  BY DEF Running, Built, Completes, Fails, SaveResult, Returns, SaveFails, SaveFailure,
         CancelSpecialist, CancelFailure
<1> QED BY <1>1, <1>2, GoesOn

(* Every step is one of these.                                             *)
LEMMA StepCases ==
    ASSUME Next
    PROVE  \/ \E a \in Actors : Start(a) \/ Connect(a) \/ Ending(a) \/ Keep(a)
           \/ \E c \in Calls : ListNamespaces(c) \/ ReserveCapacity(c) \/ TakePermit(c)
                              \/ Invoke(c) \/ FirstCheckpoint(c) \/ Running(c)
           \/ \E d \in Deletions : Erase(d)
           \/ Cancel \/ RunStops \/ Crash \/ Resume
BY DEF Next, Work, Cancelled, LockStep, CapacityStep, SpecialistStep, Ending, Running

LEMMA HoldsStep ==
    ASSUME HInv, saved \subseteq Sessions, [Next]_vars
    PROVE  HInv'
<1>1. CASE UNCHANGED vars
  BY <1>1, NothingHeldChanges DEF vars
<1>2. CASE Next
  <2>1. ASSUME NEW a \in Actors, Keep(a) PROVE HInv'
    BY <2>1, NothingHeldChanges DEF Keep
  <2>2. ASSUME NEW c \in Calls, FirstCheckpoint(c) PROVE HInv'
    BY <2>2, NothingHeldChanges DEF FirstCheckpoint
  <2>3. ASSUME Cancel \/ Resume PROVE HInv'
    BY <2>3, NothingHeldChanges DEF Cancel, Resume
  <2> QED
    BY <1>2, <2>1, <2>2, <2>3, StepCases, Locked, Connected, EndingReleases, Listed, Reserved,
       PermitTaken, Invoked, RunningGoesOn, Erased, StopsIdle, CrashReleases
<1> QED BY <1>1, <1>2

-----------------------------------------------------------------------------
(* The part of the invariant that is about answers and checkpoints.        *)

DataType ==
    /\ planner \in {"running", "cancelling", "stopped"}
    /\ outcome \in [Actors -> Outcomes] /\ kept \subseteq Actors
    /\ saved \subseteq Sessions /\ record \in [Calls -> Records] /\ finished \subseteq Calls
    /\ crashes \in 0 .. MaxCrashes /\ cancels \in 0 .. MaxCancels /\ faults \in 0 .. MaxFaults

DInv == DataType /\ permits <= MaxParallel /\ ListedSessionsStay /\ OutcomesMatch /\ ResultsStay

LEMMA InvariantParts == SInv <=> HInv /\ DInv
<1>1. TypeOK <=> HoldsType /\ DataType /\ permits <= MaxParallel
  BY DEF TypeOK, HoldsType, DataType
<1> QED BY <1>1 DEF SInv, HInv, DInv

(* Two tool calls never work in one session.                               *)
LEMMA OneAtWork ==
    ASSUME HInv, NEW a \in Actors, NEW b \in Actors, Target[a] = Target[b],
           pc[a] \notin Idle, pc[b] \notin Idle
    PROVE  a = b
BY DEF HInv, ResourcesMatchPhases, LocksMatch

(* Steps before there is anything to save.                                 *)
Preparing(a) ==
    \/ Start(a) \/ Connect(a)
    \/ a \in Calls /\ (ListNamespaces(a) \/ ReserveCapacity(a) \/ TakePermit(a) \/ Invoke(a)
                       \/ Built(a) \/ Completes(a) \/ Fails(a))

LEMMA PreparingData ==
    ASSUME HInv, DInv, NEW a \in Actors, Preparing(a)
    PROVE  DInv'
<1> USE DEF HInv, HoldsType, DInv
<1> DEFINE Before == {"issued", "queued", "locked", "listed", "slotted", "reserved", "permitted",
                      "building", "running"}
<1>1. /\ pc[a] \in Before
      /\ \E to \in Before \cup {"saving", "failing"} : pc' = [pc EXCEPT ![a] = to]
      /\ UNCHANGED <<planner, outcome, kept, storeVars, boundVars>>
  BY DEF Preparing, Start, Connect, ListNamespaces, ReserveCapacity, TakePermit, Invoke, Built,
         Completes, Fails
<1>2. DataType' /\ OutcomesMatch'
  BY <1>1 DEF DataType, OutcomesMatch
<1>3. permits' <= MaxParallel
  BY DEF Preparing, Start, Connect, ListNamespaces, ReserveCapacity, TakePermit, Invoke, Built,
         Completes, Fails
<1>4. ListedSessionsStay'
  <2>1. CASE a \in Calls /\ ListNamespaces(a)
    BY <2>1 DEF ListNamespaces, ListedSessionsStay
  <2>2. CASE ~(a \in Calls /\ ListNamespaces(a))
    <3>1. seen' = seen /\ (pc[a] \in Idle \cup {"queued", "locked"} => pc'[a] \in {"queued", "locked"})
      BY <2>2 DEF Preparing, Start, Connect, ReserveCapacity, TakePermit, Invoke, Built, Completes,
                  Fails
    <3> QED BY <1>1, <3>1 DEF ListedSessionsStay
  <2> QED BY <2>1, <2>2
<1>5. ResultsStay'
  <2>1. a \in Calls /\ pc'[a] \in {"building", "running"} => ~HasResult(a)
    BY <1>1 DEF Preparing, Start, Connect, ListNamespaces, ReserveCapacity, TakePermit, Invoke,
                Built, Completes, Fails, ResultsStay
  <2> QED BY <1>1, <2>1 DEF ResultsStay, HasResult
<1> QED BY <1>2, <1>3, <1>4, <1>5

(* An answer ends the call, and says what the checkpoint says.             *)
LEMMA EndingData ==
    ASSUME HInv, DInv, NEW a \in Actors, Ending(a)
    PROVE  DInv'
<1> USE DEF HInv, HoldsType, DInv
<1>1. /\ UNCHANGED <<planner, kept, seen, storeVars, boundVars>> /\ permits' <= permits
      /\ \E r \in Outcomes : outcome' = [outcome EXCEPT ![a] = r]
      /\ \E i \in Idle : pc' = [pc EXCEPT ![a] = i]
  <2>1. ASSUME NEW r \in Outcomes, Answer(a, r)
        PROVE  /\ permits' <= permits /\ outcome' = [outcome EXCEPT ![a] = r]
               /\ pc' = [pc EXCEPT ![a] = "answered"]
    BY <2>1 DEF Answer, Release
  <2>2. Unwind(a) => permits' <= permits /\ pc' = [pc EXCEPT ![a] = "issued"]
    BY DEF Unwind, Release
  <2>3. CASE CancelEarly(a)
    BY <2>2, <2>3 DEF CancelEarly
  <2>4. CASE ~CancelEarly(a)
    <3>1. a \in Calls /\ HasResult(a) => record[a] \in Outcomes
      BY DEF HasResult
    <3>2. a \in Calls => outcome[a] \in Outcomes
      BY DEF DataType
    <3>3. \E r \in Outcomes : Answer(a, r)
      BY <2>4, <3>1, <3>2 DEF Ending, Refuse, ConnectTimesOut, CapacityIsFull, PermitsAreTaken,
         Replay, BuildFails, Leave, DeletionEnds
    <3>4. UNCHANGED <<planner, kept, seen, storeVars, boundVars>>
      BY <2>4 DEF Ending, Refuse, ConnectTimesOut, CapacityIsFull, PermitsAreTaken,
         Replay, BuildFails, Leave, DeletionEnds
    <3> QED BY <2>1, <3>3, <3>4
  <2> QED BY <2>3, <2>4
<1>2. \/ pc'[a] = "answered"
      \/ outcome'[a] = "none"
  BY DEF Ending, Refuse, ConnectTimesOut, CancelEarly, CapacityIsFull, PermitsAreTaken, Replay,
         BuildFails, Leave, DeletionEnds, Answer, DataType
<1>3. a \in Calls /\ outcome'[a] = "completed" => record[a] \in {"completed", "none"}
  <2>1. CASE a \in Calls /\ Replay(a)
    BY <2>1 DEF Replay, Answer, DataType
  <2>2. CASE a \in Calls /\ Leave(a)
    BY <2>2 DEF Leave, Answer, DataType, OutcomesMatch
  <2>3. CASE ~(a \in Calls /\ (Replay(a) \/ Leave(a)))
    BY <2>3 DEF Ending, Refuse, ConnectTimesOut, CancelEarly, CapacityIsFull, PermitsAreTaken,
                BuildFails, DeletionEnds, Answer, DataType
  <2> QED BY <2>1, <2>2, <2>3
<1>4. DataType' /\ permits' <= MaxParallel
  <2>1. DataType'
    BY <1>1 DEF DataType
  <2>2. permits' \in Nat
    BY EndingReleases
  <2> QED BY <1>1, <2>1, <2>2
<1>5. OutcomesMatch'
  BY <1>1, <1>2, <1>3 DEF OutcomesMatch, DataType
<1>6. ListedSessionsStay'
  BY <1>1 DEF ListedSessionsStay
<1>7. ResultsStay'
  BY <1>1 DEF ResultsStay, HasResult
<1> QED BY <1>4, <1>5, <1>6, <1>7

(* What a step of a running specialist writes: nothing, or its own record. *)
Writes(c, r) == Save(c, r) \/ UNCHANGED storeVars

(* Every step of a specialist that saves is covered by its result.         *)
LEMMA RunningData ==
    ASSUME HInv, DInv, NEW c \in Calls, Running(c) \/ FirstCheckpoint(c)
    PROVE  DInv'
<1> USE DEF HInv, HoldsType, DInv
<1>1. /\ UNCHANGED <<planner, kept, permits, seen, crashes, cancels>>
      /\ faults' \in 0 .. MaxFaults /\ pc[c] \in InUse
      /\ \E to \in InUse : pc' = [pc EXCEPT ![c] = to]
      /\ \E r \in Outcomes : outcome' = [outcome EXCEPT ![c] = r]
      /\ \E r \in Records : Writes(c, r)
  <2>1. pc[c] \in InUse /\ \E to \in InUse : pc' = [pc EXCEPT ![c] = to]
    BY DEF Running, FirstCheckpoint, Built, Completes, Fails, SaveResult, Returns, SaveFails,
           SaveFailure, CancelSpecialist, CancelFailure
  <2>2. UNCHANGED <<planner, kept, permits, seen, crashes, cancels>> /\ faults' \in 0 .. MaxFaults
    BY DEF Running, FirstCheckpoint, Built, Completes, Fails, SaveResult, Returns, SaveFails,
           SaveFailure, CancelSpecialist, CancelFailure, DataType
  <2>3. \E r \in Outcomes : outcome' = [outcome EXCEPT ![c] = r]
    BY DEF Running, FirstCheckpoint, Built, Completes, Fails, SaveResult, Returns, SaveFails,
           SaveFailure, CancelSpecialist, CancelFailure, DataType
  <2>4. \E r \in Records : Writes(c, r)
    BY DEF Running, FirstCheckpoint, Built, Completes, Fails, SaveResult, Returns, SaveFails,
           SaveFailure, CancelSpecialist, CancelFailure, Writes
  <2> QED BY <2>1, <2>2, <2>3, <2>4
<1>2. DataType'
  BY <1>1 DEF DataType, Writes, Save
<1>3. ListedSessionsStay'
  BY <1>1 DEF ListedSessionsStay, Writes, Save
<1>4. OutcomesMatch'
  <2>1. pc'[c] # "leaving" => outcome'[c] = "none"
    BY DEF Running, FirstCheckpoint, Built, Completes, Fails, SaveResult, Returns, SaveFails,
           SaveFailure, CancelSpecialist, CancelFailure, DataType, OutcomesMatch
  <2>2. pc'[c] = "committed" \/ outcome'[c] = "completed" => record'[c] = "completed"
    BY DEF Running, FirstCheckpoint, Built, Completes, Fails, SaveResult, Returns, SaveFails,
           SaveFailure, CancelSpecialist, CancelFailure, DataType, OutcomesMatch, Save
  <2> QED BY <1>1, <2>1, <2>2 DEF OutcomesMatch, Writes, Save, DataType
<1>5. ResultsStay'
  <2>1. pc'[c] \in {"building", "running"} => ~HasResult(c)'
    BY DEF Running, FirstCheckpoint, Built, Completes, Fails, SaveResult, Returns, SaveFails,
           SaveFailure, CancelSpecialist, CancelFailure, DataType, ResultsStay, Save, HasResult
  <2>2. cancels = 0 => (c \in finished' => HasResult(c)')
    BY DEF Running, FirstCheckpoint, Built, Completes, Fails, SaveResult, Returns, SaveFails,
           SaveFailure, CancelSpecialist, CancelFailure, DataType, ResultsStay, Save, HasResult
  <2> QED BY <1>1, <2>1, <2>2 DEF ResultsStay, HasResult, Writes, Save, DataType
<1> QED BY <1>1, <1>2, <1>3, <1>4, <1>5

(* No delegation is at work in the session that is erased.                 *)
LEMMA ErasedSessionIsIdle ==
    ASSUME HInv, NEW d \in Deletions, Erase(d), NEW c \in Calls, Target[c] = Target[d]
    PROVE  pc[c] \in Idle
BY OneAtWork DEF Erase, HInv, HoldsType

LEMMA ErasedData ==
    ASSUME HInv, DInv, NEW d \in Deletions, Erase(d)
    PROVE  DInv'
<1> USE DEF HInv, HoldsType, DInv, Erase
<1>1. DataType' /\ permits' <= MaxParallel
  BY DEF DataType
<1>2. ListedSessionsStay'
  BY ErasedSessionIsIdle DEF ListedSessionsStay
<1>3. OutcomesMatch'
  BY ErasedSessionIsIdle DEF OutcomesMatch, DataType
<1>4. ResultsStay'
  BY ErasedSessionIsIdle DEF ResultsStay, HasResult, DataType
<1> QED BY <1>1, <1>2, <1>3, <1>4

(* Answers that were not kept are forgotten together with their outcome.   *)
LEMMA StoppedData ==
    ASSUME HInv, DInv, RunStops \/ Crash
    PROVE  DInv'
<1> USE DEF HInv, HoldsType, DInv
<1>1. PICK lost \in SUBSET Actors :
          /\ Stopped(lost) /\ UNCHANGED <<kept, seen, storeVars, cancels, faults>>
          /\ \A a \in Actors \ lost : pc[a] \in Idle
  BY DEF RunStops, Crash, Unkept
<1>2. DataType' /\ permits' <= MaxParallel
  <2>1. crashes' \in 0 .. MaxCrashes /\ permits' <= MaxParallel
    BY DEF RunStops, Crash, DataType
  <2> QED BY <1>1, <2>1 DEF DataType, Stopped
<1>3. ListedSessionsStay'
  BY <1>1 DEF ListedSessionsStay, Stopped
<1>4. OutcomesMatch'
  BY <1>1 DEF OutcomesMatch, Stopped, DataType
<1>5. ResultsStay'
  BY <1>1 DEF ResultsStay, HasResult, Stopped
<1> QED BY <1>2, <1>3, <1>4, <1>5

LEMMA OtherData ==
    ASSUME DInv, Cancel \/ Resume \/ (\E a \in Actors : Keep(a)) \/ UNCHANGED vars
    PROVE  DInv'
<1> USE DEF DInv
<1>1. UNCHANGED <<pc, outcome, lockVars, seen, storeVars>>
  BY DEF Cancel, Resume, Keep, vars
<1>2. DataType'
  BY DEF Cancel, Resume, Keep, vars, DataType
<1>3. ListedSessionsStay' /\ OutcomesMatch' /\ permits' <= MaxParallel
  BY <1>1 DEF ListedSessionsStay, OutcomesMatch
<1>4. ResultsStay'
  BY <1>1 DEF ResultsStay, HasResult, Cancel, Resume, Keep, vars, DataType
<1> QED BY <1>2, <1>3, <1>4

LEMMA DataStep ==
    ASSUME HInv, DInv, [Next]_vars
    PROVE  DInv'
BY StepCases, PreparingData, EndingData, RunningData, ErasedData, StoppedData, OtherData
DEF Preparing

-----------------------------------------------------------------------------
(* The theorems.                                                           *)

LEMMA InitHolds == Init => SInv
<1> SUFFICES ASSUME Init PROVE SInv
  OBVIOUS
<1> USE DEF Init
<1>1. HoldsType
  BY DEF HoldsType
<1>2. DataType /\ permits <= MaxParallel
  BY DEF DataType
<1>3. PhasesByKind /\ LocksMatch /\ SlotsMatch
  BY DEF PhasesByKind, LocksMatch, SlotsMatch, Slotted
<1>4. Permitted = {} /\ Tracked = {} /\ SessionConnections = {} /\ SlotConnections = {}
  BY DEF Permitted, Tracked, SessionConnections, SlotConnections
<1>5. permits = Cardinality(Permitted) /\ Connections <= PoolSize
  BY <1>4, FS_EmptySet DEF Connections
<1>6. active = {Target[c] : c \in Tracked}
  BY <1>4
<1>7. ListedSessionsStay /\ OutcomesMatch /\ ResultsStay
  BY DEF ListedSessionsStay, OutcomesMatch, ResultsStay
<1> QED
  BY <1>1, <1>2, <1>3, <1>5, <1>6, <1>7, InvariantParts DEF HInv, DInv, ResourcesMatchPhases

(* The invariant holds in every reachable state.                           *)
THEOREM Inductive == Spec => []SInv
<1>1. SInv /\ [Next]_vars => SInv'
  <2> SUFFICES ASSUME SInv, [Next]_vars PROVE SInv'
    OBVIOUS
  <2>1. HInv /\ DInv
    BY InvariantParts
  <2>2. HInv' /\ DInv'
    BY <2>1, HoldsStep, DataStep DEF DInv, DataType
  <2>3. (HInv /\ DInv)' => SInv'
    BY InvariantParts, PTL
  <2> QED BY <2>2, <2>3
<1> QED BY <1>1, InitHolds, PTL DEF Spec

(* Every variable keeps its type.                                          *)
THEOREM TypeCorrect == Spec => []TypeOK
BY Inductive, PTL DEF SInv

(* Locks, slots, permits, activity entries and connections are held just   *)
(* while a tool call needs them.                                           *)
THEOREM ResourcesAreGivenBack == Spec => []ResourcesMatchPhases
BY Inductive, PTL DEF SInv

(* A completed answer is in the session's checkpoint or was deleted there. *)
THEOREM AnswersStayDurable == Spec => []AnswersAreDurable
<1>1. SInv => AnswersAreDurable
  BY DEF SInv, OutcomesMatch, AnswersAreDurable
<1> QED BY <1>1, Inductive, PTL

(* What the steps that change the sessions' checkpoints are.               *)
LEMMA SavedChanges ==
    ASSUME SInv, [Next]_vars
    PROVE  \/ saved' = saved
           \/ \E c \in Calls : pc[c] \in InUse /\ saved' = saved \cup {Target[c]}
           \/ \E d \in Deletions : Erase(d) /\ saved' = saved \ {Target[d]}
<1>1. ASSUME NEW c \in Calls, Running(c) \/ FirstCheckpoint(c)
      PROVE  saved' = saved \/ (pc[c] \in InUse /\ saved' = saved \cup {Target[c]})
  BY <1>1 DEF Running, FirstCheckpoint, Built, Completes, Fails, SaveResult, Returns, SaveFails,
              SaveFailure, CancelSpecialist, CancelFailure, Save
<1>2. ASSUME NEW a \in Actors, Start(a) \/ Connect(a) \/ Ending(a) \/ Keep(a)
      PROVE  saved' = saved
  BY <1>2 DEF Start, Connect, Keep, Ending, Refuse, ConnectTimesOut, CancelEarly, CapacityIsFull,
              PermitsAreTaken, Replay, BuildFails, Leave, DeletionEnds
<1>3. ASSUME NEW c \in Calls, ListNamespaces(c) \/ ReserveCapacity(c) \/ TakePermit(c) \/ Invoke(c)
      PROVE  saved' = saved
  BY <1>3 DEF ListNamespaces, ReserveCapacity, TakePermit, Invoke
<1>4. ASSUME Cancel \/ RunStops \/ Crash \/ Resume \/ UNCHANGED vars PROVE saved' = saved
  BY <1>4 DEF Cancel, RunStops, Crash, Resume, vars
<1>5. ASSUME NEW d \in Deletions, Erase(d) PROVE saved' = saved \ {Target[d]}
  BY <1>5 DEF Erase
<1> QED BY <1>1, <1>2, <1>3, <1>4, <1>5, StepCases

(* A session comes into being only under a slot of a call that works in it.*)
THEOREM NewSessionsAreReserved == Spec => NewSessionsHoldSlots
<1> DEFINE Step == \A s \in saved' \ saved : \E k \in Slots : slot[k] # Nobody /\ Target[slot[k]] = s
<1>1. SInv /\ [Next]_vars => [Step]_vars
  <2> SUFFICES ASSUME SInv, [Next]_vars, NEW s \in saved' \ saved
               PROVE  \E k \in Slots : slot[k] # Nobody /\ Target[slot[k]] = s
    OBVIOUS
  <2>1. PICK c \in Calls : pc[c] \in InUse /\ saved' = saved \cup {Target[c]}
    BY SavedChanges
  <2>2. s = Target[c] /\ Target[c] \notin saved
    BY <2>1
  <2>3. Slotted(c)
    BY <2>1, <2>2 DEF SInv, ListedSessionsStay, Slotted
  <2>4. PICK k \in Slots : slot[k] = c
    BY <2>3 DEF SInv, ResourcesMatchPhases, SlotsMatch
  <2> QED BY <2>2, <2>4
<1> QED BY <1>1, Inductive, PTL DEF Spec, NewSessionsHoldSlots

(* A session is deleted only while no delegation works in it.              *)
THEOREM DeletionSparesDelegations == Spec => DeletionSparesWork
<1> DEFINE Step == \A s \in saved \ saved' : \A c \in Calls : Target[c] = s => pc[c] \in Idle
<1>1. SInv /\ [Next]_vars => [Step]_vars
  <2> SUFFICES ASSUME SInv, [Next]_vars, NEW s \in saved \ saved', NEW c \in Calls, Target[c] = s
               PROVE  pc[c] \in Idle
    OBVIOUS
  <2>1. PICK d \in Deletions : Erase(d) /\ saved' = saved \ {Target[d]}
    BY SavedChanges
  <2>2. HInv
    BY InvariantParts
  <2> QED BY <2>1, <2>2, ErasedSessionIsIdle
<1> QED BY <1>1, Inductive, PTL DEF Spec, DeletionSparesWork

(* As long as nothing was cancelled, recorded work is not done again.      *)
THEOREM ResultsAreReused == Spec => UncancelledResultsAreReused
<1> DEFINE Step == cancels = 0 => \A c \in finished : pc[c] # "building" => pc'[c] # "building"
<1>1. SInv /\ [Next]_vars => [Step]_vars
  <2> SUFFICES ASSUME SInv, [Next]_vars, cancels = 0, NEW c \in finished,
                      pc[c] # "building", pc'[c] = "building"
               PROVE  FALSE
    OBVIOUS
  <2>1. c \in Calls /\ HasResult(c)
    BY DEF SInv, TypeOK, ResultsStay
  <2>2. HInv' /\ HInv /\ saved \subseteq Sessions
    BY InvariantParts, HoldsStep DEF DInv, DataType
  <2>3. ~Invoke(c)
    BY <2>1 DEF Invoke
  <2>4. ASSUME NEW x \in Actors, Start(x) \/ Connect(x) \/ Ending(x) \/ Keep(x) PROVE FALSE
    BY <2>1, <2>2, <2>4 DEF HInv, HoldsType, Start, Connect, Keep, Ending, Refuse, ConnectTimesOut,
       CancelEarly, CapacityIsFull, PermitsAreTaken, Replay, BuildFails, Leave, DeletionEnds, Answer,
       Unwind
  <2>5. ASSUME NEW x \in Calls, ListNamespaces(x) \/ ReserveCapacity(x) \/ TakePermit(x)
               \/ Invoke(x) \/ FirstCheckpoint(x) \/ Running(x)
        PROVE  FALSE
    BY <2>1, <2>2, <2>3, <2>5 DEF HInv, HoldsType, ListNamespaces, ReserveCapacity, TakePermit, Invoke,
       FirstCheckpoint, Running, Built, Completes, Fails, SaveResult, Returns, SaveFails,
       SaveFailure, CancelSpecialist, CancelFailure
  <2>6. ASSUME NEW d \in Deletions, Erase(d) PROVE FALSE
    BY <2>1, <2>2, <2>6 DEF HInv, HoldsType, Erase
  <2>7. ASSUME Cancel \/ RunStops \/ Crash \/ Resume \/ UNCHANGED vars PROVE FALSE
    BY <2>1, <2>2, <2>7 DEF HInv, HoldsType, Cancel, RunStops, Crash, Resume, Stopped, vars
  <2> QED BY <2>4, <2>5, <2>6, <2>7, StepCases
<1> QED BY <1>1, Inductive, PTL DEF Spec, UncancelledResultsAreReused

-----------------------------------------------------------------------------
(* Every step of a tool call brings it closer to its answer.               *)

(* The most steps of its own that a tool call has left in its phase.       *)
Remaining(a) ==
    CASE pc[a] \in {"leaving", "erased"} -> 1
      [] pc[a] = "failing" -> 2
      [] pc[a] = "committed" -> 3
      [] pc[a] = "saving" -> 4
      [] pc[a] = "running" /\ record[a] = "running" -> 5
      [] pc[a] = "running" /\ record[a] # "running" -> 6
      [] pc[a] = "building" -> 7
      [] pc[a] = "permitted" -> 8
      [] pc[a] = "reserved" -> 9
      [] pc[a] = "slotted" -> 10
      [] pc[a] = "listed" -> 11
      [] pc[a] = "locked" -> 12
      [] pc[a] = "queued" -> 13
      [] OTHER -> 0

(* No step of another call, of the Run or of a crash sets a call back, and *)
(* each step of its own, also that of an error or a cancellation, brings it*)
(* closer to its end: nothing is tried again within one tool call.         *)
CallsComeCloser ==
    [][\A a \in Actors : pc[a] \notin Idle =>
          /\ Remaining(a)' <= Remaining(a)
          /\ Work(a) \/ Cancelled(a) => Remaining(a)' < Remaining(a)]_vars

(* A Run that stopped left no tool call behind: nobody has to resume it    *)
(* for the calls that were under way to end.                               *)
StoppedRunsAreIdle == planner = "stopped" => \A a \in Actors : pc[a] \in Idle

(* A tool call has steps left just while it is under way.                  *)
LEMMA StepsLeft ==
    ASSUME HInv, NEW a \in Actors
    PROVE  Remaining(a) \in 0 .. 13 /\ (Remaining(a) = 0 <=> pc[a] \in Idle)
<1>1. pc[a] \in Phases
  BY DEF HInv, HoldsType
<1> QED BY <1>1 DEF Remaining

(* What the steps of one call do to its own phase.                         *)
LEMMA OwnStep ==
    ASSUME SInv, HInv, HInv', NEW a \in Actors, pc[a] \notin Idle, Work(a) \/ Cancelled(a)
    PROVE  Remaining(a)' < Remaining(a)
<1>0. Remaining(a) \in 1 .. 13
  BY StepsLeft
<1> USE DEF HInv, HoldsType
<1>1. pc[a] \in Phases /\ pc'[a] \in Phases
  OBVIOUS
<1>2. \/ Connect(a) \/ Ending(a)
      \/ a \in Calls /\ (\/ ListNamespaces(a) \/ ReserveCapacity(a) \/ TakePermit(a) \/ Invoke(a)
                         \/ FirstCheckpoint(a) \/ Running(a))
      \/ Erase(a)
  BY DEF Work, Cancelled, LockStep, CapacityStep, SpecialistStep, Ending, Running, Start
<1>3. CASE Ending(a)
  <2>1. pc'[a] \in Idle
    BY <1>3 DEF Ending, Refuse, ConnectTimesOut, CancelEarly, CapacityIsFull, PermitsAreTaken,
                Replay, BuildFails, Leave, DeletionEnds, Answer, Unwind
  <2>2. Remaining(a)' = 0
    BY <2>1 DEF Remaining
  <2> QED BY <1>0, <2>2
<1>4. CASE Connect(a) \/ Erase(a)
  BY <1>1, <1>4 DEF Connect, Erase, Remaining
<1>5. CASE a \in Calls /\ (ListNamespaces(a) \/ ReserveCapacity(a) \/ TakePermit(a) \/ Invoke(a))
  <2>1. CASE ListNamespaces(a) \/ TakePermit(a)
    BY <1>1, <2>1 DEF ListNamespaces, TakePermit, Remaining
  <2>2. CASE ReserveCapacity(a)
    <3>1. pc[a] = "listed" /\ pc'[a] \in {"slotted", "reserved"}
      BY <2>2 DEF ReserveCapacity
    <3> QED BY <3>1 DEF Remaining
  <2>3. CASE Invoke(a)
    BY <1>1, <2>3 DEF Invoke, Remaining
  <2> QED BY <1>5, <2>1, <2>2, <2>3
<1>6. CASE a \in Calls /\ FirstCheckpoint(a)
  <2>1. pc[a] = "running" /\ pc'[a] = "running" /\ record[a] # "running"
    BY <1>6 DEF FirstCheckpoint
  <2>2. Remaining(a) = 6
    BY <2>1 DEF Remaining
  <2>3. CASE record'[a] = "running"
    BY <2>1, <2>2, <2>3 DEF Remaining
  <2>4. record \in [Calls -> Records]
    BY DEF SInv, TypeOK
  <2> QED BY <1>6, <2>3, <2>4 DEF FirstCheckpoint, Save
<1>7. CASE a \in Calls /\ Running(a)
  <2>1. \/ pc[a] = "building" /\ pc'[a] = "running"
        \/ pc[a] = "running" /\ pc'[a] \in {"saving", "failing", "leaving"}
        \/ pc[a] = "saving" /\ pc'[a] \in {"committed", "failing", "leaving"}
        \/ pc[a] = "committed" /\ pc'[a] \in {"failing", "leaving"}
        \/ pc[a] = "failing" /\ pc'[a] = "leaving"
    BY <1>7 DEF Running, Built, Completes, Fails, SaveResult, Returns, SaveFails, SaveFailure,
                CancelSpecialist, CancelFailure
  <2> QED BY <2>1 DEF Remaining
<1> QED BY <1>2, <1>3, <1>4, <1>5, <1>6, <1>7

(* The steps of others leave a call where it is, or end it with a crash.   *)
LEMMA OthersSteps ==
    ASSUME SInv, HInv, HInv', [Next]_vars, NEW a \in Actors, pc[a] \notin Idle,
           ~Work(a), ~Cancelled(a)
    PROVE  Remaining(a)' <= Remaining(a)
<1>0. Remaining(a) \in 1 .. 13
  BY StepsLeft
<1> USE DEF HInv, HoldsType
<1>1. record \in [Calls -> Records]
  BY DEF SInv, TypeOK
<1>2. CASE pc'[a] = "issued"
  BY <1>0, <1>2 DEF Remaining
<1>3. SUFFICES pc'[a] = "issued" \/ (pc'[a] = pc[a] /\ (pc[a] = "running" => record'[a] = record[a]))
  <2>1. ASSUME pc'[a] = pc[a], pc[a] = "running" => record'[a] = record[a]
        PROVE  Remaining(a)' = Remaining(a)
    BY <2>1 DEF Remaining
  <2> QED BY <1>0, <1>2, <1>3, <2>1
<1>4. CASE UNCHANGED vars
  BY <1>4 DEF vars
<1>5. CASE Cancel \/ RunStops \/ Crash \/ Resume
  BY <1>5 DEF Cancel, RunStops, Crash, Resume, Stopped
<1>6. ASSUME NEW b \in Actors, Keep(b) PROVE UNCHANGED <<pc, record>>
  BY <1>6 DEF Keep
<1>7. ASSUME NEW b \in Actors, b # a, Work(b) \/ Cancelled(b)
      PROVE  pc'[a] = pc[a] /\ (pc[a] = "running" => record'[a] = record[a])
  <2>1. CASE Start(b) \/ Connect(b) \/ Ending(b)
    <3>1. (\E p \in Phases : pc' = [pc EXCEPT ![b] = p]) /\ record' = record
      BY <2>1 DEF Start, Connect, Ending, Refuse, ConnectTimesOut, CancelEarly, CapacityIsFull,
         PermitsAreTaken, Replay, BuildFails, Leave, DeletionEnds, Answer, Unwind
    <3> QED BY <1>7, <3>1
  <2>2. CASE b \in Calls /\ (\/ ListNamespaces(b) \/ ReserveCapacity(b) \/ TakePermit(b)
                             \/ Invoke(b) \/ FirstCheckpoint(b) \/ Running(b))
    <3>1. pc' = pc \/ (\E p \in Phases : pc' = [pc EXCEPT ![b] = p])
      BY <2>2 DEF ListNamespaces, ReserveCapacity, TakePermit, Invoke, FirstCheckpoint, Running, Built,
         Completes, Fails, SaveResult, Returns, SaveFails, SaveFailure, CancelSpecialist, CancelFailure
    <3>2. record' = record \/ (\E r \in Records : record' = [record EXCEPT ![b] = r])
      BY <2>2 DEF ListNamespaces, ReserveCapacity, TakePermit, Invoke, FirstCheckpoint, Running, Built,
         Completes, Fails, SaveResult, Returns, SaveFails, SaveFailure, CancelSpecialist, CancelFailure,
         Save
    <3>3. pc[a] = "running" => a \in Calls
      BY DEF PhasesByKind
    <3> QED BY <1>1, <1>7, <3>1, <3>2, <3>3
  <2>3. CASE b \in Deletions /\ Erase(b)
    <3>1. pc'[a] = pc[a]
      BY <1>7, <2>3 DEF Erase
    <3>2. ASSUME pc[a] = "running" PROVE record'[a] = record[a]
      <4>1. a \in Calls
        BY <3>2 DEF PhasesByKind
      <4>2. Target[a] # Target[b]
        BY <2>3, <4>1, ErasedSessionIsIdle
      <4> QED BY <2>3, <4>1, <4>2, <1>1 DEF Erase
    <3> QED BY <3>1, <3>2
  <2> QED
    BY <1>7, <2>1, <2>2, <2>3 DEF Work, Cancelled, LockStep, CapacityStep, SpecialistStep, Ending, Running
<1> QED BY <1>4, <1>5, <1>6, <1>7 DEF Next

(* Within one tool call nothing goes on for ever: whatever fails, each of  *)
(* its steps is one of at most thirteen, and no other call, no Run and no  *)
(* crash takes it back to an earlier phase.                                *)
THEOREM CallsDoNotFallBack == Spec => CallsComeCloser
<1> DEFINE Step == \A a \in Actors : pc[a] \notin Idle =>
                      /\ Remaining(a)' <= Remaining(a)
                      /\ Work(a) \/ Cancelled(a) => Remaining(a)' < Remaining(a)
<1>1. SInv /\ [Next]_vars => [Step]_vars
  <2> SUFFICES ASSUME SInv, [Next]_vars, NEW a \in Actors, pc[a] \notin Idle
               PROVE  /\ Remaining(a)' <= Remaining(a)
                      /\ Work(a) \/ Cancelled(a) => Remaining(a)' < Remaining(a)
    OBVIOUS
  <2>1. HInv
    BY InvariantParts
  <2>2. HInv'
    BY <2>1, HoldsStep DEF SInv, TypeOK
  <2>3. Remaining(a) \in 0 .. 13
    BY <2>1, StepsLeft
  <2>4. pc'[a] \in Phases
    BY <2>2 DEF HInv, HoldsType
  <2>5. Remaining(a)' \in 0 .. 13
    BY <2>4 DEF Remaining
  <2>6. CASE Work(a) \/ Cancelled(a)
    BY <2>1, <2>2, <2>3, <2>5, <2>6, OwnStep
  <2>7. CASE ~Work(a) /\ ~Cancelled(a)
    BY <2>1, <2>2, <2>7, OthersSteps
  <2> QED BY <2>6, <2>7
<1> QED BY <1>1, Inductive, PTL DEF Spec, CallsComeCloser

(* When the Run has stopped, no tool call is under way.                    *)
THEOREM StoppedRunsLeaveNothing == Spec => []StoppedRunsAreIdle
<1>1. Init => StoppedRunsAreIdle
  BY DEF Init, StoppedRunsAreIdle
<1>2. SInv /\ StoppedRunsAreIdle /\ [Next]_vars => StoppedRunsAreIdle'
  <2> SUFFICES ASSUME SInv, StoppedRunsAreIdle, [Next]_vars PROVE StoppedRunsAreIdle'
    OBVIOUS
  <2>1. pc \in [Actors -> Phases]
    BY DEF SInv, TypeOK
  <2>2. CASE UNCHANGED vars
    BY <2>2 DEF vars, StoppedRunsAreIdle
  <2>3. CASE Cancel \/ Resume
    BY <2>3 DEF Cancel, Resume, StoppedRunsAreIdle
  <2>4. CASE RunStops
    BY <2>1, <2>4 DEF RunStops, Stopped, StoppedRunsAreIdle
  <2>5. CASE Crash
    BY <2>1, <2>5 DEF Crash, Stopped, StoppedRunsAreIdle
  <2>6. ASSUME NEW a \in Actors, planner = "running" /\ Keep(a) PROVE StoppedRunsAreIdle'
    BY <2>6 DEF Keep, StoppedRunsAreIdle
  <2>7. ASSUME NEW a \in Actors, Work(a) \/ Cancelled(a) PROVE planner' = planner /\ planner # "stopped"
    <3>1. planner # "stopped"
      BY <2>7 DEF Work, Cancelled, CancelEarly, CancelSpecialist, CancelFailure
    <3>2. CASE Start(a) \/ Connect(a) \/ Ending(a) \/ Erase(a)
      BY <3>1, <3>2 DEF Start, Connect, Erase, Ending, Refuse, ConnectTimesOut, CancelEarly,
         CapacityIsFull, PermitsAreTaken, Replay, BuildFails, Leave, DeletionEnds
    <3>3. CASE \/ ListNamespaces(a) \/ ReserveCapacity(a) \/ TakePermit(a) \/ Invoke(a)
               \/ FirstCheckpoint(a) \/ Running(a)
      BY <3>1, <3>3 DEF ListNamespaces, ReserveCapacity, TakePermit, Invoke, FirstCheckpoint, Running,
         Built, Completes, Fails, SaveResult, Returns, SaveFails, SaveFailure, CancelSpecialist,
         CancelFailure
    <3> QED
      BY <2>7, <3>1, <3>2, <3>3 DEF Work, Cancelled, LockStep, CapacityStep, SpecialistStep, Ending,
         Running
  <2> QED BY <2>2, <2>3, <2>4, <2>5, <2>6, <2>7 DEF Next, StoppedRunsAreIdle
<1> QED BY <1>1, <1>2, Inductive, PTL DEF Spec

=============================================================================
