------------------------------ MODULE RunEvents -----------------------------
(***************************************************************************)
(* The event streams of one conversation in one API process.  A Run        *)
(* publishes events to queues of bounded length and keeps the last ones    *)
(* for subscribers that join later; its done callback ends the streams.    *)
(* No section of the code that holds the registry's lock awaits, so each   *)
(* is one step.  Events are numbered in the order they are published; an   *)
(* item of a stream covers a run of numbers, because the replay window     *)
(* merges consecutive deltas of one message.                               *)
(***************************************************************************)
EXTENDS Naturals, FiniteSets, Sequences, SequencesExt

CONSTANTS
    Runs,         \* Runs of the conversation, one after the other
    Clients,      \* HTTP requests that want the stream
    NoRun,
    QueueLimit,   \* _SUBSCRIBER_QUEUE_LIMIT
    EventLimit,   \* _REPLAY_EVENT_LIMIT
    ByteLimit,    \* _REPLAY_BYTE_LIMIT
    Large,        \* size of an event that does not fit the window
    MaxEvents     \* bound on the events of each Run

EventsAssumption ==
    /\ NoRun \notin Runs /\ MaxEvents \in [Runs -> Nat]
    /\ {QueueLimit, EventLimit, ByteLimit, Large} \subseteq Nat \ {0, 1}

VARIABLES
    registry,   \* the registered Run
    phase,      \* phase of each Run's task
    ready,      \* outcome of the admission
    published,  \* number of events published
    window,     \* replay window of each Run
    listeners,  \* subscribers of each Run
    stream,     \* the stream of each client
    seen        \* history: what each client received

vars == <<registry, phase, ready, published, window, listeners, stream, seen>>

Phases == {"new", "admitting", "streaming", "ended", "finished"}
Running(r) == phase[r] \in {"admitting", "streaming"}

(* An item of a queue, and an item of the replay window, of which the code *)
(* also looks at the type and the size.                                    *)
Item(kind, first, last) == [kind |-> kind, first |-> first, last |-> last]
Done == Item("done", 0, 0)
Dropped == Item("error", 0, 0)
EndMark == Item("end", 0, 0)
Kept(item, delta, size) == [item |-> item, delta |-> delta, size |-> size]

(* A client: the Run it listens to, what it still replays, what is queued  *)
(* and the number of the Run's last event when it joined.                  *)
Away == [run |-> NoRun, state |-> "away", replay |-> <<>>, queue |-> <<>>, joined |-> 0]

(* What a client received: the first and the last event, how its stream    *)
(* went so far, and whether an event was missing or repeated.              *)
Nothing == [first |-> 0, last |-> 0, said |-> "nothing", gap |-> FALSE]
Noted(h, item) ==
    IF item.kind = "event"
    THEN [h EXCEPT !.first = IF @ = 0 THEN item.first ELSE @,
                   !.last = item.last,
                   !.gap = @ \/ (h.last # 0 /\ item.first # h.last + 1) \/ h.said # "nothing"]
    ELSE [h EXCEPT !.said = item.kind]

Init ==
    /\ registry = NoRun
    /\ phase = [r \in Runs |-> "new"]
    /\ ready = [r \in Runs |-> "pending"]
    /\ published = [r \in Runs |-> 0]
    /\ window = [r \in Runs |-> <<>>]
    /\ listeners = [r \in Runs |-> {}]
    /\ stream = [c \in Clients |-> Away]
    /\ seen = [c \in Clients |-> Nothing]

-----------------------------------------------------------------------------
(* The replay window and the queues.                                       *)

Joined(old, new) ==
    Kept(Item("event", old.item.first, new.item.last), TRUE, old.size + new.size)

(* Mutant: the merged delta stays in the window beside the new one.        *)
MergedKeepsPrevious(w, e, continues) ==
    IF w # <<>> /\ continues /\ Last(w).delta /\ e.delta
    THEN Append(w, Joined(Last(w), e))
    ELSE Append(w, e)

(* A delta that continues the previous one is merged with it.              *)
Merged(w, e, continues) ==
    IF w # <<>> /\ continues /\ Last(w).delta /\ e.delta
    THEN Append(Front(w), Joined(Last(w), e))
    ELSE Append(w, e)

Bytes(w) == FoldSeq(LAMBDA e, total : e.size + total, 0, w)
Fits(w) == Len(w) <= EventLimit /\ Bytes(w) <= ByteLimit

(* The window drops its oldest items until it fits, all when it must: one  *)
(* for each of its tails that is too long.                                 *)
Cached(w, e, continues) ==
    LET m == Merged(w, e, continues)
        tooLong == {k \in 0 .. Len(m) - 1 : ~Fits(SubSeq(m, k + 1, Len(m)))}
    IN  SubSeq(m, Cardinality(tooLong) + 1, Len(m))

Items(w) == [i \in DOMAIN w |-> w[i].item]

HasRoom(queue, items) == Len(queue) + Len(items) <= QueueLimit

(* Every subscriber of r gets the items, in one go; one whose queue is full*)
(* loses its queue, gets an error and is no subscriber any more.           *)
Broadcast(r, items) ==
    LET slow == {c \in listeners[r] : ~HasRoom(stream[c].queue, items)}
    IN  /\ listeners' = [listeners EXCEPT ![r] = @ \ slow]
        /\ stream' = [c \in Clients |->
               IF c \in slow THEN [stream[c] EXCEPT !.queue = <<Dropped, EndMark>>]
               ELSE IF c \in listeners[r] THEN [stream[c] EXCEPT !.queue = @ \o items]
               ELSE stream[c]]

-----------------------------------------------------------------------------
(* Runs.                                                                   *)

(* start() replaces a registered Run whose task is done, even if that      *)
(* task's done callback is still to come.  The client is the first         *)
(* subscriber; it waits for the admission.                                 *)
Start(c, r) ==
    /\ stream[c].state = "away" /\ phase[r] = "new"
    /\ registry # NoRun => ~Running(registry)
    /\ registry' = r
    /\ phase' = [phase EXCEPT ![r] = "admitting"]
    /\ listeners' = [listeners EXCEPT ![r] = {c}]
    /\ stream' = [stream EXCEPT ![c] = [Away EXCEPT !.run = r, !.state = "starting"]]
    /\ UNCHANGED <<ready, published, window, seen>>

(* The task has the lifecycle lock and prepare() succeeded.                *)
Admit(r) ==
    /\ phase[r] = "admitting" /\ ready[r] = "pending"
    /\ phase' = [phase EXCEPT ![r] = "streaming"]
    /\ ready' = [ready EXCEPT ![r] = "admitted"]
    /\ UNCHANGED <<registry, published, window, listeners, stream, seen>>

(* The lock is busy or prepare() fails: the task ends without an event.    *)
Refuse(r) ==
    /\ phase[r] = "admitting" /\ ready[r] = "pending"
    /\ phase' = [phase EXCEPT ![r] = "ended"]
    /\ ready' = [ready EXCEPT ![r] = "refused"]
    /\ UNCHANGED <<registry, published, window, listeners, stream, seen>>

(* The turn yields an event, or has failed and the Run tells so: a delta   *)
(* that does or does not continue the previous one, or another event.      *)
Publish(r) ==
    /\ phase[r] = "streaming" /\ published[r] < MaxEvents[r]
    /\ \E delta, continues \in BOOLEAN, size \in {1, Large} :
        LET item == Item("event", published[r] + 1, published[r] + 1)
        IN  /\ continues => delta
            /\ delta => size = 1
            /\ window' = [window EXCEPT ![r] = Cached(@, Kept(item, delta, size), continues)]
            /\ Broadcast(r, <<item>>)
    /\ published' = [published EXCEPT ![r] = @ + 1]
    /\ UNCHANGED <<registry, phase, ready, seen>>

(* The turn is over, or stop() or close() cancelled the task; a task that  *)
(* is cancelled before the admission leaves `ready` open.                  *)
End(r) ==
    /\ Running(r)
    /\ phase' = [phase EXCEPT ![r] = "ended"]
    /\ UNCHANGED <<registry, ready, published, window, listeners, stream, seen>>

Unregistered(r) == IF registry = r THEN NoRun ELSE registry

(* Mutant: done is only put where the end mark still fits beside it, and a *)
(* full queue is left alone.                                               *)
FinishSkipsFull(r) ==
    /\ phase[r] = "ended"
    /\ phase' = [phase EXCEPT ![r] = "finished"]
    /\ registry' = Unregistered(r)
    /\ ready' = [ready EXCEPT ![r] = IF @ = "pending" THEN "refused" ELSE @]
    /\ window' = [window EXCEPT ![r] = Cached(@, Kept(Done, FALSE, 1), FALSE)]
    /\ stream' = [c \in Clients |->
           IF c \in listeners[r] /\ HasRoom(stream[c].queue, <<Done, EndMark>>)
           THEN [stream[c] EXCEPT !.queue = @ \o <<Done, EndMark>>] ELSE stream[c]]
    /\ UNCHANGED <<published, listeners, seen>>

(* The task's done callback.  A queue that has room for `done` but not for *)
(* the end mark is dropped as well.                                        *)
Finish(r) ==
    /\ phase[r] = "ended"
    /\ phase' = [phase EXCEPT ![r] = "finished"]
    /\ registry' = Unregistered(r)
    /\ ready' = [ready EXCEPT ![r] = IF @ = "pending" THEN "refused" ELSE @]
    /\ window' = [window EXCEPT ![r] = Cached(@, Kept(Done, FALSE, 1), FALSE)]
    /\ Broadcast(r, <<Done, EndMark>>)
    /\ UNCHANGED <<published, seen>>

-----------------------------------------------------------------------------
(* Clients.                                                                *)

(* The window is copied and the queue registered under one lock.           *)
Subscribe(c) ==
    /\ stream[c].state = "away" /\ registry # NoRun
    /\ stream' = [stream EXCEPT ![c] =
           [Away EXCEPT !.run = registry, !.state = "open", !.replay = Items(window[registry]),
                        !.joined = published[registry]]]
    /\ listeners' = [listeners EXCEPT ![registry] = @ \cup {c}]
    /\ UNCHANGED <<registry, phase, ready, published, window, seen>>

(* No Run: the stream consists of `done`.                                  *)
SubscribeToNothing(c) ==
    /\ stream[c].state = "away" /\ registry = NoRun
    /\ stream' = [stream EXCEPT ![c] =
           [Away EXCEPT !.state = "open", !.replay = <<Done>>, !.queue = <<EndMark>>]]
    /\ UNCHANGED <<registry, phase, ready, published, window, listeners, seen>>

Unsubscribed(c) ==
    listeners' = [r \in Runs |-> IF r = stream[c].run THEN listeners[r] \ {c} ELSE listeners[r]]

Close(c, state) ==
    stream' = [stream EXCEPT ![c] = [@ EXCEPT !.state = state, !.queue = <<>>, !.replay = <<>>]]
(* Nothing more is said about a client that left.                          *)
Forget(c) ==
    /\ stream' = [stream EXCEPT ![c] = [Away EXCEPT !.state = "left"]]
    /\ seen' = [seen EXCEPT ![c] = Nothing]

(* The starting client goes on once the admission is decided; after a      *)
(* refusal it waits for the task to end.                                   *)
StartReturns(c) ==
    LET r == stream[c].run
    IN  /\ stream[c].state = "starting"
        /\ \/ /\ ready[r] = "admitted"
              /\ stream' = [stream EXCEPT ![c].state = "open"]
              /\ UNCHANGED listeners
           \/ /\ ready[r] = "refused" /\ ~Running(r)
              /\ Close(c, "refused") /\ Unsubscribed(c)
    /\ UNCHANGED <<registry, phase, ready, published, window, seen>>

(* The starting client disconnects: its queue goes, and with it the task   *)
(* if the admission is not decided.                                        *)
StartIsCancelled(c) ==
    LET r == stream[c].run
    IN  /\ stream[c].state = "starting"
        /\ Forget(c) /\ Unsubscribed(c)
        /\ phase' = [phase EXCEPT ![r] =
               IF ready[r] = "pending" /\ @ = "admitting" THEN "ended" ELSE @]
    /\ UNCHANGED <<registry, ready, published, window>>

(* The stream yields its next item; the end mark closes it.                *)
Receive(c) ==
    /\ stream[c].state = "open"
    /\ \/ /\ stream[c].replay # <<>>
          /\ seen' = [seen EXCEPT ![c] = Noted(@, Head(stream[c].replay))]
          /\ stream' = [stream EXCEPT ![c].replay = Tail(@)]
          /\ UNCHANGED listeners
       \/ /\ stream[c].replay = <<>> /\ stream[c].queue # <<>>
          /\ Head(stream[c].queue) # EndMark
          /\ seen' = [seen EXCEPT ![c] = Noted(@, Head(stream[c].queue))]
          /\ stream' = [stream EXCEPT ![c].queue = Tail(@)]
          /\ UNCHANGED listeners
       \/ /\ stream[c].replay = <<>> /\ stream[c].queue # <<>>
          /\ Head(stream[c].queue) = EndMark
          /\ Close(c, "closed") /\ Unsubscribed(c)
          /\ UNCHANGED seen
    /\ UNCHANGED <<registry, phase, ready, published, window>>

(* The client disconnects in the middle of its stream.                     *)
Leave(c) ==
    /\ stream[c].state = "open"
    /\ Forget(c) /\ Unsubscribed(c)
    /\ UNCHANGED <<registry, phase, ready, published, window>>

RunStep(r) == Admit(r) \/ Refuse(r) \/ Publish(r) \/ End(r) \/ Finish(r)
ClientStep(c) ==
    \/ Subscribe(c) \/ SubscribeToNothing(c) \/ StartReturns(c) \/ StartIsCancelled(c)
    \/ Receive(c) \/ Leave(c) \/ \E r \in Runs : Start(c, r)

Next == (\E r \in Runs : RunStep(r)) \/ (\E c \in Clients : ClientStep(c))

Spec == Init /\ [][Next]_vars

(* The event loop runs the callback of a task that is done, and resumes    *)
(* the request that waits for an admission that was decided.  A Run need   *)
(* not end and a client need not read.                                     *)
Fairness ==
    /\ WF_vars(\E r \in Runs : Finish(r))
    /\ WF_vars(\E c \in Clients : StartReturns(c))

-----------------------------------------------------------------------------
(* Properties.                                                             *)

Outcomes == {"pending", "admitted", "refused"}
States == {"away", "starting", "open", "refused", "left", "closed"}
QueueItems == [kind : {"event", "done", "error", "end"}, first : Nat, last : Nat]
WindowItems == [item : QueueItems, delta : BOOLEAN, size : Nat]
Streams == [run : Runs \cup {NoRun}, state : States, replay : Seq(QueueItems),
            queue : Seq(QueueItems), joined : Nat]
Histories == [first : Nat, last : Nat, gap : BOOLEAN, said : {"nothing", "done", "error"}]

TypeOK ==
    /\ registry \in Runs \cup {NoRun}
    /\ phase \in [Runs -> Phases]
    /\ ready \in [Runs -> Outcomes]
    /\ published \in [Runs -> Nat]
    /\ window \in [Runs -> Seq(WindowItems)]
    /\ listeners \in [Runs -> SUBSET Clients]
    /\ stream \in [Clients -> Streams] /\ seen \in [Clients -> Histories]

(* The comment in _publish: a subscriber gets every event either from the  *)
(* replay window or from its queue, exactly once.  So what a client has    *)
(* seen is a gapless part of what its Run published, which begins no later *)
(* than with the first event after it joined; a stream that ends with      *)
(* `done` goes to the Run's last event, and every stream that is closed    *)
(* said either `done` or that it was dropped.                              *)
StreamsAreGapless ==
    \A c \in Clients :
        LET r == stream[c].run
        IN  /\ ~seen[c].gap
            /\ seen[c].first <= stream[c].joined + 1
            /\ seen[c].said = "done" /\ r # NoRun =>
                 IF seen[c].first = 0 THEN stream[c].joined = published[r]
                 ELSE seen[c].last = published[r]
            /\ stream[c].state = "closed" => seen[c].said # "nothing"
            /\ Len(stream[c].queue) <= QueueLimit

(* No stream of a Run that ended stays open without an end: its client has *)
(* left, has got everything or finds the end mark in its queue.            *)
Released(c) ==
    \/ stream[c].state \in {"refused", "left", "closed"}
    \/ stream[c].queue # <<>> /\ Last(stream[c].queue) = EndMark

EndedRunsReleaseClients ==
    \A c \in Clients :
        (\E r \in Runs : phase[r] = "ended" /\ c \in listeners[r]) ~> Released(c)

=============================================================================
