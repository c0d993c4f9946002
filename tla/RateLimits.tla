------------------------------ MODULE RateLimits ------------------------------
(***************************************************************************)
(* The sliding-window rate limiter of the login.  Configured with Redis it *)
(* is a script there, which runs some time after the caller has read its   *)
(* clock; otherwise it is in the memory of the process.  Both are compared *)
(* with a definition over the log of what was answered.                    *)
(***************************************************************************)
EXTENDS Naturals, FiniteSets, Sequences, SequencesExt

CONSTANTS
    Keys,
    Limit,      \* requests of a key in a window
    Window,     \* in seconds
    MaxKeys,    \* keys that are counted at a time
    MaxTime     \* bound on the clock

RateAssumption ==
    IsFiniteSet(Keys) /\ {Limit, Window, MaxKeys, MaxTime} \subseteq Nat \ {0}

VARIABLES
    shared,     \* Redis is configured
    clock,
    buckets,    \* in memory: [key, stamps, last], least recently used first
    stamps,     \* in Redis: the accepted requests of a key, [time, number]
    sequence,   \* in Redis: the number of the last one
    lives,      \* in Redis: when the bucket of a key expires
    active,     \* in Redis: score of a key, 0 if it has none
    setLives,   \* in Redis: when the set of active keys expires
    flying,     \* calls that have read the clock
    log,        \* history: when a key was accepted, in the order of the answers
    last,       \* history: when a key was last counted
    late        \* history: a script ran later than its clock was read

redisVars == <<stamps, sequence, lives, active, setLives>>
rateVars == <<shared, clock, buckets, redisVars, flying, log, last, late>>

Times == 1 .. MaxTime

Init ==
    /\ shared \in BOOLEAN /\ clock = 1 /\ buckets = <<>>
    /\ stamps = [k \in Keys |-> {}] /\ sequence = [k \in Keys |-> 0]
    /\ lives = [k \in Keys |-> 0]
    /\ active = [k \in Keys |-> 0] /\ setLives = 0
    /\ flying = {} /\ late = FALSE
    /\ log = [k \in Keys |-> <<>>]
    /\ last = [k \in Keys |-> 0]

Within(t, now) == t + Window > now

(* math.ceil and the lower bound of one second: times are whole seconds.   *)
Wait(expires, now) == Max({1, expires - now})

Accepted == [answer |-> "accepted", retry |-> 0]
Refused(answer, expires, now) == [answer |-> answer, retry |-> Wait(expires, now)]

-----------------------------------------------------------------------------
(* What is promised: a key is counted while its last request that was not  *)
(* refused for want of room lies in the window.                            *)

Counted(now) == {k \in Keys : last[k] > 0 /\ Within(last[k], now)}
Recent(k, now) == {i \in 1 .. Len(log[k]) : Within(log[k][i], now)}

Promised(k, now) ==
    LET recent == Recent(k, now)
        counted == Counted(now)
    IN  IF k \notin counted /\ Cardinality(counted) >= MaxKeys
        THEN Refused("full", Min({last[j] : j \in counted}) + Window, now)
        ELSE IF Cardinality(recent) >= Limit
        THEN Refused("limited", Min({log[k][i] : i \in recent}) + Window, now)
        ELSE Accepted

Records(k, now, verdict) ==
    /\ log' = IF verdict = Accepted THEN [log EXCEPT ![k] = Append(@, now)] ELSE log
    /\ last' = IF verdict.answer # "full" THEN [last EXCEPT ![k] = Max({@, now})] ELSE last

-----------------------------------------------------------------------------
(* BoundedRateLimiter: one call at a time, under its lock.                 *)

(* What is too old is removed from the front, until one is kept.           *)
Kept ==
    LET n == Min({i \in 1 .. Len(buckets) : Within(buckets[i].last, clock)}
                 \cup {Len(buckets) + 1})
    IN  SubSeq(buckets, n, Len(buckets))
Pruned(times) ==
    LET n == Min({i \in 1 .. Len(times) : Within(times[i], clock)} \cup {Len(times) + 1})
    IN  SubSeq(times, n, Len(times))

Find(k) == {i \in 1 .. Len(Kept) : Kept[i].key = k}

(* The bucket of the key before this request is counted.                   *)
Bucket(k) ==
    IF Find(k) = {} THEN [key |-> k, stamps |-> <<>>, last |-> clock]
    ELSE LET i == CHOOSE i \in Find(k) : TRUE
         IN  [key |-> k, stamps |-> Pruned(Kept[i].stamps), last |-> clock]

MemoryVerdict(k) ==
    IF Find(k) = {} /\ Len(Kept) >= MaxKeys
    THEN Refused("full", Kept[1].last + Window, clock)
    ELSE IF Len(Bucket(k).stamps) >= Limit
    THEN Refused("limited", Bucket(k).stamps[1] + Window, clock)
    ELSE Accepted

MovesToEnd(b) ==
    IF Find(b.key) = {} THEN Append(Kept, b)
    ELSE Append(RemoveAt(Kept, CHOOSE i \in Find(b.key) : TRUE), b)

ConsumeMemory(k) ==
    LET verdict == MemoryVerdict(k)
        b == Bucket(k)
    IN  /\ ~shared
        /\ buckets' = CASE verdict.answer = "full" -> Kept
                        [] verdict.answer = "limited" -> MovesToEnd(b)
                        [] OTHER -> MovesToEnd([b EXCEPT !.stamps = Append(@, clock)])
        /\ Records(k, clock, verdict)
        /\ UNCHANGED <<shared, clock, redisVars, flying, late>>

-----------------------------------------------------------------------------
(* RedisBoundedRateLimiter: the time is read, then the script runs.        *)

StartRedis(k) ==
    /\ shared /\ flying = {}
    /\ flying' = {[key |-> k, now |-> clock]}
    /\ UNCHANGED <<shared, clock, buckets, redisVars, log, last, late>>

(* Redis expires keys by its own clock, the script by the caller's.        *)
LiveBucket(k) == lives[k] > clock
LiveScores(now) ==
    [k \in Keys |-> IF setLives > clock /\ active[k] > now THEN active[k] ELSE 0]
Stamps(k, now) == {m \in stamps[k] : LiveBucket(k) /\ Within(m.time, now)}

RedisVerdict(k, now) ==
    LET others == {j \in Keys \ {k} : LiveScores(now)[j] > 0}
        recent == Stamps(k, now)
    IN  IF ~LiveBucket(k) /\ Cardinality(others) >= MaxKeys
        THEN Refused("full", Min({LiveScores(now)[j] : j \in others}), now)
        ELSE IF Cardinality(recent) >= Limit
        THEN Refused("limited", Min({m.time : m \in recent}) + Window, now)
        ELSE Accepted

ConsumeRedis(call) ==
    LET k == call.key
        now == call.now
        verdict == RedisVerdict(k, now)
        recent == Stamps(k, now)
    IN  /\ call \in flying /\ flying' = flying \ {call}
        /\ IF verdict.answer = "full"
           THEN /\ active' = [LiveScores(now) EXCEPT ![k] = 0]
                /\ UNCHANGED <<stamps, sequence, lives, setLives>>
           ELSE /\ active' = [LiveScores(now) EXCEPT ![k] = now + Window]
                /\ setLives' = clock + Window
                /\ IF verdict = Accepted
                   THEN /\ sequence' = [sequence EXCEPT ![k] = @ + 1]
                        /\ stamps' = [stamps EXCEPT ![k] =
                                        recent \cup {[time |-> now, number |-> sequence'[k]]}]
                        /\ lives' = [lives EXCEPT ![k] = clock + Window]
                   ELSE /\ stamps' = [stamps EXCEPT ![k] = recent]
                        /\ UNCHANGED <<sequence, lives>>
        /\ Records(k, now, verdict)
        /\ late' = (late \/ now < clock)
        /\ UNCHANGED <<shared, clock, buckets>>

Tick ==
    /\ clock < MaxTime /\ clock' = clock + 1
    /\ UNCHANGED <<shared, buckets, redisVars, flying, log, last, late>>

Next ==
    \/ Tick
    \/ \E k \in Keys : ConsumeMemory(k) \/ StartRedis(k)
    \/ \E call \in flying : ConsumeRedis(call)

Spec == Init /\ [][Next]_rateVars

-----------------------------------------------------------------------------
(* Properties.                                                             *)

Buckets == [key : Keys, stamps : Seq(Times), last : Times]
TypeOK ==
    /\ shared \in BOOLEAN /\ clock \in Times
    /\ buckets \in Seq(Buckets)
    /\ stamps \in [Keys -> SUBSET [time : Times, number : Nat]]
    /\ sequence \in [Keys -> Nat] /\ lives \in [Keys -> Nat]
    /\ active \in [Keys -> Nat] /\ setLives \in Nat
    /\ flying \subseteq [key : Keys, now : Times] /\ late \in BOOLEAN
    /\ log \in [Keys -> Seq(Times)] /\ last \in [Keys -> {0} \cup Times]

(* Whatever came before, the next request of any key is answered as the    *)
(* log asks for, with the seconds to wait: at most Limit requests of a key *)
(* are accepted in a window, at most MaxKeys keys are counted, and nothing *)
(* is refused without need.                                                *)
MemoryKeepsPromise == ~shared => \A k \in Keys : MemoryVerdict(k) = Promised(k, clock)

(* The same of the shared limiter, as long as no script ran in a later     *)
(* second than its caller's clock.                                         *)
RedisKeepsPromise ==
    shared /\ ~late => \A k \in Keys : RedisVerdict(k, clock) = Promised(k, clock)

(* A caller that waits as long as it was told is accepted if nobody else   *)
(* calls, and not a second earlier.                                        *)
RetriesAreHonest ==
    ~late => \A k \in Keys :
        LET told == Promised(k, clock) IN
        told # Accepted =>
            /\ Promised(k, clock + told.retry) = Accepted
            /\ \A s \in 1 .. told.retry - 1 : Promised(k, clock + s) # Accepted

RatesAreLimited == MemoryKeepsPromise /\ RedisKeepsPromise /\ RetriesAreHonest

=============================================================================
