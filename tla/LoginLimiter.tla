---------------------------- MODULE LoginLimiter ----------------------------
(***************************************************************************)
(* The limit on login attempts: auth.RateLimiter (auth/ratelimit.go) as    *)
(* the login handler uses it (auth/handlers.go), with the bounded password *)
(* check behind it (auth/password.go).                                     *)
(*                                                                         *)
(* The limiter keeps a bucket per client in a list ordered by the latest   *)
(* attempt; each of its operations holds its lock.  A handler counts the   *)
(* attempt, waits for the one verification slot, and withdraws an attempt  *)
(* if the wait ends first.  What a refusal logs is left out.               *)
(***************************************************************************)
EXTENDS Clock, Sequences, FiniteSets, SequencesExt

CONSTANTS
  Key,        \* clients, as ClientKey names them
  Visitor,    \* concurrent requests to POST /api/login
  limit,      \* attempts allowed in a window
  window,     \* its length, in ticks
  maxKeys,    \* clients tracked at once
  NoOne       \* no client, no handler

ASSUME LimiterAssumption ==
  /\ limit \in Nat \ {0} /\ window \in Nat \ {0} /\ maxKeys \in Nat \ {0}
  /\ NoOne \notin Key \union Visitor

VARIABLES
  order,      \* the buckets, the most recently active first
  handler,    \* what each request is doing, for whom, and when it was counted
  slot,       \* the request whose password is being checked
  counted,    \* per client, when its attempts in force were allowed (history)
  tried,      \* per client, its latest attempt (history)
  told        \* per client, when it was told to come back, if it was refused
              \* and no attempt of it has been counted since (history)

limiterVars == <<order, handler, slot, counted, tried, told>>

Never == -window                    \* out of every window
Idle == [pc |-> "idle", key |-> NoOne, at |-> Never]

LimiterInit ==
  /\ order = <<>>
  /\ handler = [h \in Visitor |-> Idle]
  /\ slot = NoOne
  /\ counted = [k \in Key |-> <<>>]
  /\ tried = [k \in Key |-> Never]
  /\ told = [k \in Key |-> Never]

-----------------------------------------------------------------------------
(* The limiter's list.                                                     *)

cutoff == clock - window

Tracked(o) == {o[i].key : i \in 1..Len(o)}
Place(o, k) == CHOOSE i \in 1..Len(o) : o[i].key = k
EmptyBucket(k) == [key |-> k, times |-> <<>>, lastSeen |-> Never]

\* Drop the clients at the back that were not seen since cutoff.
removeStale(o) ==
  LET active == {i \in 1..Len(o) : o[i].lastSeen > cutoff}
  IN SubSeq(o, 1, IF active = {} THEN 0
                  ELSE CHOOSE i \in active : \A j \in active : j <= i)

\* k's bucket: its own, or an empty one.
BucketOf(o, k) ==
  IF k \in Tracked(o) THEN o[Place(o, k)] ELSE EmptyBucket(k)

OthersFirstIn(o, k) ==                      \* a mutant: the first to come goes
  CASE k \in Tracked(o) -> RemoveAt(o, Place(o, k))
    [] k \notin Tracked(o) /\ Len(o) >= maxKeys -> Tail(o)
    [] OTHER -> o

\* The clients other than k that stay, in their order: a full table makes room
\* by handing the bucket at the back to k.
Others(o, k) ==
  CASE k \in Tracked(o) -> RemoveAt(o, Place(o, k))
    [] k \notin Tracked(o) /\ Len(o) >= maxKeys -> SubSeq(o, 1, Len(o) - 1)
    [] OTHER -> o

\* The list with k's bucket at the front, seen now.
touch(o, k) ==
  <<[BucketOf(o, k) EXCEPT !.lastSeen = clock]>> \o Others(o, k)

\* The attempts from the first one after c on.
expire(times, c) ==
  LET kept == {i \in 1..Len(times) : times[i] > c}
  IN IF kept = {} THEN <<>>
     ELSE SubSeq(times, CHOOSE i \in kept : \A j \in kept : i <= j, Len(times))

Trunc(ticks) == (ticks \div second) * second      \* whole seconds, in ticks

RetryAfterShort(k) ==            \* a mutant: the fraction of a second is lost
  LET b == BucketOf(order, k) IN
  IF b.times = <<>> THEN 0 ELSE Trunc(b.times[1] + window - clock)

\* What RetryAfter(k) returns now, in ticks: the whole seconds until the
\* oldest attempt of k expires, and one more.
RetryAfter(k) ==
  LET b == BucketOf(order, k)
      left == Trunc(b.times[1] + window - clock) + second
  IN CASE b.times = <<>> -> 0
       [] b.times # <<>> /\ left < second -> second
       [] OTHER -> left

-----------------------------------------------------------------------------
(* A request.                                                              *)

\* attempt: the request is counted for k, or refused.
Attempt(h, k) ==
  /\ handler[h].pc = "idle"
  /\ LET kept == touch(removeStale(order), k)
         b == [kept[1] EXCEPT !.times = expire(kept[1].times, cutoff)]
         refused == Len(b.times) >= limit
         new == IF refused THEN b ELSE [b EXCEPT !.times = Append(@, clock)]
         forgotten == {j \in Key \ {k} : j \in Tracked(removeStale(order))}
                        \ Tracked(kept)
     IN /\ order' = <<new>> \o Tail(kept)
        /\ handler' = [handler EXCEPT ![h] =
             [pc |-> IF refused THEN "refused" ELSE "reading",
              key |-> k, at |-> IF refused THEN Never ELSE clock]]
        /\ counted' = [j \in Key |->
             CASE j \in forgotten -> <<>>
               [] j = k /\ ~refused -> Append(counted[k], clock)
               [] OTHER -> counted[j]]
        /\ told' = [told EXCEPT ![k] = IF refused THEN @ ELSE Never]
  /\ tried' = [tried EXCEPT ![k] = clock]
  /\ UNCHANGED <<clock, slot>>

\* The refused client is told when to come back; RetryAfter takes the lock
\* again, and 0 becomes a second.
TellRetry(h) ==
  /\ handler[h].pc = "refused"
  /\ LET k == handler[h].key
         wait == IF RetryAfter(k) = 0 THEN second ELSE RetryAfter(k)
     IN told' = [told EXCEPT ![k] = clock + wait]
  /\ handler' = [handler EXCEPT ![h] = Idle]
  /\ UNCHANGED <<clock, order, slot, counted, tried>>

\* The body is not a login: the attempt stays counted.
BadBody(h) ==
  /\ handler[h].pc = "reading"
  /\ handler' = [handler EXCEPT ![h] = Idle]
  /\ UNCHANGED <<clock, order, slot, counted, tried, told>>

\* The body is a login: the request waits for the slot, or gets it.
GetSlot(h) ==
  /\ handler[h].pc = "reading"
  /\ slot = NoOne
  /\ slot' = h
  /\ handler' = [handler EXCEPT ![h] = [Idle EXCEPT !.pc = "checking"]]
  /\ UNCHANGED <<clock, order, counted, tried, told>>

\* The check is done, well or badly: the attempt stays counted.
CheckDone(h) ==
  /\ handler[h].pc = "checking"
  /\ slot' = NoOne
  /\ handler' = [handler EXCEPT ![h] = Idle]
  /\ UNCHANGED <<clock, order, counted, tried, told>>

ForgetBucketOnly(o, k) ==         \* a mutant: an only attempt stays counted
  LET b == BucketOf(o, k) IN
  IF Len(b.times) <= 1 THEN o
  ELSE [o EXCEPT ![Place(o, k)].times = SubSeq(@, 1, Len(@) - 1)]

\* Forget: the newest attempt of k is withdrawn, with its bucket if it is the
\* only one.
Forget(o, k) ==
  LET b == BucketOf(o, k) IN
  CASE Len(b.times) = 0 -> o
    [] Len(b.times) = 1 -> RemoveAt(o, Place(o, k))
    [] OTHER -> [o EXCEPT ![Place(o, k)].times = SubSeq(@, 1, Len(@) - 1)]

\* The wait for the slot ends first (loginQueueTimeout, or the client leaves):
\* the attempt, which checked nothing, is withdrawn.
TurnAway(h) ==
  /\ handler[h].pc = "reading"
  /\ LET k == handler[h].key
         at == handler[h].at
     IN /\ order' = Forget(order, k)
        /\ counted' = [counted EXCEPT ![k] =
             LET mine == {i \in 1..Len(@) : @[i] = at}
             IN IF mine = {} THEN @ ELSE RemoveAt(@, CHOOSE i \in mine : TRUE)]
  /\ handler' = [handler EXCEPT ![h] = Idle]
  /\ UNCHANGED <<clock, slot, tried, told>>

\* The five-minute ticker of main.go.
Cleanup ==
  /\ order' = removeStale(order)
  /\ UNCHANGED <<clock, handler, slot, counted, tried, told>>

\* Of the histories only what is still within a window is kept.
LimiterTick ==
  /\ clock < MaxClock
  /\ clock' = clock + 1
  /\ counted' = [k \in Key |-> expire(counted[k], cutoff')]
  /\ tried' = [k \in Key |-> IF tried[k] > cutoff' THEN tried[k] ELSE Never]
  /\ UNCHANGED <<order, handler, slot, told>>

LimiterNext ==
  \/ \E h \in Visitor :
       \/ \E k \in Key : Attempt(h, k)
       \/ TellRetry(h) \/ BadBody(h)
       \/ GetSlot(h) \/ CheckDone(h) \/ TurnAway(h)
  \/ Cleanup
  \/ LimiterTick

LimiterSpec == clock = 1 /\ LimiterInit /\ [][LimiterNext]_<<clock, limiterVars>>

-----------------------------------------------------------------------------
(* Properties.                                                             *)

Bucket == [key : Key, times : Seq(Int), lastSeen : Int]
Visit == [pc : {"idle", "reading", "refused", "checking"}, key : Key \union {NoOne}, at : Int]

\* The buckets are those of different clients, as many as fit, most recently
\* seen first (removeStale stops at the first active one, from the back), and
\* none holds more attempts than the limit.
LimiterTypeOK ==
  /\ clock \in Nat
  /\ order \in Seq(Bucket) /\ Len(order) <= maxKeys
  /\ \A i, j \in 1..Len(order) : i < j =>
       order[i].key # order[j].key /\ order[i].lastSeen >= order[j].lastSeen
  /\ \A i \in 1..Len(order) : Len(order[i].times) <= limit
  /\ handler \in [Visitor -> Visit]
  /\ slot \in Visitor \union {NoOne}
  /\ counted \in [Key -> Seq(Int)] /\ tried \in [Key -> Int] /\ told \in [Key -> Int]

InWindow(s) == {i \in 1..Len(s) : s[i] > cutoff}

\* Even when logins are turned away, nobody is counted for more attempts of the
\* last window than it made and did not have withdrawn: an attempt that checked
\* nothing never costs a place (auth/handlers.go:79-81).
NotOvercounted ==
  \A k \in Key :
    Cardinality(InWindow(BucketOf(order, k).times)) <= Cardinality(InWindow(counted[k]))

\* A client whose bucket another one takes is the one that tried least
\* recently: nobody who tried since loses its count (auth/ratelimit.go:10-15).
ForgetsLeastRecent ==
  [][Tracked(order') \ Tracked(order) # {} => \A k \in Tracked(order) \ Tracked(order') :
       \/ tried[k] <= cutoff
       \/ \A j \in Tracked(order) : tried[k] <= tried[j]]_limiterVars

\* A client that comes back when it was told to is let in, unless another
\* request of the same client took the place.
RetryIsHonest ==
  [][\A h \in Visitor :
       handler'[h].pc = "refused" /\ handler[h].pc = "idle" =>
         LET k == handler'[h].key
         IN told[k] = Never \/ clock < told[k]]_limiterVars

\* So a client is not counted for what it did not try, forgotten before others or sent
\* away twice.
LimiterHonest == []NotOvercounted /\ ForgetsLeastRecent /\ RetryIsHonest
=============================================================================
