------------------------------ MODULE RateLimiter ------------------------------
(***************************************************************************)
(* SlidingWindowRateLimiter.check, for the key of one client and bucket.   *)
(* A deque of hits is kept as the ages of its hits, oldest first; time is  *)
(* counted in ticks, and a hit as old as the window ages no further.       *)
(***************************************************************************)
EXTENDS Integers, Sequences

CONSTANTS
  Window,    (* _WINDOW_SECONDS, in ticks                                   *)
  Second,    (* ticks in a second, the unit of Retry-After                  *)
  Limit      (* RATE_LIMIT_ASK_PER_MINUTE                                   *)

ASSUME RateAssumption ==
  /\ Second \in Nat \ {0} /\ Limit \in Nat \ {0}
  /\ Window \in Nat /\ Window >= Second

(* The hits the loop pops, from the oldest to the first live one.          *)
Expired(hits) ==
  CHOOSE n \in 0..Len(hits) :
    /\ \A k \in 1..n : hits[k] >= Window
    /\ n < Len(hits) => hits[n + 1] < Window

Live(hits) == SubSeq(hits, Expired(hits) + 1, Len(hits))

Refuses(hits) == Len(Live(hits)) >= Limit

(* Fault: rounded down.                                                    *)
retry_after_down(hits) ==
  LET seconds == (Window - Live(hits)[1]) \div Second
  IN IF seconds = 0 THEN 1 ELSE seconds

(* The seconds until the oldest hit leaves the window, rounded up; a live  *)
(* hit leaves one at least.                                                *)
retry_after(hits) == (Window - Live(hits)[1] + Second - 1) \div Second

check(hits) == IF Refuses(hits) THEN Live(hits) ELSE Append(Live(hits), 0)

Aged(hits, ticks) ==
  [k \in 1..Len(hits) |->
     IF hits[k] + ticks >= Window THEN Window ELSE hits[k] + ticks]

=============================================================================
