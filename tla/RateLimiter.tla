----------------------------- MODULE RateLimiter -----------------------------
(***************************************************************************)
(* The sliding-window limiter of core/rate_limit.py, in front of login and *)
(* register.  check() runs on the event loop without awaiting, so a check  *)
(* is one step.  Time is counted in ticks, Second of them to a second: the *)
(* clock is finer than the whole seconds of the Retry-After header.        *)
(***************************************************************************)
EXTENDS Integers, Sequences, FiniteSets

CONSTANTS
  Keys,            (* Client addresses.                                    *)
  MaxRequests,     (* max_requests                                         *)
  Window,          (* window_seconds, in ticks.                            *)
  Second,          (* Ticks in a second.                                   *)
  MaxTime          (* Bound on the clock, for model checking.              *)

ASSUME LimiterAssumption ==
  /\ MaxRequests \in Nat \ {0} /\ Window \in Nat \ {0} /\ Second \in Nat \ {0}
  /\ MaxTime \in Nat

VARIABLES
  now,             (* time.monotonic()                                     *)
  hits,            (* _hits: the deque of each key.                        *)
  admitted,        (* History: the times of all admitted requests.         *)
  promise          (* History: when the last refusal since the last        *)
                   (* admission told the client to come back; 0 if none.   *)

vars == <<now, hits, admitted, promise>>

TypeOK == /\ now \in Nat
          /\ hits \in [Keys -> Seq(Nat)]
          /\ admitted \in [Keys -> Seq(Nat)]
          /\ promise \in [Keys -> Nat]

Init == /\ now = 0
        /\ hits = [k \in Keys |-> <<>>]
        /\ admitted = [k \in Keys |-> <<>>]
        /\ promise = [k \in Keys |-> 0]

\* How many entries the while loop pops: up to the first that is in the window.
Popped(s, start) ==
  CHOOSE n \in 0..Len(s) : /\ \A i \in 1..n : s[i] < start
                           /\ n < Len(s) => s[n + 1] >= start

Kept(s, start) == SubSeq(s, Popped(s, start) + 1, Len(s))

InWindow(k) == Kept(hits[k], now - Window)

\* Mutant: the fraction of a second is cut off.
RetryRoundedDown(s) == (Window - (now - s[1])) \div Second

\* Retry-After, in seconds.
RetryAfter(s) == (Window - (now - s[1])) \div Second + 1

\* Mutant: the limit is off by one.
AdmitOneMore(k) ==
  /\ Len(InWindow(k)) <= MaxRequests
  /\ hits' = [hits EXCEPT ![k] = Append(InWindow(k), now)]
  /\ admitted' = [admitted EXCEPT ![k] = Append(@, now)]
  /\ promise' = [promise EXCEPT ![k] = 0]
  /\ UNCHANGED now

Admit(k) ==
  /\ Len(InWindow(k)) < MaxRequests
  /\ hits' = [hits EXCEPT ![k] = Append(InWindow(k), now)]
  /\ admitted' = [admitted EXCEPT ![k] = Append(@, now)]
  /\ promise' = [promise EXCEPT ![k] = 0]
  /\ UNCHANGED now

\* Mutant: a refused attempt is recorded too.
RefuseAndCount(k) ==
  /\ Len(InWindow(k)) >= MaxRequests
  /\ hits' = [hits EXCEPT ![k] = Append(InWindow(k), now)]
  /\ promise' = [promise EXCEPT ![k] = now + RetryAfter(InWindow(k)) * Second]
  /\ UNCHANGED <<now, admitted>>

Refuse(k) ==
  /\ Len(InWindow(k)) >= MaxRequests
  /\ hits' = [hits EXCEPT ![k] = InWindow(k)]
  /\ promise' = [promise EXCEPT ![k] = now + RetryAfter(InWindow(k)) * Second]
  /\ UNCHANGED <<now, admitted>>

Tick == /\ now < MaxTime
        /\ now' = now + 1
        /\ UNCHANGED <<hits, admitted, promise>>

Next == Tick \/ \E k \in Keys : Admit(k) \/ Refuse(k)

Spec == Init /\ [][Next]_vars

(***************************************************************************)
(* Properties.                                                             *)
(***************************************************************************)

\* Lines 21-22: "at most `max_requests` per `window_seconds` per key", in every
\* window wherever it starts: MaxRequests + 1 admissions in a row span more.
AtMostPerWindow ==
  \A k \in Keys : \A i \in 1..(Len(admitted[k]) - MaxRequests) :
    admitted[k][i + MaxRequests] - admitted[k][i] > Window

\* A client that waits as long as Retry-After said is not refused again, unless
\* another request from its address was admitted in the meantime.
RetryIsEnough ==
  [][\A k \in Keys : Refuse(k) => promise[k] = 0 \/ now < promise[k]]_vars

\* A request is refused only for requests that were admitted in the last window:
\* hammering while locked out does not prolong the lockout.
RefusedForCause ==
  [][\A k \in Keys : Refuse(k) =>
       LET n == Len(admitted[k]) IN
       n >= MaxRequests /\ admitted[k][n - MaxRequests + 1] >= now - Window]_vars

(***************************************************************************)
(* The inductive invariant: the deque is the end of the admissions, what   *)
(* precedes it is out of the window, and the oldest entry of a full deque  *)
(* expires before the time promised.                                       *)
(***************************************************************************)
Gone(k) == Len(admitted[k]) - Len(hits[k])

DequeInv ==
  \A k \in Keys :
    /\ Gone(k) \in Nat /\ Len(hits[k]) <= MaxRequests
    /\ \A j \in 1..Len(hits[k]) : hits[k][j] = admitted[k][Gone(k) + j]
    /\ \A j \in 1..Len(hits[k]) : hits[k][j] <= now
    /\ \A i \in 1..Gone(k) : admitted[k][i] < now - Window

PromiseInv ==
  \A k \in Keys : promise[k] # 0 =>
    Len(hits[k]) = MaxRequests /\ hits[k][1] < promise[k] - Window

IInv == TypeOK /\ DequeInv /\ AtMostPerWindow /\ PromiseInv
=============================================================================
