---------------------------- MODULE HttpSession ----------------------------
(***************************************************************************)
(* composer_http: what one page costs and whether it comes (the deadline   *)
(* of an attempt, the retries, the pause between requests), and which      *)
(* pages of earlier runs the mirror still serves. Times are whole numbers. *)
(***************************************************************************)
EXTENDS Naturals, Sequences, FiniteSets, SequencesExt

CONSTANTS
  Retries,   \* the attempts a page is given
  Timeout,   \* timeout_s: the longest single wait, and an attempt's deadline
  Delay,     \* delay_s: the least time between two requests
  Interval   \* the age at which a page of a source with a cadence is stale

ASSUME HttpAssumption ==
  {Retries, Timeout, Interval} \subseteq Nat \ {0} /\ Delay \in Nat

-----------------------------------------------------------------------------
(* A reaction is what a server makes of one attempt: gaps, the waits of    *)
(* its socket operations (connecting, headers, each piece of the body),    *)
(* accepted, whether the status is a good one, and retryAfter.             *)

(* A deadline of every read by itself.                                     *)
ClampPerRead(took) == Timeout

(* _Budget.clamp: an operation waits at most for what the deadline leaves. *)
Clamp(took) == IF took >= Timeout THEN 0 ELSE Timeout - took

(* One operation more: r says whether the others came and what they took.  *)
Wait(r, gap) ==
  IF ~r.came THEN r
  ELSE IF Clamp(r.took) > 0 /\ gap <= Clamp(r.took) THEN [r EXCEPT !.took = @ + gap]
  ELSE [came |-> FALSE, took |-> r.took + Clamp(r.took)]

Receive(gaps) ==
  LET after[n \in 0 .. Len(gaps)] ==
        IF n = 0 THEN [came |-> TRUE, took |-> 0] ELSE Wait(after[n - 1], gaps[n])
  IN  after[Len(gaps)]

(* A call in progress: the clock, when the last request ended (0: none     *)
(* yet), the requests sent, and whether the page came.                     *)
Pause(call) ==
  IF call.ended = 0 \/ call.now >= call.ended + Delay THEN 0 ELSE call.ended + Delay - call.now

SendOnce(call, reaction) ==
  LET got == Receive(reaction.gaps)
      end == call.now + Pause(call) + got.took
  IN  [now |-> end, ended |-> end, requests |-> call.requests + 1, came |-> got.came /\ reaction.accepted]

(* Retry-After belongs to a status error; a time-out has no such header.   *)
RetryWait(attempt, reaction) ==
  IF Receive(reaction.gaps).came THEN Max({2 ^ attempt, reaction.retryAfter}) ELSE 2 ^ attempt

(* An attempt, and the wait before the next one where there is to be one.  *)
Attempt(call, attempt, reaction) ==
  LET tried == SendOnce(call, reaction)
  IN  IF call.came THEN call
      ELSE IF tried.came \/ attempt = Retries THEN tried
      ELSE [tried EXCEPT !.now = @ + RetryWait(attempt, reaction)]

CallWithRetries(call, reactions) ==
  LET after[n \in 0 .. Retries] ==
        IF n = 0 THEN [call EXCEPT !.came = FALSE] ELSE Attempt(after[n - 1], n, reactions[n])
  IN  after[Retries]

(* The longest a page may hold a crawl when no server asks for more than   *)
(* longest seconds with Retry-After.                                       *)
PageBudget(longest) ==
  LET waits[n \in 0 .. Retries - 1] == IF n = 0 THEN 0 ELSE waits[n - 1] + Max({2 ^ n, longest})
  IN  Retries * (Delay + Timeout) + waits[Retries - 1]

-----------------------------------------------------------------------------
(* PageCache: url -> [body, age, request, readable]. request stands for    *)
(* the fingerprint of the query that was asked; a lookup that gives none   *)
(* takes any. A row that cannot be read is a miss.                         *)

(* A mirror whose pages never age.                                         *)
NeverStale(row, request, fingerprinted, static) == fingerprinted => row.request = request

(* _fresh: a static source gives no max_age, its pages never go stale.     *)
Fresh(row, request, fingerprinted, static) ==
  /\ fingerprinted => row.request = request
  /\ static \/ row.age < Interval

Readable(row) == row.readable

Served(rows, request, fingerprinted, static) ==
  [u \in {u \in DOMAIN rows : Readable(rows[u]) /\ Fresh(rows[u], request, fingerprinted, static)}
     |-> rows[u].body]

(* put: what the run stored replaces what was there; what it was served    *)
(* keeps its age.                                                          *)
Stored(rows, served, mirror, request) ==
  [u \in DOMAIN rows \union DOMAIN mirror |->
     IF u \in DOMAIN mirror \ DOMAIN served
     THEN [body |-> mirror[u], age |-> 0, request |-> request, readable |-> TRUE]
     ELSE rows[u]]
=============================================================================
