------------------------------- MODULE Pacing --------------------------------
(***************************************************************************)
(* When a job runs next and when a request may leave the host: the GitHub  *)
(* rate limiter (rate_limiter.rs), the pacing of a Forgejo host            *)
(* (forgejo.rs, get), Retry-After (http.rs) and the waits execute_job      *)
(* computes from a page, a deferral or an error (queue.rs).                *)
(*                                                                         *)
(* `now` is the host's clock.  GitHub's clock is `lead` ahead of it, or    *)
(* behind it when lead is negative, and counts a quota per window, which   *)
(* starts with the first request after the previous one has ended.  The    *)
(* host only learns of the quota from the headers of a response, which     *)
(* give the window's end by GitHub's clock; a request whose response is    *)
(* lost, or that another process makes with the same token, is spent       *)
(* unheard.                                                                *)
(***************************************************************************)
EXTENDS Integers

CONSTANTS
  GitHubJobs, ForgejoJobs,  \* the jobs of each kind of host
  Quota,          \* GitHub's limit per window
  InitialQuota,   \* the limit RateLimiter::new assumes (5000)
  SafetyMargin,   \* its safety_margin (200)
  MarginShare,    \* the margin is at most this share of the limit (10)
  Window,         \* the length of a quota window
  Start,          \* the host's clock when the server starts
  Leads,          \* how far GitHub's clock may be ahead of the host's; negative
                  \* numbers are a host that is ahead of GitHub
  MaxLead,        \* none of Leads is greater
  MaxUnheard,     \* bound: requests spent unheard in one window
  Interval,       \* the pause between two requests to a Forgejo host
  RetryAfter,     \* the delays a host asks for in Retry-After
  PollInterval,   \* base_interval of a job
  BackoffUnit, BackoffCap, BackoffDoublings,  \* 30 s, 3600 s, 6
  MaxTime         \* bound: the clock

Jobs == GitHubJobs \cup ForgejoJobs

\* The smaller of two numbers.
Least(a, b) == IF a <= b THEN a ELSE b

ASSUME JobsAssumption == GitHubJobs \cap ForgejoJobs = {}

ASSUME TimesAssumption ==
  /\ Window \in Nat \ {0} /\ Interval \in Nat \ {0}
  /\ Leads \subseteq Int /\ Start \in Nat /\ MaxLead \in Nat
  /\ \A l \in Leads : l <= MaxLead /\ Start + l >= 0
  /\ RetryAfter \subseteq Nat \ {0}
  /\ PollInterval \in Nat \ {0} /\ BackoffUnit \in Nat \ {0} /\ BackoffCap \in Nat \ {0}
  /\ BackoffDoublings \in Nat /\ MaxTime \in Nat
  \* Plain arithmetic, stated because a prover has no theory of powers.
  /\ \A n \in 0..BackoffDoublings : BackoffUnit * 2^n \in Nat

\* What is spent unheard fits into the margin: the situation the margin is for.
ASSUME MarginAssumption ==
  /\ Quota \in Nat /\ InitialQuota \in Nat /\ SafetyMargin \in Nat
  /\ MarginShare \in Nat \ {0} /\ MaxUnheard \in Nat
  /\ MaxUnheard < Quota
  /\ MaxUnheard <= SafetyMargin /\ MaxUnheard <= Quota \div MarginShare

VARIABLES
  now,
  lead,
  used,        \* GitHub: requests counted in the current window
  windowEnd,   \* GitHub: when that window ends, by GitHub's clock
  unheard,     \* of those, how many no response has told this limiter about
  limiter,     \* RateLimiter: limit, remaining, reset_at
  nextRequest, \* ForgejoClient.next_request
  nextRun,     \* SyncJob.next_run
  retries,     \* SyncJob.retry_count, as far as the backoff looks at it
  refused,     \* history: when GitHub has refused a request for want of quota:
               \* "within" its window by the host's clock, or "after" it
  deferredFor, \* history: the reset_at a job was last deferred for
  quietUntil,  \* history: the end of the silence the Forgejo host asked for
  paced        \* history: no request left for the Forgejo host too early

clocks == <<now, lead>>
github == <<used, windowEnd, unheard, limiter, refused>>
forge == <<nextRequest, quietUntil, paced>>
pacingVars == <<clocks, github, forge, nextRun, retries, deferredFor>>

PacingInit ==
  /\ now = Start
  /\ lead \in Leads
  /\ used = 0 /\ windowEnd = 0 /\ unheard = 0
  /\ limiter = [limit |-> InitialQuota, remaining |-> InitialQuota, reset |-> 0]
  /\ nextRequest = 0
  /\ nextRun = [j \in Jobs |-> 0]
  /\ retries = [j \in Jobs |-> 0]
  /\ refused = {}
  /\ deferredFor = [j \in Jobs |-> 0]
  /\ quietUntil = 0
  /\ paced = TRUE

Tick ==
  /\ now < MaxTime
  /\ now' = now + 1
  /\ UNCHANGED <<lead, github, forge, nextRun, retries, deferredFor>>

-----------------------------------------------------------------------------
(* The waits of execute_job.                                               *)

\* run pops the job with the earliest next_run, if it has arrived.
Due(j) == nextRun[j] <= now /\ \A k \in Jobs : nextRun[j] <= nextRun[k]

Wait(j, d) == nextRun' = [nextRun EXCEPT ![j] = now + d]

\* A committed page: at once while paginating, else the adaptive interval.
PageWaits == {0, 2 * PollInterval, PollInterval, PollInterval \div 2}

Succeed(j) ==
  /\ \E d \in PageWaits : Wait(j, d)
  /\ retries' = [retries EXCEPT ![j] = 0]

Backoff(n) == Least(BackoffUnit * 2^n, BackoffCap)

Fail(j) ==
  LET n == Least(retries[j] + 1, BackoffDoublings)
  IN  /\ retries' = [retries EXCEPT ![j] = n]
      /\ Wait(j, Backoff(n))

Defer(j, d) == Wait(j, d) /\ UNCHANGED retries

-----------------------------------------------------------------------------
(* The rate limiter.                                                       *)

\* Slip: a deferral starts only below the margin.
DeniedBelow ==
  /\ limiter.remaining < Least(SafetyMargin, limiter.limit \div MarginShare)
  /\ limiter.reset > now

Denied ==
  /\ limiter.remaining <= Least(SafetyMargin, limiter.limit \div MarginShare)
  /\ limiter.reset > now

\* What acquire leaves behind when it grants the request.
Acquired ==
  IF limiter.reset <= now THEN [limiter EXCEPT !.remaining = limiter.limit] ELSE limiter

\* Slip: reset_at is taken for a duration.
DeferralAbsolute == limiter.reset

\* Slip: the deferral ends before the window does.
DeferralShort == limiter.reset - now - 1

Deferral == limiter.reset - now + 1

DeferGitHub(j) ==
  /\ Due(j)
  /\ Denied
  /\ Defer(j, Deferral)
  /\ deferredFor' = [deferredFor EXCEPT ![j] = limiter.reset]
  /\ UNCHANGED <<clocks, github, forge>>

\* GitHub counts a request, in a new window if the last one has ended, and
\* refuses one beyond the quota.
NewWindow == now + lead >= windowEnd
UsedBefore == IF NewWindow THEN 0 ELSE used
UnheardBefore == IF NewWindow THEN 0 ELSE unheard

Count ==
  /\ windowEnd' = IF NewWindow THEN now + lead + Window ELSE windowEnd
  /\ used' = IF UsedBefore < Quota THEN UsedBefore + 1 ELSE UsedBefore

Refuse == refused' = refused \cup {IF now < windowEnd THEN "within" ELSE "after"}

\* The response carries the quota headers: update_from_response.
HeardGitHub(j) ==
  /\ Due(j) /\ ~Denied
  /\ Count
  /\ unheard' = 0
  /\ limiter' = [limit |-> Quota, remaining |-> Quota - used', reset |-> windowEnd']
  /\ IF UsedBefore = Quota
     THEN Refuse /\ Fail(j)
     ELSE /\ UNCHANGED refused
          \* A page, an error of any other kind, or a secondary limit, which
          \* github_get turns into a deferral.
          /\ Succeed(j) \/ Fail(j) \/ \E d \in RetryAfter : Defer(j, d)
  /\ UNCHANGED <<clocks, forge, deferredFor>>

\* The request was counted, its response never arrives.
LostGitHub(j) ==
  /\ Due(j) /\ ~Denied
  /\ UnheardBefore < MaxUnheard
  /\ Count
  /\ unheard' = UnheardBefore + 1
  /\ limiter' = Acquired
  /\ IF UsedBefore = Quota THEN Refuse ELSE UNCHANGED refused
  /\ Fail(j)
  /\ UNCHANGED <<clocks, forge, deferredFor>>

\* A command line process with a limiter of its own and the same token.
OtherProcess ==
  /\ UnheardBefore < MaxUnheard
  /\ UsedBefore < Quota
  /\ Count
  /\ unheard' = UnheardBefore + 1
  /\ UNCHANGED <<clocks, forge, nextRun, retries, deferredFor, limiter, refused>>

-----------------------------------------------------------------------------
(* The Forgejo host, one client for all its feeds.                         *)

DeferForgejo(j) ==
  /\ Due(j)
  /\ nextRequest > now
  /\ Defer(j, nextRequest - now)
  /\ UNCHANGED <<clocks, github, forge, deferredFor>>

\* Slip: the silence the host asks for is kept by the one job only.
SilenceOfOneJob(d) == nextRequest' = now + Interval

Silence(d) == nextRequest' = now + d

SendForgejo(j) ==
  /\ Due(j)
  /\ nextRequest <= now
  /\ paced' = (paced /\ now >= quietUntil)
  /\ \/ /\ nextRequest' = now + Interval
        /\ Succeed(j) \/ Fail(j)
        /\ quietUntil' = now + Interval
     \/ \E d \in RetryAfter :
          /\ Silence(d)
          /\ Defer(j, d)
          /\ quietUntil' = now + d
  /\ UNCHANGED <<clocks, github, deferredFor>>

-----------------------------------------------------------------------------
GitHubStep(j) == DeferGitHub(j) \/ HeardGitHub(j) \/ LostGitHub(j)

ForgejoStep(j) == DeferForgejo(j) \/ SendForgejo(j)

PacingNext ==
  \/ Tick
  \/ \E j \in GitHubJobs : GitHubStep(j)
  \/ \E j \in ForgejoJobs : ForgejoStep(j)
  \/ OtherProcess

PacingSpec == PacingInit /\ [][PacingNext]_pacingVars

-----------------------------------------------------------------------------
(* Properties.                                                             *)

\* Times are never negative, the limiter's view of the quota stays within the
\* limit it has seen, and a window is never known before it has begun.
PacingTypeOK ==
  /\ now \in Nat /\ lead \in Leads /\ now + lead >= 0 /\ used \in 0..Quota /\ windowEnd \in Nat /\ unheard \in 0..MaxUnheard
  /\ limiter \in [limit : {Quota, InitialQuota}, remaining : Nat, reset : Nat]
  /\ nextRequest \in Nat /\ nextRun \in [Jobs -> Nat]
  /\ retries \in [Jobs -> 0..BackoffDoublings]
  /\ refused \subseteq {"within", "after"} /\ deferredFor \in [Jobs -> Nat] /\ quietUntil \in Nat /\ paced \in BOOLEAN

\* The margin and the refill at the end of the window keep the scheduler
\* within the quota, although acquire does not count requests itself and some
\* responses are lost: a request is refused only when the window is over by
\* this host's clock and not by GitHub's, so never while the host is not ahead.
RefusedOnlyAhead == "within" \notin refused /\ ("after" \in refused => lead < 0)

\* Why: in the window the limiter knows, what it believes to be left differs
\* from what is left by what was spent unheard; in a window it has not heard
\* of, all that is spent was spent unheard.
QuotaKnown ==
  /\ unheard <= used
  /\ limiter.reset <= windowEnd
  /\ windowEnd <= now + lead + Window
  /\ IF limiter.reset = windowEnd /\ windowEnd > 0
     THEN /\ limiter.limit = Quota
          /\ limiter.reset > now => limiter.remaining = Quota - used + unheard
     ELSE used = unheard

\* One deferral reaches the next window: a job is not deferred again, when its
\* time has come, for the very window it waited for.
DeferralSuffices ==
  \A j \in GitHubJobs : Due(j) /\ deferredFor[j] > 0 /\ deferredFor[j] = limiter.reset => ~Denied

\* A host's request for silence and the pause between requests hold for every
\* feed of the host, not only for the one that was told.
HostIsPaced == paced

\* Whatever a reply, a header or a row of failures says, no job is put off
\* for longer than this.
LongestWait == {BackoffCap, 2 * PollInterval, Window + MaxLead + 1} \cup RetryAfter \cup {Interval}

WaitsBounded == \A j \in Jobs : \E w \in LongestWait : nextRun[j] <= now + w
=============================================================================
