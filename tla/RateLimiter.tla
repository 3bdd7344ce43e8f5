---------------------------- MODULE RateLimiter ----------------------------
(***************************************************************************)
(* The two sliding-window limiters of src/api/app.py and the middleware    *)
(* that asks them, the per-IP limiter first and then the one all clients   *)
(* share.  The middleware is a coroutine with no await between the two, so *)
(* one request is decided in one step; the limiters' lock is never         *)
(* contended.  /health goes by without being counted.                      *)
(*                                                                         *)
(* The limiters read time.time(), the wall clock, which is not the time    *)
(* that passes: it may be set.                                             *)
(***************************************************************************)
EXTENDS Integers, Sequences, FiniteSets

CONSTANTS Clients,      \* request.client.host
          Window,       \* 60 seconds
          PerIp,        \* 600 requests
          Global,       \* 3000 requests
          ClockSteps,   \* by how much the clock may be set
          MaxSkew,      \* bound: how far the clock gets from the time
          MaxTime,      \* bound: time that passes in a behaviour
          MaxRequests   \* bound: requests of a behaviour

ASSUME LimiterAssumption ==
  /\ Window \in Nat \ {0} /\ PerIp \in Nat \ {0} /\ Global \in Nat \ {0}
  /\ ClockSteps \subseteq Int
  /\ MaxSkew \in Nat /\ MaxTime \in Nat /\ MaxRequests \in Nat

VARIABLES time,     \* the time that has passed
          clock,    \* time.time()
          perIp,    \* _per_ip_limiter.requests, see Kept
          global,   \* _global_limiter.requests["global"]
          log       \* what was asked, when, and what was answered

vars == <<time, clock, perIp, global, log>>

Init == /\ time = 0
        /\ clock = 0
        /\ perIp = [c \in Clients |-> {}]
        /\ global = {}
        /\ log = <<>>

----------------------------------------------------------------------------
(* A limiter keeps a list of timestamps, and looks at their number and     *)
(* their ages only: it is the set of the requests they belong to, by their *)
(* places in the log.  A key not there yet is the empty set.               *)

\* FAULTY: a request counts for a moment less than the window.
FaultyKept(requests) == {j \in requests : clock - log[j].clock < Window - 1}

\* FAULTY: a request counts for a moment more than the window.
StaleKept(requests) == {j \in requests : clock - log[j].clock <= Window}

(* The requests still in the window. *)
Kept(requests) == {j \in requests : clock - log[j].clock < Window}

\* FAULTY: off by one.
FaultyAllows(requests, max) == Cardinality(Kept(requests)) <= max

(* is_allowed: its result, and the requests it leaves. *)
Allows(requests, max) == Cardinality(Kept(requests)) < max
After(requests, max) ==
  Kept(requests) \cup (IF Allows(requests, max) THEN {Len(log) + 1} ELSE {})

Logged(c, answer) ==
  log' = Append(log, [client |-> c, at |-> time, clock |-> clock, answer |-> answer])

(* rate_limit_middleware: a client over its own limit does not reach the   *)
(* shared limiter; one that the shared limiter refuses has spent one of    *)
(* its own requests all the same.                                          *)
Request(c) ==
  /\ Len(log) < MaxRequests
  /\ perIp' = [perIp EXCEPT ![c] = After(@, PerIp)]
  /\ IF Allows(perIp[c], PerIp)
     THEN /\ global' = After(global, Global)
          /\ Logged(c, IF Allows(global, Global) THEN "served" ELSE "refused by all")
     ELSE /\ UNCHANGED global
          /\ Logged(c, "refused per IP")
  /\ UNCHANGED <<time, clock>>

Tick == /\ time < MaxTime
        /\ time' = time + 1
        /\ clock' = clock + 1
        /\ UNCHANGED <<perIp, global, log>>

(* The clock is set: by ntpd, or by whoever administers the machine. *)
SetClock(d) == /\ clock' = clock + d
               /\ clock' - time \in -MaxSkew..MaxSkew
               /\ UNCHANGED <<time, perIp, global, log>>

Next == \/ \E c \in Clients : Request(c)
        \/ Tick
        \/ \E d \in ClockSteps : SetClock(d)

Spec == Init /\ [][Next]_vars

----------------------------------------------------------------------------
Answers == {"served", "refused per IP", "refused by all"}

(* The types of the variables; no limiter holds more timestamps than it    *)
(* has requests to give.                                                   *)
TypeOK ==
  /\ time \in 0..MaxTime
  /\ clock \in Int
  /\ log \in Seq([client : Clients, at : Nat, clock : Int, answer : Answers])
  /\ perIp \in [Clients -> SUBSET (DOMAIN log)]
  /\ \A c \in Clients : Cardinality(perIp[c]) <= PerIp
  /\ global \subseteq DOMAIN log /\ Cardinality(global) <= Global

(* The requests before (or at) the i-th in the window it ends. *)
Recent(i) == {j \in 1..i : log[i].at - log[j].at < Window}
RecentOf(c, i) == {j \in Recent(i) : log[j].client = c}

PerClientRate ==
  \A i \in DOMAIN log :
    Cardinality({j \in RecentOf(log[i].client, i) : log[j].answer = "served"}) <= PerIp
GlobalRate ==
  \A i \in DOMAIN log :
    Cardinality({j \in Recent(i) : log[j].answer = "served"}) <= Global

(* No client is served more than PerIp requests in any window of time, and *)
(* all of them together no more than Global, however requests and time     *)
(* interleave and however far the clock is set back (app.py:48-64, 67-70). *)
Rates == PerClientRate /\ GlobalRate

(* Nobody is refused without cause: a client refused for its own rate has  *)
(* got PerIp requests past its limiter in the window just before, and one  *)
(* refused for everybody's rate comes when Global requests were served in  *)
(* it.  In particular a client that was silent for a window is never       *)
(* refused for its own rate, and the other clients cannot make it so.  As  *)
(* long as nobody has set the clock (app.py:53-64, 97-102).                *)
RefusedForCause ==
  \A i \in DOMAIN log : (\A j \in 1..i : log[j].clock = log[j].at) =>
    /\ log[i].answer = "refused per IP" =>
         PerIp = Cardinality({j \in RecentOf(log[i].client, i) :
                                log[j].answer # "refused per IP"})
    /\ log[i].answer = "refused by all" =>
         Global = Cardinality({j \in Recent(i) : log[j].answer = "served"})
=============================================================================
