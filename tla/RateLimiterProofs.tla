------------------------- MODULE RateLimiterProofs -------------------------
(***************************************************************************)
(* The rates hold, and nobody is refused without cause, for any number of  *)
(* clients, any window and limits, and behaviours of any length.           *)
(*                                                                         *)
(* The argument: what a limiter has forgotten is at least a window old     *)
(* (Remembered), so the requests of a window are all among those it still  *)
(* holds, and it never holds more than its limit.  The age a limiter sees  *)
(* is the clock's; it is at most the true age while the clock is never set *)
(* forward (Skew), and equal to it while each request was stamped with the *)
(* true time.                                                              *)
(***************************************************************************)
EXTENDS RateLimiter, FiniteSetTheorems, TLAPS

NeverSetForward == ClockSteps \subseteq {d \in Int : d <= 0}
TrueClock == \A j \in DOMAIN log : log[j].clock = log[j].at

\* The requests a limiter holds are requests it let through.
Counted ==
  /\ \A c \in Clients : \A j \in perIp[c] :
       log[j].client = c /\ log[j].answer # "refused per IP"
  /\ \A j \in global : log[j].answer = "served"

\* No request is logged after now, and none has a clock further behind.
Skew ==
  \A j \in DOMAIN log :
    /\ log[j].at <= time
    /\ NeverSetForward => clock - time <= log[j].clock - log[j].at

\* What is not held any more is a window old.
Remembered ==
  NeverSetForward \/ TrueClock =>
    \A j \in DOMAIN log : time - log[j].at < Window =>
      /\ log[j].answer # "refused per IP" => j \in perIp[log[j].client]
      /\ log[j].answer = "served" => j \in global

Inv ==
  /\ Counted /\ Skew /\ Remembered
  /\ (NeverSetForward => Rates) /\ RefusedForCause

Entry == [client : Clients, at : Nat, clock : Int, answer : Answers]

----------------------------------------------------------------------------
LEMMA Held ==
    ASSUME TypeOK, NEW S \in SUBSET (DOMAIN log)
    PROVE  /\ IsFiniteSet(S) /\ Cardinality(S) \in Nat
           /\ IsFiniteSet(Kept(S)) /\ Cardinality(Kept(S)) \in Nat
           /\ Cardinality(Kept(S)) <= Cardinality(S)
<1>1. DOMAIN log = 1 .. Len(log) /\ Len(log) \in Nat
  BY DEF TypeOK
<1>2. IsFiniteSet(DOMAIN log)
  BY <1>1, FS_Interval
<1>3. IsFiniteSet(S)
  BY <1>2, FS_Subset
<1>4. Kept(S) \in SUBSET S
  BY DEF Kept
<1> QED
  BY <1>3, <1>4, FS_Subset, FS_CardinalityType

\* A limiter never holds more than its limit.
LEMMA HeldAtMost ==
    ASSUME TypeOK, NEW S \in SUBSET (DOMAIN log), NEW max \in Nat,
           Cardinality(S) <= max
    PROVE  /\ After(S, max) \in SUBSET (1 .. Len(log) + 1)
           /\ IsFiniteSet(After(S, max))
           /\ Cardinality(After(S, max)) <= max
<1>1. DOMAIN log = 1 .. Len(log) /\ Len(log) \in Nat
  BY DEF TypeOK
<1>2. Kept(S) \in SUBSET (1 .. Len(log))
  BY <1>1 DEF Kept
<1>3. Len(log) + 1 \notin Kept(S)
  BY <1>1, <1>2
<1>4. CASE Allows(S, max)
  <2>1. After(S, max) = Kept(S) \cup {Len(log) + 1}
    BY <1>4 DEF After
  <2>2. Cardinality(Kept(S) \cup {Len(log) + 1}) = Cardinality(Kept(S)) + 1
    BY <1>3, Held, FS_AddElement
  <2>3. Cardinality(Kept(S)) < max
    BY <1>4 DEF Allows
  <2>4. IsFiniteSet(Kept(S) \cup {Len(log) + 1})
    BY Held, FS_AddElement
  <2>5. Kept(S) \cup {Len(log) + 1} \in SUBSET (1 .. Len(log) + 1)
    BY <1>1, <1>2
  <2>6. Cardinality(Kept(S)) \in Nat
    BY Held
  <2> QED
    BY <2>1, <2>2, <2>3, <2>4, <2>5, <2>6
<1>5. CASE ~Allows(S, max)
  <2>1. After(S, max) = Kept(S)
    BY <1>5 DEF After
  <2>2. Kept(S) \in SUBSET (1 .. Len(log) + 1)
    BY <1>1, <1>2
  <2>3. /\ IsFiniteSet(Kept(S)) /\ Cardinality(Kept(S)) \in Nat
        /\ Cardinality(S) \in Nat /\ Cardinality(Kept(S)) <= Cardinality(S)
    BY Held
  <2> QED
    BY <2>1, <2>2, <2>3
<1> QED
  BY <1>4, <1>5

\* The log after one more request.
LEMMA LogGrows ==
    ASSUME TypeOK, NEW c \in Clients, NEW a \in Answers, Logged(c, a)
    PROVE  /\ log' \in Seq(Entry)
           /\ Len(log') = Len(log) + 1 /\ Len(log) \in Nat
           /\ DOMAIN log = 1 .. Len(log) /\ DOMAIN log' = 1 .. Len(log) + 1
           /\ \A j \in 1 .. Len(log) : log'[j] = log[j] /\ log[j] \in Entry
           /\ log'[Len(log) + 1] = [client |-> c, at |-> time, clock |-> clock, answer |-> a]
<1> DEFINE e == [client |-> c, at |-> time, clock |-> clock, answer |-> a]
<1>1. e \in Entry /\ log \in Seq(Entry)
  BY DEF TypeOK, Entry
<1>2. log' = Append(log, e)
  BY DEF Logged
<1> HIDE DEF e
<1>3. /\ log' \in Seq(Entry) /\ Len(log') = Len(log) + 1 /\ Len(log) \in Nat
      /\ DOMAIN log = 1 .. Len(log) /\ DOMAIN log' = 1 .. Len(log')
      /\ \A j \in 1 .. Len(log) : log'[j] = log[j] /\ log[j] \in Entry
      /\ log'[Len(log) + 1] = e
  BY <1>1, <1>2
<1> QED
  BY <1>3 DEF e

\* What a request does, with its answer named.
Asked(c, a) ==
  /\ Logged(c, a) /\ UNCHANGED <<time, clock>>
  /\ perIp' = [perIp EXCEPT ![c] = After(@, PerIp)]
  /\ a = "refused per IP" <=> ~Allows(perIp[c], PerIp)
  /\ a = "refused per IP" => global' = global
  /\ a # "refused per IP" => global' = After(global, Global)
  /\ a # "refused per IP" => (a = "served" <=> Allows(global, Global))

LEMMA RequestIsAsked ==
    ASSUME NEW c \in Clients, Request(c)
    PROVE  \E a \in Answers : Asked(c, a)
<1>1. CASE ~Allows(perIp[c], PerIp)
  <2>1. Asked(c, "refused per IP")
    BY <1>1 DEF Request, Asked
  <2> QED
    BY <2>1 DEF Answers
<1>2. CASE Allows(perIp[c], PerIp) /\ Allows(global, Global)
  <2>1. Asked(c, "served")
    BY <1>2 DEF Request, Asked
  <2> QED
    BY <2>1 DEF Answers
<1>3. CASE Allows(perIp[c], PerIp) /\ ~Allows(global, Global)
  <2>1. Asked(c, "refused by all")
    BY <1>3 DEF Request, Asked
  <2> QED
    BY <2>1 DEF Answers
<1> QED
  BY <1>1, <1>2, <1>3

----------------------------------------------------------------------------
LEMMA TypeAsked ==
    ASSUME TypeOK, NEW c \in Clients, NEW a \in Answers, Asked(c, a)
    PROVE  TypeOK'
<1>1. time' = time /\ clock' = clock /\ Logged(c, a)
  BY DEF Asked
<1>2. log' \in Seq(Entry) /\ DOMAIN log = 1 .. Len(log) /\ DOMAIN log' = 1 .. Len(log) + 1
      /\ Len(log) \in Nat
  BY <1>1, LogGrows
<1>3. perIp \in [Clients -> SUBSET (DOMAIN log)]
      /\ (\A d \in Clients : Cardinality(perIp[d]) <= PerIp)
      /\ global \in SUBSET (DOMAIN log) /\ Cardinality(global) <= Global
      /\ time \in 0 .. MaxTime /\ clock \in Int
  BY DEF TypeOK
<1>4. PerIp \in Nat /\ Global \in Nat
  BY LimiterAssumption
<1>5. After(perIp[c], PerIp) \in SUBSET (DOMAIN log')
      /\ Cardinality(After(perIp[c], PerIp)) <= PerIp
  BY <1>2, <1>3, <1>4, HeldAtMost
<1>6. global' \in SUBSET (DOMAIN log') /\ Cardinality(global') <= Global
  <2>1. CASE a = "refused per IP"
    <3>1. global' = global
      BY <2>1 DEF Asked
    <3>2. DOMAIN log \subseteq DOMAIN log'
      BY <1>2
    <3>3. global \in SUBSET (DOMAIN log')
      BY <1>3, <3>2
    <3> QED
      BY <1>3, <3>1, <3>3
  <2>2. CASE a # "refused per IP"
    <3>1. global' = After(global, Global)
      BY <2>2 DEF Asked
    <3>2. After(global, Global) \in SUBSET (1 .. Len(log) + 1)
          /\ Cardinality(After(global, Global)) <= Global
      BY <1>3, <1>4, HeldAtMost
    <3> QED
      BY <1>2, <3>1, <3>2
  <2> QED
    BY <2>1, <2>2
<1>7. perIp' \in [Clients -> SUBSET (DOMAIN log')]
      /\ \A d \in Clients : Cardinality(perIp'[d]) <= PerIp
  <2>1. perIp' = [perIp EXCEPT ![c] = After(perIp[c], PerIp)]
    BY DEF Asked
  <2>2. \A d \in Clients : perIp[d] \in SUBSET (DOMAIN log')
    BY <1>2, <1>3
  <2> QED
    BY <1>3, <1>5, <2>1, <2>2
<1> QED
  BY <1>1, <1>2, <1>3, <1>6, <1>7 DEF TypeOK, Entry

LEMMA TypeStep == TypeOK /\ [Next]_vars => TypeOK'
<1> SUFFICES ASSUME TypeOK, [Next]_vars PROVE TypeOK'
  OBVIOUS
<1>1. ASSUME NEW c \in Clients, Request(c) PROVE TypeOK'
  BY <1>1, RequestIsAsked, TypeAsked
<1>2. CASE Tick
  BY <1>2, LimiterAssumption DEF Tick, TypeOK
<1>3. ASSUME NEW d \in ClockSteps, SetClock(d) PROVE TypeOK'
  BY <1>3, LimiterAssumption DEF SetClock, TypeOK
<1>4. CASE UNCHANGED vars
  BY <1>4 DEF vars, TypeOK
<1> QED
  BY <1>1, <1>2, <1>3, <1>4 DEF Next

LEMMA TypeInit == Init => TypeOK
<1> SUFFICES ASSUME Init PROVE TypeOK
  OBVIOUS
<1>1. Cardinality({}) = 0
  BY FS_EmptySet
<1> QED
  BY <1>1, LimiterAssumption DEF Init, TypeOK

\* Types; and no limiter ever holds more timestamps than its limit.
THEOREM TypeCorrect == Spec => []TypeOK
  BY TypeInit, TypeStep, PTL DEF Spec

----------------------------------------------------------------------------
(* The invariant.                                                          *)

LEMMA CountedAsked ==
    ASSUME TypeOK, Counted, NEW c \in Clients, NEW a \in Answers, Asked(c, a)
    PROVE  Counted'
<1> DEFINE n == Len(log) + 1
<1>1. Logged(c, a)
  BY DEF Asked
<1>2. /\ DOMAIN log = 1 .. Len(log) /\ Len(log) \in Nat
      /\ \A j \in 1 .. Len(log) : log'[j] = log[j]
      /\ log'[n] = [client |-> c, at |-> time, clock |-> clock, answer |-> a]
  BY <1>1, LogGrows
<1>3. /\ \A d \in Clients : perIp[d] \in SUBSET (DOMAIN log)
      /\ perIp \in [Clients -> SUBSET (DOMAIN log)]
      /\ global \in SUBSET (DOMAIN log)
  BY DEF TypeOK
<1>4. ASSUME NEW d \in Clients, NEW j \in perIp'[d]
      PROVE  log'[j].client = d /\ log'[j].answer # "refused per IP"
  <2>1. CASE j \in perIp[d]
    BY <1>2, <1>3, <2>1 DEF Counted
  <2>2. CASE j \notin perIp[d]
    <3>1. perIp' = [perIp EXCEPT ![c] = After(perIp[c], PerIp)]
      BY DEF Asked
    <3>2. d = c /\ j \in After(perIp[c], PerIp)
      BY <1>3, <1>4, <2>2, <3>1
    <3>3. Allows(perIp[c], PerIp) /\ j = n
      BY <2>2, <3>2 DEF After, Kept
    <3>4. a # "refused per IP"
      BY <3>3 DEF Asked
    <3>5. log'[n].client = c /\ log'[n].answer = a
      BY <1>2
    <3> QED
      BY <3>2, <3>3, <3>4, <3>5
  <2> QED
    BY <2>1, <2>2
<1>5. ASSUME NEW j \in global'
      PROVE  log'[j].answer = "served"
  <2>1. CASE j \in global
    BY <1>2, <1>3, <2>1 DEF Counted
  <2>2. CASE j \notin global
    <3>1. a # "refused per IP" /\ global' = After(global, Global)
      BY <1>5, <2>2 DEF Asked
    <3>2. j \in After(global, Global)
      BY <1>5, <3>1
    <3>3. Allows(global, Global) /\ j = n
      BY <2>2, <3>2 DEF After, Kept
    <3>4. a = "served"
      BY <3>1, <3>3 DEF Asked
    <3> QED
      BY <1>2, <3>3, <3>4
  <2> QED
    BY <2>1, <2>2
<1> QED
  BY <1>4, <1>5 DEF Counted

LEMMA SkewAsked ==
    ASSUME TypeOK, Skew, NEW c \in Clients, NEW a \in Answers, Asked(c, a)
    PROVE  Skew'
<1> DEFINE n == Len(log) + 1
<1>1. Logged(c, a) /\ time' = time /\ clock' = clock
  BY DEF Asked
<1>2. /\ DOMAIN log = 1 .. Len(log) /\ DOMAIN log' = 1 .. n /\ Len(log) \in Nat
      /\ \A j \in 1 .. Len(log) : log'[j] = log[j] /\ log[j] \in Entry
      /\ log'[n] = [client |-> c, at |-> time, clock |-> clock, answer |-> a]
  BY <1>1, LogGrows
<1>3. time \in Int /\ clock \in Int
  BY DEF TypeOK
<1>4. ASSUME NEW j \in DOMAIN log'
      PROVE  /\ log'[j].at <= time
             /\ NeverSetForward => clock - time <= log'[j].clock - log'[j].at
  <2>1. CASE j = n
    BY <1>2, <1>3, <2>1
  <2>2. CASE j \in 1 .. Len(log)
    BY <1>2, <2>2 DEF Skew
  <2> QED
    BY <1>2, <1>4, <2>1, <2>2
<1> QED
  BY <1>1, <1>4 DEF Skew, NeverSetForward

\* What a limiter drops is a window old.
LEMMA DroppedIsOld ==
    ASSUME TypeOK, Skew, NEW S \in SUBSET (DOMAIN log), NEW j \in S, j \notin Kept(S),
           NeverSetForward \/ (log[j].clock = log[j].at /\ clock = time)
    PROVE  time - log[j].at >= Window
<1>1. clock - log[j].clock >= Window
  <2>1. ~(clock - log[j].clock < Window)
    BY DEF Kept
  <2>2. log[j] \in Entry /\ clock \in Int /\ Window \in Int
    <3>1. log \in Seq(Entry) /\ j \in DOMAIN log
      BY DEF TypeOK, Entry
    <3>2. log[j] \in Entry
      BY <3>1
    <3> QED
      BY <3>2, LimiterAssumption DEF TypeOK
  <2>3. log[j].clock \in Int
    BY <2>2 DEF Entry
  <2> QED
    BY <2>1, <2>2, <2>3
<1>2. /\ log[j].clock \in Int /\ clock \in Int /\ Window \in Int
      /\ log[j].at \in Int /\ time \in Int
  <2>1. log[j] \in Entry
    <3>1. log \in Seq(Entry) /\ j \in DOMAIN log
      BY DEF TypeOK, Entry
    <3> QED
      BY <3>1
  <2>2. clock \in Int /\ Window \in Int /\ time \in Int
    BY LimiterAssumption DEF TypeOK
  <2> QED
    BY <2>1, <2>2 DEF Entry
<1>3. clock - time <= log[j].clock - log[j].at
  BY <1>2 DEF Skew
<1> QED
  BY <1>1, <1>2, <1>3

LEMMA RememberedAsked ==
    ASSUME TypeOK, Skew, Remembered, NEW c \in Clients, NEW a \in Answers, Asked(c, a)
    PROVE  Remembered'
<1> DEFINE n == Len(log) + 1
<1>1. Logged(c, a) /\ time' = time /\ clock' = clock
  BY DEF Asked
<1>2. /\ DOMAIN log = 1 .. Len(log) /\ DOMAIN log' = 1 .. n /\ Len(log) \in Nat
      /\ \A j \in 1 .. Len(log) : log'[j] = log[j] /\ log[j] \in Entry
      /\ log'[n] = [client |-> c, at |-> time, clock |-> clock, answer |-> a]
  BY <1>1, LogGrows
<1>3. /\ perIp \in [Clients -> SUBSET (DOMAIN log)] /\ perIp[c] \in SUBSET (DOMAIN log)
      /\ global \in SUBSET (DOMAIN log)
  BY DEF TypeOK
<1>4. perIp' = [perIp EXCEPT ![c] = After(perIp[c], PerIp)]
  BY DEF Asked
<1> SUFFICES ASSUME NeverSetForward \/ TrueClock', NEW j \in DOMAIN log',
                    time - log'[j].at < Window
             PROVE  /\ log'[j].answer # "refused per IP" => j \in perIp'[log'[j].client]
                    /\ log'[j].answer = "served" => j \in global'
  BY <1>1 DEF Remembered, NeverSetForward
<1>5. CASE j = n
  <2>1. ASSUME a # "refused per IP" PROVE n \in perIp'[c]
    <3>1. Allows(perIp[c], PerIp)
      BY <2>1 DEF Asked
    <3>2. n \in After(perIp[c], PerIp)
      BY <3>1 DEF After
    <3> QED
      BY <1>3, <1>4, <3>2
  <2>2. ASSUME a = "served" PROVE n \in global'
    <3>1. Allows(global, Global) /\ global' = After(global, Global)
      BY <2>2 DEF Asked
    <3> QED
      BY <3>1 DEF After
  <2>3. log'[n].client = c /\ log'[n].answer = a
    BY <1>2
  <2> QED
    BY <1>5, <2>1, <2>2, <2>3
<1>6. CASE j \in 1 .. Len(log)
  <2>1. log'[j] = log[j] /\ log[j] \in Entry /\ log[j].client \in Clients
    BY <1>2, <1>6 DEF Entry
  <2>2. NeverSetForward \/ TrueClock
    BY <1>2 DEF TrueClock
  <2>3. NeverSetForward \/ (log[j].clock = log[j].at /\ clock = time)
    <3>1. CASE TrueClock'
      <4>1. log'[j].clock = log'[j].at /\ log'[n].clock = log'[n].at
        BY <1>2, <3>1 DEF TrueClock
      <4> QED
        BY <1>2, <2>1, <4>1
    <3> QED
      BY <3>1
  <2>4. ~(time - log[j].at >= Window)
    BY <2>1, LimiterAssumption DEF TypeOK, Entry
  <2>5. /\ log[j].answer # "refused per IP" => j \in perIp[log[j].client]
        /\ log[j].answer = "served" => j \in global
    BY <1>2, <1>6, <2>1, <2>2 DEF Remembered
  <2>6. ASSUME log[j].answer # "refused per IP" PROVE j \in perIp'[log[j].client]
    <3>1. CASE log[j].client = c
      <4>1. j \in perIp[c]
        BY <2>5, <2>6, <3>1
      <4>2. j \in Kept(perIp[c])
        BY <1>3, <2>3, <2>4, <4>1, DroppedIsOld
      <4> QED
        BY <1>3, <1>4, <3>1, <4>2 DEF After
    <3>2. CASE log[j].client # c
      BY <1>3, <1>4, <2>1, <2>5, <2>6, <3>2
    <3> QED
      BY <3>1, <3>2
  <2>7. ASSUME log[j].answer = "served" PROVE j \in global'
    <3>1. j \in global
      BY <2>5, <2>7
    <3>2. j \in Kept(global)
      BY <1>3, <2>3, <2>4, <3>1, DroppedIsOld
    <3>3. global' = global \/ global' = After(global, Global)
      BY DEF Asked
    <3> QED
      BY <3>1, <3>2, <3>3 DEF After
  <2> QED
    BY <2>1, <2>6, <2>7
<1>7. j = n \/ j \in 1 .. Len(log)
  BY <1>2
<1> QED
  BY <1>5, <1>6, <1>7

\* Earlier requests keep their windows.
LEMMA OldWindows ==
    ASSUME TypeOK, NEW c \in Clients, NEW a \in Answers, Logged(c, a), NEW i \in DOMAIN log
    PROVE  /\ log'[i] = log[i] /\ \A j \in 1 .. i : log'[j] = log[j]
           /\ Recent(i)' = Recent(i)
           /\ RecentOf(log[i].client, i)' = RecentOf(log[i].client, i)
           /\ Recent(i) \subseteq 1 .. i /\ RecentOf(log[i].client, i) \subseteq 1 .. i
<1>1. /\ DOMAIN log = 1 .. Len(log) /\ Len(log) \in Nat
      /\ \A j \in 1 .. Len(log) : log'[j] = log[j]
  BY LogGrows
<1>2. log'[i] = log[i] /\ \A j \in 1 .. i : log'[j] = log[j]
  BY <1>1
<1>3. Recent(i)' = Recent(i)
  BY <1>2 DEF Recent
<1>4. RecentOf(log[i].client, i)' = RecentOf(log[i].client, i)
  BY <1>2, <1>3 DEF RecentOf, Recent
<1> QED
  BY <1>2, <1>3, <1>4 DEF Recent, RecentOf

\* The requests of the window that ends with the newest one are held.
LEMMA WindowHeld ==
    ASSUME TypeOK, TypeOK', Remembered', NeverSetForward \/ TrueClock',
           NEW c \in Clients, NEW a \in Answers, Asked(c, a),
           NEW n, n = Len(log) + 1
    PROVE  LET passed == {j \in RecentOf(c, n)' : log'[j].answer # "refused per IP"}
               served == {j \in Recent(n)' : log'[j].answer = "served"}
           IN  /\ IsFiniteSet(passed) /\ Cardinality(passed) \in Nat
               /\ Cardinality(passed) <= PerIp
               /\ IsFiniteSet(served) /\ Cardinality(served) \in Nat
               /\ Cardinality(served) <= Global
<1> DEFINE passed == {j \in RecentOf(c, n)' : log'[j].answer # "refused per IP"}
           served == {j \in Recent(n)' : log'[j].answer = "served"}
<1>1. Logged(c, a) /\ time' = time
  BY DEF Asked
<1>2. /\ DOMAIN log' = 1 .. n /\ Len(log) \in Nat
      /\ log'[n] = [client |-> c, at |-> time, clock |-> clock, answer |-> a]
  BY <1>1, LogGrows
<1>3. log'[n].at = time
  BY <1>2
<1>4. \A j \in DOMAIN log' : time - log'[j].at < Window =>
        /\ log'[j].answer # "refused per IP" => j \in perIp'[log'[j].client]
        /\ log'[j].answer = "served" => j \in global'
  BY <1>1 DEF Remembered, NeverSetForward
<1>5. passed \in SUBSET (perIp'[c])
  BY <1>2, <1>3, <1>4 DEF RecentOf, Recent
<1>6. served \in SUBSET global'
  BY <1>2, <1>3, <1>4 DEF Recent
<1>7. /\ perIp'[c] \in SUBSET (1 .. n) /\ Cardinality(perIp'[c]) <= PerIp
      /\ global' \in SUBSET (1 .. n) /\ Cardinality(global') <= Global
      /\ PerIp \in Nat /\ Global \in Nat
  BY <1>2, LimiterAssumption DEF TypeOK
<1>8. IsFiniteSet(1 .. n)
  BY <1>2, FS_Interval
<1> HIDE DEF passed, served
<1>9. IsFiniteSet(perIp'[c]) /\ IsFiniteSet(global')
  BY <1>7, <1>8, FS_Subset
<1>10. /\ IsFiniteSet(passed) /\ Cardinality(passed) <= Cardinality(perIp'[c])
       /\ IsFiniteSet(served) /\ Cardinality(served) <= Cardinality(global')
  BY <1>5, <1>6, <1>9, FS_Subset
<1>11. /\ Cardinality(passed) \in Nat /\ Cardinality(served) \in Nat
       /\ Cardinality(perIp'[c]) \in Nat /\ Cardinality(global') \in Nat
  BY <1>9, <1>10, FS_CardinalityType
<1>12. Cardinality(passed) <= PerIp /\ Cardinality(served) <= Global
  BY <1>7, <1>10, <1>11
<1> QED
  BY <1>10, <1>11, <1>12 DEF passed, served

LEMMA RatesAsked ==
    ASSUME TypeOK, TypeOK', Remembered', Rates, NeverSetForward,
           NEW c \in Clients, NEW a \in Answers, Asked(c, a)
    PROVE  Rates'
<1>0. PICK n : n = Len(log) + 1
  OBVIOUS
<1> DEFINE passed == {j \in RecentOf(c, n)' : log'[j].answer # "refused per IP"}
           mine   == {j \in RecentOf(c, n)' : log'[j].answer = "served"}
           served == {j \in Recent(n)' : log'[j].answer = "served"}
<1>1. Logged(c, a)
  BY DEF Asked
<1>2. /\ DOMAIN log = 1 .. Len(log) /\ DOMAIN log' = 1 .. n /\ Len(log) \in Nat
      /\ log'[n] = [client |-> c, at |-> time, clock |-> clock, answer |-> a]
  BY <1>0, <1>1, LogGrows
<1>3. log'[n].client = c
  BY <1>2
<1>4. Cardinality(mine) <= PerIp /\ Cardinality(served) <= Global
  <2>1. /\ IsFiniteSet(passed) /\ Cardinality(passed) \in Nat
        /\ Cardinality(passed) <= PerIp /\ Cardinality(served) <= Global
    BY <1>0, WindowHeld
  <2>2. mine \in SUBSET passed
    OBVIOUS
  <2>3. PerIp \in Nat
    BY LimiterAssumption
  <2> HIDE DEF mine, passed, served
  <2>4. Cardinality(mine) <= Cardinality(passed) /\ IsFiniteSet(mine)
    BY <2>1, <2>2, FS_Subset
  <2>5. Cardinality(mine) \in Nat
    BY <2>4, FS_CardinalityType
  <2> QED
    BY <2>1, <2>3, <2>4, <2>5
<1>5. ASSUME NEW i \in DOMAIN log'
      PROVE  /\ Cardinality({j \in RecentOf(log[i].client, i)' : log'[j].answer = "served"})
                   <= PerIp
             /\ Cardinality({j \in Recent(i)' : log'[j].answer = "served"}) <= Global
  <2>1. CASE i = n
    BY <1>3, <1>4, <2>1 DEF RecentOf
  <2>2. CASE i \in DOMAIN log
    <3>1. /\ log'[i] = log[i] /\ \A j \in 1 .. i : log'[j] = log[j]
          /\ Recent(i)' = Recent(i)
          /\ RecentOf(log[i].client, i)' = RecentOf(log[i].client, i)
          /\ Recent(i) \subseteq 1 .. i /\ RecentOf(log[i].client, i) \subseteq 1 .. i
      BY <1>1, <2>2, OldWindows
    <3>2. /\ {j \in RecentOf(log[i].client, i)' : log'[j].answer = "served"}
               = {j \in RecentOf(log[i].client, i) : log[j].answer = "served"}
          /\ {j \in Recent(i)' : log'[j].answer = "served"}
               = {j \in Recent(i) : log[j].answer = "served"}
      BY <3>1
    <3>3. PerClientRate /\ GlobalRate
      BY DEF Rates
    <3> QED
      BY <2>2, <3>2, <3>3 DEF PerClientRate, GlobalRate
  <2>3. i = n \/ i \in DOMAIN log
    BY <1>0, <1>2
  <2> QED
    BY <2>1, <2>2, <2>3
<1> QED
  BY <1>5 DEF Rates, PerClientRate, GlobalRate

LEMMA CauseAsked ==
    ASSUME TypeOK, TypeOK', Counted, Remembered', RefusedForCause,
           NEW c \in Clients, NEW a \in Answers, Asked(c, a)
    PROVE  RefusedForCause'
<1>0. PICK n : n = Len(log) + 1
  OBVIOUS
<1> DEFINE passed == {j \in RecentOf(c, n)' : log'[j].answer # "refused per IP"}
           served == {j \in Recent(n)' : log'[j].answer = "served"}
<1>1. Logged(c, a) /\ time' = time
  BY DEF Asked
<1>2. /\ DOMAIN log = 1 .. Len(log) /\ DOMAIN log' = 1 .. n /\ Len(log) \in Nat
      /\ \A j \in 1 .. Len(log) : log'[j] = log[j]
      /\ log'[n] = [client |-> c, at |-> time, clock |-> clock, answer |-> a]
  BY <1>0, <1>1, LogGrows
<1>3. /\ log'[n].client = c /\ log'[n].at = time
      /\ log'[n].clock = clock /\ log'[n].answer = a
  BY <1>2
<1>4. ASSUME \A j \in 1 .. n : log'[j].clock = log'[j].at
      PROVE  /\ a = "refused per IP" => PerIp = Cardinality(passed)
             /\ a = "refused by all" => Global = Cardinality(served)
  <2>1. TrueClock'
    BY <1>2, <1>4 DEF TrueClock
  <2>2. /\ IsFiniteSet(passed) /\ Cardinality(passed) \in Nat /\ Cardinality(passed) <= PerIp
        /\ IsFiniteSet(served) /\ Cardinality(served) \in Nat /\ Cardinality(served) <= Global
    BY <1>0, <2>1, WindowHeld
  <2>3. /\ perIp[c] \in SUBSET (DOMAIN log) /\ global \in SUBSET (DOMAIN log)
        /\ PerIp \in Nat /\ Global \in Nat
    BY LimiterAssumption DEF TypeOK
  <2>4. clock = time
    BY <1>0, <1>2, <1>3, <1>4
  <2>5. ASSUME NEW j \in 1 .. Len(log), clock - log[j].clock < Window
        PROVE  j \in 1 .. n /\ log'[j] = log[j] /\ time - log'[j].at < Window
    <3>1. log'[j] = log[j] /\ j \in 1 .. n
      BY <1>0, <1>2
    <3>2. log[j].clock = log[j].at
      BY <1>4, <3>1
    <3> QED
      BY <2>4, <2>5, <3>1, <3>2
  <2>6. Kept(perIp[c]) \in SUBSET passed
    <3> SUFFICES ASSUME NEW j \in Kept(perIp[c]) PROVE j \in passed
      OBVIOUS
    <3>1. j \in perIp[c] /\ clock - log[j].clock < Window
      BY DEF Kept
    <3>2. j \in 1 .. n /\ log'[j] = log[j] /\ time - log'[j].at < Window
      BY <1>2, <2>3, <2>5, <3>1
    <3>3. log[j].client = c /\ log[j].answer # "refused per IP"
      BY <3>1 DEF Counted
    <3>4. j \in RecentOf(c, n)'
      BY <1>3, <3>2, <3>3 DEF RecentOf, Recent
    <3> QED
      BY <3>2, <3>3, <3>4
  <2>7. Kept(global) \in SUBSET served
    <3> SUFFICES ASSUME NEW j \in Kept(global) PROVE j \in served
      OBVIOUS
    <3>1. j \in global /\ clock - log[j].clock < Window
      BY DEF Kept
    <3>2. j \in 1 .. n /\ log'[j] = log[j] /\ time - log'[j].at < Window
      BY <1>2, <2>3, <2>5, <3>1
    <3>3. log[j].answer = "served"
      BY <3>1 DEF Counted
    <3>4. j \in Recent(n)'
      BY <1>3, <3>2 DEF Recent
    <3> QED
      BY <3>2, <3>3, <3>4
  <2> HIDE DEF passed, served
  <2>8. /\ Cardinality(Kept(perIp[c])) <= Cardinality(passed)
        /\ Cardinality(Kept(global)) <= Cardinality(served)
    BY <2>2, <2>6, <2>7, FS_Subset
  <2>9. Cardinality(Kept(perIp[c])) \in Nat /\ Cardinality(Kept(global)) \in Nat
    BY <2>3, Held
  <2>10. ASSUME a = "refused per IP" PROVE PerIp = Cardinality(passed)
    <3>1. ~(Cardinality(Kept(perIp[c])) < PerIp)
      BY <2>10 DEF Asked, Allows
    <3> QED
      BY <2>2, <2>3, <2>8, <2>9, <3>1
  <2>11. ASSUME a = "refused by all" PROVE Global = Cardinality(served)
    <3>1. a # "refused per IP" /\ a # "served"
      BY <2>11
    <3>2. ~(Cardinality(Kept(global)) < Global)
      BY <3>1 DEF Asked, Allows
    <3> QED
      BY <2>2, <2>3, <2>8, <2>9, <3>2
  <2> QED
    BY <2>10, <2>11
<1>5. ASSUME NEW i \in DOMAIN log', \A j \in 1 .. i : log'[j].clock = log'[j].at
      PROVE  /\ log'[i].answer = "refused per IP" =>
                  PerIp = Cardinality({j \in RecentOf(log[i].client, i)' :
                                         log'[j].answer # "refused per IP"})
             /\ log'[i].answer = "refused by all" =>
                  Global = Cardinality({j \in Recent(i)' : log'[j].answer = "served"})
  <2>1. CASE i = n
    BY <1>3, <1>4, <1>5, <2>1 DEF RecentOf
  <2>2. CASE i \in DOMAIN log
    <3>1. /\ log'[i] = log[i] /\ \A j \in 1 .. i : log'[j] = log[j]
          /\ Recent(i)' = Recent(i)
          /\ RecentOf(log[i].client, i)' = RecentOf(log[i].client, i)
          /\ Recent(i) \subseteq 1 .. i /\ RecentOf(log[i].client, i) \subseteq 1 .. i
      BY <1>1, <2>2, OldWindows
    <3>2. /\ {j \in RecentOf(log[i].client, i)' : log'[j].answer # "refused per IP"}
               = {j \in RecentOf(log[i].client, i) : log[j].answer # "refused per IP"}
          /\ {j \in Recent(i)' : log'[j].answer = "served"}
               = {j \in Recent(i) : log[j].answer = "served"}
      BY <3>1
    <3>3. \A j \in 1 .. i : log[j].clock = log[j].at
      BY <1>5, <3>1
    <3> QED
      BY <2>2, <3>1, <3>2, <3>3 DEF RefusedForCause
  <2>3. i = n \/ i \in DOMAIN log
    BY <1>0, <1>2
  <2> QED
    BY <2>1, <2>2, <2>3
<1> QED
  BY <1>5 DEF RefusedForCause

LEMMA InvAsked ==
    ASSUME TypeOK, Inv, NEW c \in Clients, NEW a \in Answers, Asked(c, a)
    PROVE  Inv'
<1>1. TypeOK' /\ Counted' /\ Skew' /\ Remembered'
  BY TypeAsked, CountedAsked, SkewAsked, RememberedAsked DEF Inv
<1>2. (NeverSetForward => Rates)'
  BY <1>1, RatesAsked DEF Inv, NeverSetForward
<1> QED
  BY <1>1, <1>2, CauseAsked DEF Inv

LEMMA AtMostTransitive ==
    ASSUME NEW x \in Int, NEW y \in Int, NEW z \in Int, x <= y, y <= z PROVE x <= z
  OBVIOUS

\* Time passing, and the clock being set, make no request newer.
LEMMA InvTime ==
    ASSUME TypeOK, Inv, UNCHANGED <<perIp, global, log>>, time' \in Nat, clock' \in Int,
           time' >= time, NeverSetForward => clock' - time' <= clock - time
    PROVE  Inv'
<1>1. /\ time \in Nat /\ clock \in Int /\ Window \in Nat /\ log \in Seq(Entry)
  BY LimiterAssumption DEF TypeOK, Entry
<1>2. ASSUME NEW j \in DOMAIN log PROVE log[j].at \in Nat /\ log[j].clock \in Int
  <2>1. log[j] \in Entry
    BY <1>1
  <2> QED
    BY <2>1 DEF Entry
<1>3. Counted'
  BY DEF Inv, Counted
<1>4. Skew'
  <2> SUFFICES ASSUME NEW j \in DOMAIN log
               PROVE  /\ log[j].at <= time'
                      /\ NeverSetForward => clock' - time' <= log[j].clock - log[j].at
    BY DEF Skew, NeverSetForward
  <2>1. /\ log[j].at <= time
        /\ NeverSetForward => clock - time <= log[j].clock - log[j].at
    BY DEF Inv, Skew
  <2>2. log[j].at \in Nat /\ log[j].clock \in Int
    BY <1>2
  <2>3. log[j].at <= time'
    BY <1>1, <2>1, <2>2
  <2>4. ASSUME NeverSetForward PROVE clock' - time' <= log[j].clock - log[j].at
    <3>1. clock - time <= log[j].clock - log[j].at /\ clock' - time' <= clock - time
      BY <2>1, <2>4
    <3>2. log[j].clock - log[j].at \in Int /\ clock - time \in Int /\ clock' - time' \in Int
      BY <1>1, <2>2
    <3> QED
      BY <3>1, <3>2, AtMostTransitive
  <2> QED
    BY <2>3, <2>4
<1>5. Remembered'
  <2> SUFFICES ASSUME NeverSetForward \/ TrueClock, NEW j \in DOMAIN log,
                      time' - log[j].at < Window
               PROVE  /\ log[j].answer # "refused per IP" => j \in perIp[log[j].client]
                      /\ log[j].answer = "served" => j \in global
    BY DEF Remembered, NeverSetForward, TrueClock
  <2>1. time - log[j].at < Window
    BY <1>1, <1>2
  <2> QED
    BY <2>1 DEF Inv, Remembered
<1>6. (NeverSetForward => Rates)' /\ RefusedForCause'
  <2>1. Rates' <=> Rates
    BY DEF Rates, PerClientRate, GlobalRate, RecentOf, Recent
  <2>2. RefusedForCause' <=> RefusedForCause
    BY DEF RefusedForCause, RecentOf, Recent
  <2> QED
    BY <2>1, <2>2 DEF Inv, NeverSetForward
<1> QED
  BY <1>3, <1>4, <1>5, <1>6 DEF Inv

LEMMA InvStep == TypeOK /\ Inv /\ [Next]_vars => Inv'
<1> SUFFICES ASSUME TypeOK, Inv, [Next]_vars PROVE Inv'
  OBVIOUS
<1>0. time \in Nat /\ clock \in Int
  BY LimiterAssumption DEF TypeOK
<1>1. ASSUME NEW c \in Clients, Request(c) PROVE Inv'
  BY <1>1, RequestIsAsked, InvAsked
<1>2. CASE Tick
  <2>1. time' = time + 1 /\ clock' = clock + 1 /\ UNCHANGED <<perIp, global, log>>
    BY <1>2 DEF Tick
  <2> QED
    BY <1>0, <2>1, InvTime
<1>3. ASSUME NEW d \in ClockSteps, SetClock(d) PROVE Inv'
  <2>1. d \in Int /\ (NeverSetForward => d <= 0)
    BY LimiterAssumption DEF NeverSetForward
  <2>2. clock' = clock + d /\ UNCHANGED <<time, perIp, global, log>>
    BY <1>3 DEF SetClock
  <2>3. time' = time /\ time' \in Nat /\ clock' \in Int
    BY <1>0, <2>1, <2>2
  <2>4. NeverSetForward => clock' - time' <= clock - time
    BY <1>0, <2>1, <2>2
  <2> QED
    BY <1>0, <2>2, <2>3, <2>4, InvTime
<1>4. CASE UNCHANGED vars
  <2>1. UNCHANGED <<time, clock, perIp, global, log>>
    BY <1>4 DEF vars
  <2> QED
    BY <1>0, <2>1, InvTime
<1> QED
  BY <1>1, <1>2, <1>3, <1>4 DEF Next

LEMMA InvInit == Init => Inv
  BY DEF Init, Inv, Counted, Skew, Remembered, Rates, PerClientRate, GlobalRate,
         RefusedForCause

LEMMA InvAlways == Spec => [](TypeOK /\ Inv)
<1>1. Init => TypeOK /\ Inv
  BY TypeInit, InvInit
<1>2. TypeOK /\ Inv /\ [Next]_vars => (TypeOK /\ Inv)'
  BY TypeStep, InvStep
<1> QED
  BY <1>1, <1>2, PTL DEF Spec

\* In no window of time is a client served more often than its limit, nor are
\* all together more often than theirs, as long as nobody sets the clock
\* forward.
THEOREM RatesCorrect == NeverSetForward => (Spec => []Rates)
<1> SUFFICES ASSUME NeverSetForward PROVE Spec => []Rates
  OBVIOUS
<1>1. Inv => Rates
  BY DEF Inv
<1> QED
  BY <1>1, InvAlways, PTL

\* Nobody is refused whose own window, or everybody's, is not full, whatever
\* the clock does later.
THEOREM RefusedForCauseCorrect == Spec => []RefusedForCause
<1>1. Inv => RefusedForCause
  BY DEF Inv
<1> QED
  BY <1>1, InvAlways, PTL
=============================================================================
