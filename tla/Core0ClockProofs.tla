-------------------------- MODULE Core0ClockProofs --------------------------
(***************************************************************************)
(* Proofs about Core0Clock for every period of the tick counter, every     *)
(* delay and any number of passes.  A tick stamp is only as good as its    *)
(* age: ticks_diff is right within half a period.  Each proof therefore    *)
(* bounds the ages at which the program compares its stamps, and assumes   *)
(* of the constants exactly that the bound stays below half a period.      *)
(***************************************************************************)
EXTENDS Core0Clock, TLAPS

Half == Period \div 2

\* A stamp is e old when the counter, e units after it, shows ticks.
StampOK(stamp, e) == (stamp + e) % Period = ticks

\* What n failures of the link, each at a cost of c, add to an age.
Spent(n, c) == n * c

-----------------------------------------------------------------------------
(* Arithmetic of the tick counter. *)

\* Every integer is a multiple of the period and a remainder.
LEMMA ModSplit ==
  ASSUME NEW x \in Int
  PROVE  \E q \in Int, r \in 0..(Period - 1) : x = Period * q + r /\ x % Period = r
  <1>1. Period \in Nat \ {0}
    BY ClockAssumption
  <1>2. x \div Period \in Int /\ x % Period \in 0..(Period - 1)
    BY <1>1
  <1>3. x % Period = x - Period * (x \div Period)
    BY <1>1, SMTT(60)
  <1>4. PICK q \in Int, r \in 0..(Period - 1) : q = x \div Period /\ r = x % Period
    BY <1>2
  <1>5. r = x - Period * q
    BY <1>3, <1>4
  <1>6. Period * q \in Int /\ r \in Int
    BY <1>1
  <1>7. x = Period * q + r
    BY <1>5, <1>6
  <1> QED BY <1>4, <1>7

\* The remainder is the only one.
LEMMA ModUnique ==
  ASSUME NEW q \in Int, NEW r \in 0..(Period - 1)
  PROVE  (Period * q + r) % Period = r
  BY ClockAssumption

\* What is added before taking a remainder may be added after it.
LEMMA ModShift ==
  ASSUME NEW x \in Int, NEW y \in Int
  PROVE  ((x % Period) + y) % Period = (x + y) % Period
  <1>1. PICK k \in Int, r \in 0..(Period - 1) : x = Period * k + r /\ x % Period = r
    BY ModSplit
  <1>2. r \in Int /\ r + y \in Int
    BY ClockAssumption
  <1>3. PICK m \in Int, s \in 0..(Period - 1) :
           r + y = Period * m + s /\ (r + y) % Period = s
    BY <1>2, ModSplit
  <1>4. k + m \in Int /\ Period * (k + m) = Period * k + Period * m
    BY ClockAssumption
  <1>5. x + y = Period * (k + m) + s
    <2>1. PICK a \in Int, b \in Int : a = Period * k /\ b = Period * m
      BY ClockAssumption
    <2>2. x = a + r /\ r + y = b + s /\ Period * (k + m) = a + b
      BY <1>1, <1>3, <1>4, <2>1
    <2>3. s \in Int
      BY ClockAssumption
    <2> QED BY <1>2, <2>2, <2>3
  <1>6. (Period * (k + m) + s) % Period = s
    BY <1>4, ModUnique
  <1> QED BY <1>1, <1>3, <1>5, <1>6

\* A remainder is its own remainder.
LEMMA ModSmall ==
  ASSUME NEW r \in 0..(Period - 1)
  PROVE  r % Period = r
  <1>1. Period * 0 + r = r
    BY ClockAssumption
  <1> QED BY <1>1, ModUnique

\* The period is even.
LEMMA HalfPeriod == Half \in Nat \ {0} /\ Period = Half + Half
  <1>1. Period \in Int /\ Period > 0 /\ Period % 2 = 0
    BY ClockAssumption
  <1>2. Half \in Int
    BY <1>1 DEF Half
  <1>3. Period % 2 = Period - (2 * (Period \div 2))
    BY <1>1
  <1> QED BY <1>1, <1>2, <1>3 DEF Half

\* ticks_diff is right while the age of the stamp is less than half a period either way,
\* however often the counter has wrapped.
LEMMA ElapsedIsAge ==
  ASSUME NEW stamp \in Int, NEW e \in Int, StampOK(stamp, e), e < Half, e >= 0 - Half
  PROVE  Elapsed(stamp) = e
  <1> DEFINE s == stamp + e
             d == Half - stamp
  <1>1. Half \in Nat /\ Period = Half + Half
    BY HalfPeriod
  <1>2. s \in Int /\ d \in Int
    BY <1>1
  <1>3. s % Period = ticks
    BY DEF StampOK
  <1>4. (ticks + d) % Period = (s + d) % Period
    <2> HIDE DEF s, d
    <2> QED BY <1>2, <1>3, ModShift
  <1>5. s + d = e + Half
    BY <1>1
  <1>6. (e + Half) % Period = e + Half
    <2>1. e + Half \in 0..(Period - 1)
      BY <1>1
    <2> QED BY <2>1, ModSmall
  <1>7. ticks \in Int
    <2>1. s % Period \in Int
      <3> HIDE DEF s
      <3> QED BY <1>2, ModSplit, ClockAssumption
    <2> QED BY <2>1, <1>3
  <1>8. ticks - stamp + Half = ticks + d
    BY <1>1, <1>7
  <1> HIDE DEF s, d
  <1>9. (ticks - stamp + Half) % Period = e + Half
    BY <1>4, <1>5, <1>6, <1>8
  <1>10. Elapsed(stamp) = ((ticks - stamp + Half) % Period) - Half
    BY DEF Elapsed, ticks_diff, Half
  <1> HIDE DEF Half
  <1> QED BY <1>1, <1>9, <1>10

\* A stamp ages with the time that passes.
LEMMA StampAges ==
  ASSUME NEW stamp \in Int, NEW e \in Int, NEW d \in Int, StampOK(stamp, e),
         ticks' = ticks_add(ticks, d)
  PROVE  (stamp + (e + d)) % Period = ticks'
  <1>1. (((stamp + e) % Period) + d) % Period = (stamp + e + d) % Period
    BY ModShift
  <1>2. stamp + e + d = stamp + (e + d)
    OBVIOUS
  <1> QED BY <1>1, <1>2 DEF StampOK, ticks_add

\* A stamp set k ahead of the counter is k younger than one taken now.
LEMMA StampAhead ==
  ASSUME NEW k \in Int, ticks \in 0..(Period - 1)
  PROVE  /\ ticks_add(ticks, k) \in 0..(Period - 1)
         /\ (ticks_add(ticks, k) + (0 - k)) % Period = ticks
  <1>1. ticks \in Int
    BY ClockAssumption
  <1>2. ticks_add(ticks, k) \in 0..(Period - 1)
    BY <1>1, ModSplit DEF ticks_add
  <1>3. (((ticks + k) % Period) + (0 - k)) % Period = (ticks + k + (0 - k)) % Period
    <2>1. ticks + k \in Int /\ 0 - k \in Int
      BY <1>1
    <2> QED BY <2>1, ModShift
  <1>4. ticks + k + (0 - k) = ticks
    BY <1>1
  <1> QED BY <1>2, <1>3, <1>4, ModSmall DEF ticks_add

\* A stamp taken now is the counter itself.
LEMMA StampNow == ASSUME ticks \in 0..(Period - 1) PROVE (ticks + 0) % Period = ticks
  <1>1. ticks + 0 = ticks
    BY ClockAssumption
  <1> QED BY <1>1, ModSmall

\* The constants are numbers.
LEMMA Numbers ==
  /\ PublishDelay \in Nat /\ PollInterval \in Nat /\ SyncInterval \in Nat
  /\ RetryDelay \in Nat /\ PromptDelay \in Nat /\ PromptDelay <= RetryDelay
  /\ Timeout \in Nat /\ MaxPass \in Nat /\ MaxWait \in Nat
  /\ MinQuiet \in Nat /\ MaxQuiet \in Nat /\ MaxOutage \in Nat /\ MaxFails \in Nat
  /\ MaxAge \in Nat /\ MaxAge > SyncInterval /\ MaxAge > MaxWait + Timeout + MaxPass
  BY ClockAssumption

\* What one more failure adds, and what all of them add at most.
LEMMA SpentStep ==
  ASSUME NEW n \in Nat, NEW c \in Nat
  PROVE  /\ Spent(n, c) \in Nat
         /\ Spent(n + 1, c) = Spent(n, c) + c
         /\ \A m \in Nat : n <= m => Spent(n, c) <= Spent(m, c)
  <1>1. n * c \in Nat /\ (n + 1) * c = n * c + c
    OBVIOUS
  <1>2. ASSUME NEW m \in Nat, n <= m PROVE n * c <= m * c
    BY <1>2
  <1> QED BY <1>1, <1>2 DEF Spent

-----------------------------------------------------------------------------
(* Type correctness. *)

\* The session is lost only inside a pass.
SessionOK == pc \in {"poll", "puback"} => up

TypeInv == TypeOK /\ SessionOK

\* Stamps taken, time passing and an answer aging stay in their domains.
LEMMA Domains ==
  ASSUME TypeInv
  PROVE  /\ \A names : Taken(names) \in [Stamps -> Nat]
         /\ \A d \in Nat : Passes(d) => ticks' \in 0..(Period - 1) /\ since' \in [Stamps -> Nat]
         /\ \A d \in Nat : Aged(d) =>
              answer' \in [latest : BOOLEAN, valid : BOOLEAN, age : Nat] \cup {None}
         /\ \A k \in Int : ticks_add(ticks, k) \in 0..(Period - 1)
         /\ Delta \in Int
         /\ Capped(syncAge + Delta) \in Int
         /\ ticks \in Int
  <1>1. since \in [Stamps -> Nat] /\ ticks \in 0..(Period - 1) /\ ticks \in Int
    BY ClockAssumption DEF TypeInv, TypeOK
  <1>2. \A k \in Int : ticks_add(ticks, k) \in 0..(Period - 1)
    BY <1>1, StampAhead
  <1>3. \A names : Taken(names) \in [Stamps -> Nat]
    BY <1>1 DEF Taken
  <1>4. ASSUME NEW d \in Nat, Passes(d)
        PROVE  ticks' \in 0..(Period - 1) /\ since' \in [Stamps -> Nat]
    <2>1. \A s \in Stamps : since[s] + d \in Nat
      BY <1>1
    <2> QED BY <1>2, <1>4, <2>1 DEF Passes
  <1>5. ASSUME NEW d \in Nat, Aged(d)
        PROVE  answer' \in [latest : BOOLEAN, valid : BOOLEAN, age : Nat] \cup {None}
    <2>1. \A a \in Nat : Capped(a + d) \in Nat
      BY Numbers DEF Capped
    <2>2. answer \in [latest : BOOLEAN, valid : BOOLEAN, age : Nat] \cup {None}
      BY DEF TypeInv, TypeOK
    <2> QED BY <1>5, <2>1, <2>2 DEF Aged
  <1>6. Delta \in Int
    <2>1. lastSample \in Int
      BY ClockAssumption DEF TypeInv, TypeOK
    <2>2. PICK x \in Int : x = ticks - lastSample + Half
      BY <1>1, <2>1, HalfPeriod
    <2>3. x % Period \in Int
      BY ModSplit, ClockAssumption
    <2>4. Delta = (x % Period) - Half
      BY <2>2 DEF Delta, Elapsed, ticks_diff, Half
    <2> QED BY <2>3, <2>4, HalfPeriod
  <1>7. Capped(syncAge + Delta) \in Int
    BY <1>6, Numbers DEF Capped, TypeInv, TypeOK
  <1> QED BY <1>1, <1>2, <1>3, <1>4, <1>5, <1>6, <1>7

\* What an answer does to the types.
LEMMA HandleTypes ==
  ASSUME TypeInv, NEW names, HandleInfoResponse(names)
  PROVE  /\ since' \in [Stamps -> Nat]
         /\ answer' = None
         /\ pending' \in BOOLEAN
         /\ deadline' \in 0..(Period - 1) \cup {None}
         /\ lastAttempt' \in 0..(Period - 1)
         /\ lastSample' \in 0..(Period - 1)
         /\ syncAge' \in Int /\ skew' \in Int /\ clockLag' \in Nat
  <1> USE DEF TypeInv, TypeOK
  <1>1. answer' = None
    BY DEF HandleInfoResponse
  <1>2. CASE ~ Expected
    BY <1>2, Domains DEF HandleInfoResponse, request, uptime
  <1>3. CASE Expected /\ ~ answer.valid
    <2>1. since' = [Taken(names) EXCEPT !["attempt"] = RetryDelay - PromptDelay]
          /\ RetryDelay - PromptDelay \in Nat /\ PromptDelay - RetryDelay \in Int
      BY <1>3, Numbers DEF HandleInfoResponse
    <2>2. since' \in [Stamps -> Nat]
      BY <2>1, Domains
    <2>3. lastAttempt' \in 0..(Period - 1)
      BY <1>3, <2>1, Domains DEF HandleInfoResponse
    <2> QED BY <1>1, <1>3, <2>2, <2>3 DEF HandleInfoResponse, uptime
  <1>4. CASE Expected /\ answer.valid
    <2>1. since["sample"] \in Nat /\ skew \in Int /\ Delta \in Int
      BY Domains DEF Stamps
    <2>2. skew' \in Int
      BY <1>4, <2>1 DEF HandleInfoResponse, Sample
    <2>3. answer.age \in Nat
      BY DEF HandleInfoResponse
    <2>4. /\ pending' = FALSE /\ deadline' = None
          /\ lastSample' = ticks /\ since' = Taken(names \cup {"sample"})
          /\ syncAge' = 0 /\ clockLag' = answer.age /\ lastAttempt' = lastAttempt
      BY <1>4 DEF HandleInfoResponse, Sample
    <2>5. since' \in [Stamps -> Nat]
      BY <2>4, Domains
    <2>6. pending' \in BOOLEAN
      BY <2>4
    <2>7. syncAge' \in Int /\ clockLag' \in Nat
      BY <2>3, <2>4
    <2> QED BY <1>1, <2>2, <2>4, <2>5, <2>6, <2>7, Zenon
  <1> QED BY <1>2, <1>3, <1>4

\* The types hold at first.
LEMMA TypeInvInit == Init => TypeInv
  <1> SUFFICES ASSUME Init PROVE TypeInv
    OBVIOUS
  <1> USE DEF Init
  <1>1. /\ ticks \in 0..(Period - 1) /\ waited \in 0..MaxWait /\ fails \in 0..MaxFails
        /\ syncAge \in Int /\ clockLag \in Nat /\ skew \in Int
    BY Numbers
  <1>2. up \in BOOLEAN /\ pending \in BOOLEAN /\ SessionOK
    BY DEF SessionOK
  <1>3. since \in [Stamps -> Nat]
    OBVIOUS
  <1> QED BY <1>1, <1>2, <1>3 DEF TypeInv, TypeOK, LoopSteps

\* No step leaves the types, and the loop polls and waits only with a session.
LEMMA TypeInvNext == TypeInv /\ [Next]_vars => TypeInv'
  <1> SUFFICES ASSUME TypeInv, [Next]_vars PROVE TypeInv'
    OBVIOUS
  <1> USE DEF TypeInv, TypeOK, SessionOK, LoopSteps, stamps, uptime, request
  <1>0. /\ MaxWait \in Nat /\ MaxFails \in Nat /\ MaxOutage \in Nat /\ MaxPass \in Nat
        /\ RetryDelay \in Nat /\ PromptDelay \in Nat /\ Timeout \in Nat
    BY Numbers
  <1>1. CASE ServerAnswers
    BY <1>1 DEF ServerAnswers
  <1>2. CASE Recover
    <2>1. CASE UNCHANGED <<ticks, since, answer>>
      BY <1>2, <2>1 DEF Recover
    <2>2. CASE answer' = None /\ \E d \in 0..MaxOutage : Passes(d)
      <3>1. ticks' \in 0..(Period - 1) /\ since' \in [Stamps -> Nat]
        BY <1>0, <2>2, Domains
      <3> QED BY <1>2, <2>2, <3>1 DEF Recover
    <2> QED BY <1>2, <2>1, <2>2 DEF Recover
  <1>3. ASSUME LinkFails \/ LinkHolds
        PROVE  up' \in BOOLEAN /\ fails' \in 0..MaxFails
    <2>1. CASE LinkFails
      <3>1. up' \in BOOLEAN
        BY <2>1 DEF LinkFails
      <3>2. fails' \in 0..MaxFails
        BY <1>0, <2>1 DEF LinkFails
      <3> QED BY <3>1, <3>2
    <2> QED BY <1>3, <2>1 DEF LinkHolds
  <1>4. CASE PollAnswer
    <2>1. PICK names : HandleInfoResponse(names)
      BY <1>4 DEF PollAnswer
    <2> QED BY <1>3, <1>4, <2>1, HandleTypes DEF PollAnswer
  <1>5. CASE PollNothing
    BY <1>3, <1>5, Domains DEF PollNothing
  <1>6. CASE Publish
    BY <1>6, Domains DEF Publish
  <1>7. CASE PublishNothing
    BY <1>3, <1>7 DEF PublishNothing
  <1>8. CASE UtcIdle
    <2>1. since["sample"] \in Nat /\ skew \in Int /\ Delta \in Int
      BY Domains DEF Stamps
    <2>2. /\ lastSample' \in 0..(Period - 1) /\ syncAge' \in Int /\ skew' \in Int
          /\ since' \in [Stamps -> Nat]
      BY <1>8, <2>1, Domains DEF UtcIdle, Sample
    <2> QED BY <1>8, <2>2 DEF UtcIdle
  <1>9. CASE UtcSend
    <2>1. since["sample"] \in Nat /\ skew \in Int /\ Delta \in Int
      BY Domains DEF Stamps
    <2>2. /\ lastSample' \in 0..(Period - 1) /\ syncAge' \in Int /\ skew' \in Int
          /\ since' \in [Stamps -> Nat]
      BY <1>9, <2>1, Domains DEF UtcSend, Sample
    <2>3. answer' \in [latest : BOOLEAN, valid : BOOLEAN, age : Nat] \cup {None}
      BY <1>9 DEF UtcSend
    <2>4. up
      BY <1>9 DEF UtcSend, Sends, Looks
    <2>5. waited' \in 0..MaxWait
      BY <1>0, <1>9 DEF UtcSend
    <2>6. /\ ticks' = ticks /\ pc' = "puback" /\ up' = up /\ clockLag' = clockLag
          /\ lastPublish' = lastPublish /\ lastPoll' = lastPoll /\ lastAttempt' = lastAttempt
          /\ fails' = fails /\ pending' \in BOOLEAN /\ deadline' \in {deadline, None}
      BY <1>9 DEF UtcSend
    <2> QED BY <2>2, <2>3, <2>4, <2>5, <2>6
  <1>10. CASE WaitPasses
    <2>1. waited' \in 0..MaxWait
      BY <1>0, <1>10 DEF WaitPasses
    <2> QED BY <1>10, <2>1, Domains DEF WaitPasses
  <1>11. CASE AnswerInWait
    <2>1. HandleInfoResponse({})
      BY <1>11 DEF AnswerInWait
    <2> QED BY <1>11, <2>1, HandleTypes DEF AnswerInWait
  <1>12. CASE PubackDone
    BY <1>0, <1>12, Domains DEF PubackDone
  <1>13. CASE PubackFails
    BY <1>3, <1>13 DEF PubackFails
  <1>14. CASE Sleep
    <2>1. PICK d \in Nat : Passes(d) /\ Aged(d)
      BY <1>0, <1>14 DEF Sleep
    <2>2. /\ pc' = "recover"
          /\ UNCHANGED <<up, uptime, clockLag, stamps, request, fails, waited>>
      BY <1>14 DEF Sleep
    <2> QED BY <2>1, <2>2, Domains
  <1>15. CASE UNCHANGED vars
    BY <1>15 DEF vars
  <1> QED BY <1>1, <1>2, <1>4, <1>5, <1>6, <1>7, <1>8, <1>9, <1>10, <1>11, <1>12, <1>13,
             <1>14, <1>15 DEF Next

-----------------------------------------------------------------------------
(* The uptime and the clock. *)

\* How late the run loop may see that the deadline of a request has passed.
Late == IF pc \in {"sleep", "puback"} THEN 0
        ELSE IF pc = "recover" THEN MaxPass ELSE MaxPass + MaxOutage

\* A pending request has an armed deadline, which its expiry has not passed by much.
RequestOK ==
    pending /\ pc # "puback" =>
        /\ deadline # None
        /\ StampOK(deadline, since["attempt"] - Timeout)
        /\ since["attempt"] <= Timeout + Late

\* The answer to the pending request is no older than the request.
AnswerFresh ==
    answer # None /\ pending /\ answer.latest =>
            IF pc = "puback" THEN answer.age <= waited
            ELSE /\ answer.age <= waited + since["attempt"]
                 /\ answer.age <= MaxWait + Timeout + (IF pc = "sleep" THEN 0 ELSE MaxPass)

\* What one failure of the link may add to the age of the sample.
OutageCost == MaxPass + MaxOutage

\* The uptime is sampled in every pass that has a session and no request pending.
SampleAge ==
    /\ pc = "puback" => since["sample"] <= waited
    /\ pending /\ pc # "puback" => since["sample"] <= MaxWait + since["attempt"]
    /\ up /\ pc # "puback" =>
         since["sample"] <= MaxWait + Timeout
                            + (IF pc = "sleep" THEN 0 ELSE MaxPass)
                            + (IF pc \in {"sleep", "recover"} THEN 0 ELSE Spent(fails, OutageCost))
    /\ ~ up =>
         since["sample"] <= MaxWait + Timeout + MaxPass
                            + (IF pc = "recover" THEN MaxPass ELSE 0)
                            + Spent(fails, OutageCost) - OutageCost

TimeInv ==
    /\ StampOK(lastSample, since["sample"])
    /\ RequestOK /\ AnswerFresh /\ SampleAge
    /\ TimeExact

\* A pass samples the uptime, and sees a deadline, within half a period of the stamp.
SampledInTime ==
    /\ MaxWait + Timeout + MaxPass + Spent(MaxFails, OutageCost) < Half
    /\ Timeout + MaxPass + MaxOutage < Half

\* Ages are numbers; a stamp taken is 0 old, and all of them age with the time that passes.
LEMMA AgeFacts ==
  ASSUME TypeInv
  PROVE  /\ \A s \in Stamps : since[s] \in Nat
         /\ \A names, s \in Stamps : Taken(names)[s] = IF s \in names THEN 0 ELSE since[s]
         /\ \A d : Passes(d) => \A s \in Stamps : since'[s] = since[s] + d
         /\ "sample" \in Stamps /\ "entry" \in Stamps /\ "publish" \in Stamps
         /\ "poll" \in Stamps /\ "attempt" \in Stamps
  BY DEF TypeInv, TypeOK, Taken, Passes, Stamps

\* What failures cost is a number, and a failure adds its cost.
LEMMA SpentFacts ==
  ASSUME TypeInv, NEW c \in Nat
  PROVE  /\ fails \in Nat
         /\ Spent(fails, c) \in Nat
         /\ Spent(fails, c) <= Spent(MaxFails, c)
         /\ LinkHolds => Spent(fails', c) = Spent(fails, c) /\ (up' <=> up)
         /\ LinkFails => Spent(fails', c) = Spent(fails, c) + c /\ up /\ ~ up'
  <1>1. fails \in Nat /\ fails <= MaxFails /\ MaxFails \in Nat
    BY Numbers DEF TypeInv, TypeOK
  <1>2. /\ Spent(fails, c) \in Nat /\ Spent(fails + 1, c) = Spent(fails, c) + c
        /\ Spent(fails, c) <= Spent(MaxFails, c)
    BY <1>1, SpentStep
  <1>3. LinkFails => fails' = fails + 1 /\ up /\ ~ up'
    BY DEF LinkFails
  <1>4. LinkHolds => fails' = fails /\ (up' <=> up)
    BY DEF LinkHolds
  <1> QED BY <1>1, <1>2, <1>3, <1>4

\* The uptime is sampled while its stamp is right.
LEMMA SampleExact ==
  ASSUME TypeInv, TimeInv, SampledInTime
  PROVE  Delta = since["sample"]
  <1>1. since["sample"] \in Nat /\ since["attempt"] \in Nat /\ lastSample \in Int
    BY AgeFacts, ClockAssumption DEF TypeInv, TypeOK
  <1>2. OutageCost \in Nat /\ OutageCost >= MaxPass
    BY Numbers DEF OutageCost
  <1>3. /\ Spent(fails, OutageCost) \in Nat
        /\ Spent(fails, OutageCost) <= Spent(MaxFails, OutageCost)
        /\ Spent(MaxFails, OutageCost) \in Nat
    BY <1>2, SpentFacts, SpentStep, Numbers
  <1>4. since["sample"] < Half
    <2>1. waited \in Nat /\ waited <= MaxWait
      BY Numbers DEF TypeInv, TypeOK
    <2>2. CASE pc = "puback"
      BY <1>1, <1>3, <2>1, <2>2, Numbers, HalfPeriod DEF TimeInv, SampleAge, SampledInTime
    <2>3. CASE up /\ pc # "puback"
      <3>1. since["sample"] <= MaxWait + Timeout + MaxPass + Spent(fails, OutageCost)
        BY <1>1, <1>3, <2>3, Numbers DEF TimeInv, SampleAge
      <3> QED BY <1>1, <1>3, <3>1, Numbers, HalfPeriod DEF SampledInTime
    <2>4. CASE ~ up
      <3>1. since["sample"] <= MaxWait + Timeout + MaxPass + Spent(fails, OutageCost)
        BY <1>1, <1>2, <1>3, <2>4, Numbers DEF TimeInv, SampleAge
      <3> QED BY <1>1, <1>3, <3>1, Numbers, HalfPeriod DEF SampledInTime
    <2> QED BY <2>2, <2>3, <2>4
  <1>5. StampOK(lastSample, since["sample"])
    BY DEF TimeInv
  <1> QED BY <1>1, <1>4, <1>5, ElapsedIsAge, HalfPeriod DEF Delta

\* The run loop sees a deadline exactly when it has passed.
LEMMA ExpiredExact ==
  ASSUME TypeInv, TimeInv, SampledInTime, pc # "puback"
  PROVE  /\ Expired => pending
         /\ pending => (Expired <=> since["attempt"] >= Timeout)
  <1>1. Expired => pending
    BY DEF Expired
  <1>2. ASSUME pending
        PROVE  Expired <=> since["attempt"] >= Timeout
    <2>1. since["attempt"] \in Nat /\ deadline \in Int
      BY <1>2, AgeFacts, ClockAssumption DEF TypeInv, TypeOK, TimeInv, RequestOK
    <2>2. StampOK(deadline, since["attempt"] - Timeout) /\ since["attempt"] <= Timeout + Late
      BY <1>2 DEF TimeInv, RequestOK
    <2>3. Late \in Nat /\ Late <= MaxPass + MaxOutage
      BY Numbers DEF Late
    <2>4. since["attempt"] - Timeout < Half /\ since["attempt"] - Timeout >= 0 - Half
      BY <2>1, <2>2, <2>3, Numbers, HalfPeriod DEF SampledInTime
    <2>5. since["attempt"] - Timeout \in Int
      BY <2>1, Numbers
    <2>6. Elapsed(deadline) = since["attempt"] - Timeout
      BY <2>1, <2>2, <2>4, <2>5, ElapsedIsAge
    <2>7. Expired <=> Elapsed(deadline) >= 0
      BY <1>2 DEF Expired
    <2> QED BY <2>1, <2>6, <2>7, Numbers
  <1> QED BY <1>1, <1>2

\* The facts every step's proof starts from.
LEMMA TimeFacts ==
  ASSUME TypeInv
  PROVE  /\ since["sample"] \in Nat /\ since["attempt"] \in Nat
         /\ ticks \in 0..(Period - 1) /\ ticks \in Int
         /\ lastSample \in Int
         /\ deadline # None => deadline \in Int
         /\ waited \in Nat /\ waited <= MaxWait
         /\ answer # None => answer.age \in Nat
         /\ MaxWait \in Nat /\ Timeout \in Nat /\ MaxPass \in Nat /\ MaxOutage \in Nat
         /\ OutageCost = MaxPass + MaxOutage
         /\ Spent(fails, OutageCost) \in Nat
  <1>1. OutageCost = MaxPass + MaxOutage /\ OutageCost \in Nat
    BY Numbers DEF OutageCost
  <1> QED BY <1>1, AgeFacts, SpentFacts, Numbers, ClockAssumption DEF TypeInv, TypeOK

\* An answer sets the clock only if it answers the pending request, and then samples the
\* uptime; refused, it ends the request.
LEMMA HandleTime ==
  ASSUME TypeInv, TimeInv, SampledInTime, NEW names, HandleInfoResponse(names),
         "sample" \notin names, "attempt" \notin names, UNCHANGED <<ticks, waited>>
  PROVE  /\ (lastSample' + since'["sample"]) % Period = ticks'
         /\ TimeExact'
         /\ answer' = None
         /\ \/ /\ since'["sample"] = since["sample"] /\ since'["attempt"] = since["attempt"]
               /\ UNCHANGED request
            \/ /\ ~ pending' /\ since'["sample"] \in {0, since["sample"]}
  <1> USE TimeFacts, AgeFacts DEF uptime, request
  <1>1. answer # None /\ answer' = None
    BY DEF HandleInfoResponse
  <1>2. (lastSample + since["sample"]) % Period = ticks
    BY DEF TimeInv, StampOK
  <1>3. skew = 0 /\ clockLag <= MaxWait + Timeout + MaxPass
    BY DEF TimeInv, TimeExact, UptimeExact, ClockAccurate
  <1>4. CASE ~ Expected
    <2>1. since' = Taken(names) /\ UNCHANGED <<request, lastAttempt, uptime, clockLag>>
      BY <1>4 DEF HandleInfoResponse
    <2>2. since'["sample"] = since["sample"] /\ since'["attempt"] = since["attempt"]
      BY <2>1 DEF Taken, Stamps
    <2> QED BY <1>1, <1>2, <1>3, <2>1, <2>2 DEF TimeExact, UptimeExact, ClockAccurate
  <1>5. CASE Expected /\ ~ answer.valid
    <2>1. /\ since' = [Taken(names) EXCEPT !["attempt"] = RetryDelay - PromptDelay]
          /\ ~ pending' /\ UNCHANGED <<uptime, clockLag>>
      BY <1>5 DEF HandleInfoResponse
    <2>2. since'["sample"] = Taken(names)["sample"]
      BY <2>1 DEF Taken, Stamps
    <2>3. since'["sample"] = since["sample"]
      BY <2>2 DEF Taken, Stamps
    <2> QED BY <1>1, <1>2, <1>3, <2>1, <2>3 DEF TimeExact, UptimeExact, ClockAccurate
  <1>6. CASE Expected /\ answer.valid
    <2>1. /\ ~ pending' /\ lastSample' = ticks /\ since' = Taken(names \cup {"sample"})
          /\ skew' = skew + (Delta - since["sample"]) /\ clockLag' = answer.age
      BY <1>6 DEF HandleInfoResponse, Sample
    <2>2. since'["sample"] = 0
      BY <2>1 DEF Taken, Stamps
    <2>3. (ticks + 0) % Period = ticks
      BY StampNow
    <2>4. Delta = since["sample"]
      BY SampleExact
    <2>5. skew' = 0
      BY <1>3, <2>1, <2>4
    <2>6. answer.age <= MaxWait + Timeout + MaxPass
      <3>1. pending /\ answer.latest
        BY <1>6 DEF Expected
      <3>2. CASE pc = "puback"
        BY <1>1, <3>1, <3>2 DEF TimeInv, AnswerFresh
      <3>3. CASE pc # "puback"
        BY <1>1, <3>1, <3>3 DEF TimeInv, AnswerFresh
      <3> QED BY <3>2, <3>3
    <2> QED BY <1>1, <2>1, <2>2, <2>3, <2>5, <2>6 DEF TimeExact, UptimeExact, ClockAccurate
  <1> QED BY <1>4, <1>5, <1>6

\* An answer on its way ages with the time that passes, and stays the answer it is.
LEMMA AgedFacts ==
  ASSUME TypeInv, NEW d \in Nat, Aged(d)
  PROVE  answer' # None => /\ answer # None /\ (answer'.latest <=> answer.latest)
                           /\ answer'.age <= answer.age + d /\ answer'.age \in Nat
  <1> SUFFICES ASSUME answer' # None
               PROVE  /\ answer # None /\ (answer'.latest <=> answer.latest)
                      /\ answer'.age <= answer.age + d /\ answer'.age \in Nat
    OBVIOUS
  <1>1. answer # None /\ answer' = [answer EXCEPT !.age = Capped(@ + d)]
    BY DEF Aged
  <1>2. answer \in [latest : BOOLEAN, valid : BOOLEAN, age : Nat]
    BY <1>1 DEF TypeInv, TypeOK
  <1>3. answer'.latest = answer.latest /\ answer'.age = Capped(answer.age + d)
    BY <1>1, <1>2
  <1>4. /\ answer.age + d \in Nat /\ Capped(answer.age + d) <= answer.age + d
        /\ Capped(answer.age + d) \in Nat
    BY <1>2, Numbers DEF Capped
  <1> QED BY <1>1, <1>3, <1>4

\* Time that passes in the loop ages the sample and the deadline alike.
LEMMA PassTime ==
  ASSUME TypeInv, TimeInv, SampledInTime, NEW d \in Nat, Passes(d)
  PROVE  /\ since'["sample"] = since["sample"] + d
         /\ since'["attempt"] = since["attempt"] + d
         /\ (lastSample + since'["sample"]) % Period = ticks'
         /\ pending /\ pc # "puback" =>
              (deadline + (since'["attempt"] - Timeout)) % Period = ticks'
  <1> USE TimeFacts
  <1>1. since'["sample"] = since["sample"] + d /\ since'["attempt"] = since["attempt"] + d
    BY AgeFacts
  <1>2. ticks' = ticks_add(ticks, d)
    BY DEF Passes
  <1>3. (lastSample + (since["sample"] + d)) % Period = ticks'
    <2>1. StampOK(lastSample, since["sample"])
      BY DEF TimeInv
    <2> QED BY <1>2, <2>1, StampAges
  <1>4. ASSUME pending, pc # "puback"
        PROVE  (deadline + (since'["attempt"] - Timeout)) % Period = ticks'
    <2>1. StampOK(deadline, since["attempt"] - Timeout) /\ deadline \in Int
      BY <1>4 DEF TimeInv, RequestOK
    <2>2. since["attempt"] - Timeout \in Int
      OBVIOUS
    <2>3. (deadline + ((since["attempt"] - Timeout) + d)) % Period = ticks'
      BY <1>2, <2>1, <2>2, StampAges
    <2>4. (since["attempt"] - Timeout) + d = since'["attempt"] - Timeout
      BY <1>1
    <2> QED BY <2>3, <2>4
  <1> QED BY <1>1, <1>3, <1>4

\* Steps of a pass in which no time passes and no stamp of the invariant is taken.
LEMMA TimeQuiet ==
  ASSUME TypeInv, TimeInv, UNCHANGED <<ticks, uptime, clockLag, request, waited>>,
         since'["sample"] = since["sample"], since'["attempt"] = since["attempt"],
         answer' \in {answer, None},
         pc \in {"poll", "publish"}, pc' \in {"publish", "utc"}, LinkFails \/ LinkHolds
  PROVE  TimeInv'
  <1> USE TimeFacts DEF TimeInv, uptime, request
  <1>1. StampOK(lastSample, since["sample"])'
    BY DEF StampOK
  <1>2. RequestOK'
    BY DEF RequestOK, StampOK, Late
  <1>3. AnswerFresh'
    BY DEF AnswerFresh
  <1>4. SampleAge'
    <2>1. OutageCost \in Nat
      BY Numbers DEF OutageCost
    <2>2. /\ LinkHolds => Spent(fails', OutageCost) = Spent(fails, OutageCost) /\ (up' <=> up)
          /\ LinkFails => /\ Spent(fails', OutageCost) = Spent(fails, OutageCost) + OutageCost
                          /\ up /\ ~ up'
      BY <2>1, SpentFacts
    <2>3. (pending' <=> pending) /\ pc # "puback" /\ pc' # "puback" /\ pc' # "recover"
      OBVIOUS
    <2>4. CASE LinkHolds
      BY <2>2, <2>3, <2>4 DEF SampleAge
    <2>5. CASE LinkFails
      BY <2>2, <2>3, <2>5 DEF SampleAge
    <2> QED BY <2>4, <2>5
  <1>5. TimeExact'
    BY DEF TimeExact, UptimeExact, ClockAccurate
  <1> QED BY <1>1, <1>2, <1>3, <1>4, <1>5

\* The uptime and the clock are right at first.
LEMMA TimeInvInit == Init => TimeInv
  <1> SUFFICES ASSUME Init PROVE TimeInv
    OBVIOUS
  <1> USE DEF Init
  <1>1. since["sample"] = 0
    BY DEF Stamps
  <1>2. StampOK(lastSample, since["sample"])
    BY <1>1, StampNow DEF StampOK
  <1>3. RequestOK /\ AnswerFresh
    BY DEF RequestOK, AnswerFresh
  <1>4. SampleAge
    BY <1>1, Numbers DEF SampleAge
  <1>5. TimeExact
    BY Numbers DEF TimeExact, UptimeExact, ClockAccurate
  <1> QED BY <1>2, <1>3, <1>4, <1>5 DEF TimeInv

\* Every step keeps the ages within their bounds, and with them the uptime and the clock.
LEMMA TimeInvNext ==
  ASSUME SampledInTime, TypeInv, TypeInv', TimeInv, [Next]_vars
  PROVE  TimeInv'
  <1> USE TimeFacts
  <1>0. /\ StampOK(lastSample, since["sample"])
        /\ RequestOK /\ AnswerFresh /\ SampleAge /\ TimeExact
    BY DEF TimeInv
  <1>a. ASSUME UNCHANGED <<ticks, lastSample, skew, clockLag>>,
               since'["sample"] = since["sample"]
        PROVE  StampOK(lastSample, since["sample"])' /\ TimeExact'
    BY <1>0, <1>a DEF StampOK, TimeExact, UptimeExact, ClockAccurate
  <1>b. ASSUME Sample({}), UNCHANGED <<ticks, clockLag>>
        PROVE  /\ StampOK(lastSample, since["sample"])' /\ TimeExact'
               /\ since'["sample"] = 0 /\ since'["attempt"] = since["attempt"]
    <2>1. since' = Taken({"sample"}) /\ lastSample' = ticks
          /\ skew' = skew + (Delta - since["sample"])
      BY <1>b DEF Sample
    <2>2. since'["sample"] = 0 /\ since'["attempt"] = since["attempt"]
      BY <2>1 DEF Taken, Stamps
    <2>3. skew' = 0
      BY <1>0, <2>1, SampleExact DEF TimeExact, UptimeExact
    <2>4. (lastSample' + since'["sample"]) % Period = ticks'
      BY <1>b, <2>1, <2>2, StampNow
    <2> QED BY <1>0, <1>b, <2>2, <2>3, <2>4
            DEF StampOK, TimeExact, UptimeExact, ClockAccurate
  <1>1. CASE ServerAnswers
    <2>1. /\ UNCHANGED <<ticks, pc, up, lastSample, skew, clockLag, pending, deadline, since,
                         fails, waited>>
          /\ answer' # None => answer'.age = 0
      BY <1>1 DEF ServerAnswers, uptime, request
    <2>2. StampOK(lastSample, since["sample"])' /\ TimeExact'
      BY <1>a, <2>1
    <2>3. RequestOK' /\ SampleAge'
      BY <1>0, <2>1 DEF RequestOK, StampOK, Late, SampleAge
    <2>4. AnswerFresh'
      BY <2>1 DEF AnswerFresh
    <2> QED BY <2>2, <2>3, <2>4 DEF TimeInv
  <1>2. CASE Recover
    <2>1. /\ pc = "recover" /\ pc' = "poll" /\ up'
          /\ UNCHANGED <<lastSample, skew, clockLag, pending, deadline, fails, waited>>
      BY <1>2 DEF Recover, uptime, request
    <2>2. CASE up /\ UNCHANGED <<ticks, since, answer>>
      <3>1. StampOK(lastSample, since["sample"])' /\ TimeExact'
        BY <1>a, <2>1, <2>2
      <3>2. RequestOK'
        BY <1>0, <2>1, <2>2 DEF RequestOK, StampOK, Late
      <3>3. AnswerFresh'
        BY <1>0, <2>1, <2>2 DEF AnswerFresh
      <3>4. SampleAge'
        BY <1>0, <2>1, <2>2 DEF SampleAge
      <3> QED BY <3>1, <3>2, <3>3, <3>4 DEF TimeInv
    <2>3. CASE ~ up /\ answer' = None /\ \E d \in 0..MaxOutage : Passes(d)
      <3>1. PICK d \in 0..MaxOutage : Passes(d)
        BY <2>3
      <3>2. d \in Nat /\ d <= MaxOutage
        OBVIOUS
      <3>3. /\ since'["sample"] = since["sample"] + d
            /\ since'["attempt"] = since["attempt"] + d
            /\ (lastSample + since'["sample"]) % Period = ticks'
            /\ pending => (deadline + (since'["attempt"] - Timeout)) % Period = ticks'
        BY <2>1, <3>1, <3>2, PassTime
      <3>4. StampOK(lastSample, since["sample"])'
        BY <2>1, <3>3 DEF StampOK
      <3>5. TimeExact'
        BY <1>0, <2>1 DEF TimeExact, UptimeExact, ClockAccurate
      <3>6. RequestOK'
        BY <1>0, <2>1, <3>2, <3>3 DEF RequestOK, StampOK, Late
      <3>7. AnswerFresh'
        BY <2>3 DEF AnswerFresh
      <3>8. SampleAge'
        BY <1>0, <2>1, <2>3, <3>2, <3>3 DEF SampleAge
      <3> QED BY <3>4, <3>5, <3>6, <3>7, <3>8 DEF TimeInv
    <2> QED BY <1>2, <2>2, <2>3 DEF Recover
  <1>3. CASE PollAnswer
    <2>1. /\ pc = "poll" /\ pc' = "publish" /\ up /\ HandleInfoResponse({"poll"})
          /\ UNCHANGED <<ticks, waited>> /\ (LinkFails \/ LinkHolds)
      BY <1>3 DEF PollAnswer, TypeInv, SessionOK
    <2>2. /\ (lastSample' + since'["sample"]) % Period = ticks'
          /\ TimeExact'
          /\ answer' = None
          /\ \/ /\ since'["sample"] = since["sample"] /\ since'["attempt"] = since["attempt"]
                /\ UNCHANGED request
             \/ /\ ~ pending' /\ since'["sample"] \in {0, since["sample"]}
      BY <2>1, HandleTime
    <2>3. RequestOK'
      BY <1>0, <2>1, <2>2 DEF RequestOK, StampOK, Late, request
    <2>4. AnswerFresh'
      BY <2>2 DEF AnswerFresh
    <2>5. SampleAge'
      <3>1. /\ LinkHolds => Spent(fails', OutageCost) = Spent(fails, OutageCost) /\ up'
            /\ LinkFails => /\ Spent(fails', OutageCost) = Spent(fails, OutageCost) + OutageCost
                            /\ ~ up'
        BY <2>1, SpentFacts
      <3>2. since'["sample"] <= since["sample"] /\ since'["sample"] \in Nat
        BY <2>2
      <3>3. pending' => since'["sample"] <= MaxWait + since'["attempt"]
        BY <1>0, <2>1, <2>2 DEF SampleAge, request
      <3>4. CASE LinkHolds
        BY <1>0, <2>1, <3>1, <3>2, <3>3, <3>4 DEF SampleAge
      <3>5. CASE LinkFails
        BY <1>0, <2>1, <3>1, <3>2, <3>3, <3>5 DEF SampleAge
      <3> QED BY <2>1, <3>4, <3>5
    <2> QED BY <2>2, <2>3, <2>4, <2>5 DEF TimeInv, StampOK
  <1>4. CASE PollNothing
    <2>1. since' = Taken({"poll"}) \/ since' = since
      BY <1>4 DEF PollNothing
    <2>2. since'["sample"] = since["sample"] /\ since'["attempt"] = since["attempt"]
      BY <2>1 DEF Taken, Stamps
    <2>3. LinkFails \/ LinkHolds
      BY <1>4 DEF PollNothing, LinkHolds
    <2> QED BY <1>4, <2>2, <2>3, TimeQuiet DEF PollNothing
  <1>5. CASE Publish
    <2>1. since' = Taken({"entry", "publish"})
      BY <1>5 DEF Publish
    <2>2. since'["sample"] = since["sample"] /\ since'["attempt"] = since["attempt"]
      BY <2>1 DEF Taken, Stamps
    <2> QED BY <1>5, <2>2, TimeQuiet DEF Publish, LinkHolds
  <1>6. CASE PublishNothing
    BY <1>6, TimeQuiet DEF PublishNothing
  <1>7. CASE UtcIdle
    <2>1. /\ pc = "utc" /\ pc' = "sleep" /\ ~ Sends
          /\ UNCHANGED <<ticks, up, clockLag, answer, fails, waited>>
      BY <1>7 DEF UtcIdle
    <2>2. /\ pending' => pending /\ ~ Expired /\ deadline' = deadline
          /\ Looks => Sample({})
          /\ ~ Looks => UNCHANGED <<uptime, since>>
      BY <1>7 DEF UtcIdle, request, Expired
    <2>3. /\ StampOK(lastSample, since["sample"])' /\ TimeExact'
          /\ since'["attempt"] = since["attempt"]
          /\ since'["sample"] = IF Looks THEN 0 ELSE since["sample"]
      <3>1. CASE Looks
        BY <1>b, <2>1, <2>2, <3>1
      <3>2. CASE ~ Looks
        BY <1>a, <2>1, <2>2, <3>2 DEF uptime
      <3> QED BY <3>1, <3>2
    <2>4. pending' => pending /\ since["attempt"] < Timeout
      BY <2>1, <2>2, ExpiredExact
    <2>5. RequestOK'
      BY <1>0, <2>1, <2>2, <2>3, <2>4 DEF RequestOK, StampOK, Late
    <2>6. AnswerFresh'
      BY <1>0, <2>1, <2>3, <2>4 DEF AnswerFresh
    <2>7. SampleAge'
      <3>1. CASE Looks
        BY <1>0, <2>1, <2>3, <3>1 DEF SampleAge, Looks
      <3>2. CASE ~ up
        BY <1>0, <2>1, <2>3, <2>4, <3>2 DEF SampleAge, Looks
      <3>3. CASE up /\ ~ Looks
        <4>1. pending /\ ~ Expired
          BY <3>3 DEF Looks
        <4>2. since["attempt"] < Timeout
          BY <2>1, <4>1, ExpiredExact
        <4> QED BY <1>0, <2>1, <2>3, <3>3, <4>1, <4>2 DEF SampleAge
      <3> QED BY <3>1, <3>2, <3>3
    <2> QED BY <2>3, <2>5, <2>6, <2>7 DEF TimeInv
  <1>8. CASE UtcSend
    <2>1. /\ pc' = "puback" /\ waited' = 0 /\ Sample({}) /\ up
          /\ UNCHANGED <<ticks, up, clockLag, fails>>
          /\ answer' # None => ~ answer'.latest
      <3>1. up
        BY <1>8 DEF UtcSend, Sends, Looks
      <3>2. answer' # None => ~ answer'.latest
        <4>1. answer' = IF answer = None THEN None ELSE [answer EXCEPT !.latest = FALSE]
          BY <1>8 DEF UtcSend
        <4>2. answer # None => answer \in [latest : BOOLEAN, valid : BOOLEAN, age : Nat]
          BY DEF TypeInv, TypeOK
        <4> QED BY <4>1, <4>2
      <3> QED BY <1>8, <3>1, <3>2 DEF UtcSend
    <2>2. StampOK(lastSample, since["sample"])' /\ TimeExact' /\ since'["sample"] = 0
      BY <1>b, <2>1
    <2>3. RequestOK' /\ AnswerFresh'
      BY <2>1 DEF RequestOK, AnswerFresh
    <2>4. SampleAge'
      BY <2>1, <2>2 DEF SampleAge
    <2> QED BY <2>2, <2>3, <2>4 DEF TimeInv
  <1>9. CASE WaitPasses
    <2>1. /\ pc = "puback" /\ pc' = pc /\ waited' = waited + 1 /\ Passes(1) /\ Aged(1)
          /\ UNCHANGED <<up, lastSample, skew, clockLag, pending, deadline, fails>>
      BY <1>9 DEF WaitPasses, uptime, request
    <2>2. /\ since'["sample"] = since["sample"] + 1
          /\ (lastSample + since'["sample"]) % Period = ticks'
      BY <2>1, PassTime
    <2>3. StampOK(lastSample, since["sample"])' /\ TimeExact'
      BY <1>0, <2>1, <2>2 DEF StampOK, TimeExact, UptimeExact, ClockAccurate
    <2>4. RequestOK'
      BY <2>1 DEF RequestOK
    <2>5. AnswerFresh'
      <3>1. answer' # None => /\ answer # None /\ (answer'.latest <=> answer.latest)
                              /\ answer'.age <= answer.age + 1 /\ answer'.age \in Nat
        BY <2>1, AgedFacts
      <3>2. ASSUME answer' # None, pending', answer'.latest
            PROVE  answer'.age <= waited'
        <4>1. answer # None /\ answer.latest /\ pending
          BY <2>1, <3>1, <3>2
        <4>2. answer.age <= waited
          BY <1>0, <2>1, <4>1 DEF AnswerFresh
        <4> QED BY <2>1, <3>1, <3>2, <4>1, <4>2
      <3> QED BY <2>1, <3>2 DEF AnswerFresh
    <2>6. SampleAge'
      BY <1>0, <2>1, <2>2 DEF SampleAge, TypeInv, SessionOK
    <2> QED BY <2>3, <2>4, <2>5, <2>6 DEF TimeInv
  <1>10. CASE AnswerInWait
    <2>1. /\ pc = "puback" /\ pc' = pc /\ HandleInfoResponse({}) /\ up
          /\ UNCHANGED <<ticks, up, fails, waited>>
      BY <1>10 DEF AnswerInWait, TypeInv, SessionOK
    <2>2. /\ (lastSample' + since'["sample"]) % Period = ticks'
          /\ TimeExact'
          /\ answer' = None
          /\ since'["sample"] \in {0, since["sample"]}
      BY <2>1, HandleTime
    <2>3. RequestOK' /\ AnswerFresh'
      BY <2>1, <2>2 DEF RequestOK, AnswerFresh
    <2>4. SampleAge'
      BY <1>0, <2>1, <2>2 DEF SampleAge
    <2> QED BY <2>2, <2>3, <2>4 DEF TimeInv, StampOK
  <1>11. CASE PubackDone
    <2>1. /\ pc = "puback" /\ pc' = "sleep" /\ up
          /\ deadline' = ticks_add(ticks, Timeout)
          /\ since' = Taken({"publish", "attempt"})
          /\ UNCHANGED <<ticks, up, lastSample, skew, clockLag, pending, answer, fails, waited>>
      BY <1>11 DEF PubackDone, uptime, TypeInv, SessionOK
    <2>2. since'["sample"] = since["sample"] /\ since'["attempt"] = 0
      BY <2>1 DEF Taken, Stamps
    <2>3. StampOK(lastSample, since["sample"])' /\ TimeExact'
      BY <1>a, <2>1, <2>2
    <2>4. RequestOK'
      <3>1. /\ deadline' \in 0..(Period - 1)
            /\ (deadline' + (0 - Timeout)) % Period = ticks
        BY <2>1, StampAhead
      <3>2. deadline' # None
        BY <3>1, ClockAssumption
      <3> QED BY <2>1, <2>2, <3>1, <3>2 DEF RequestOK, StampOK, Late
    <2>5. AnswerFresh'
      BY <1>0, <2>1, <2>2 DEF AnswerFresh
    <2>6. SampleAge'
      BY <1>0, <2>1, <2>2 DEF SampleAge
    <2> QED BY <2>3, <2>4, <2>5, <2>6 DEF TimeInv
  <1>12. CASE PubackFails
    <2>1. /\ pc = "puback" /\ pc' = "sleep" /\ ~ pending' /\ LinkFails
          /\ UNCHANGED <<ticks, lastSample, skew, clockLag, since, waited>>
      BY <1>12 DEF PubackFails, uptime
    <2>2. StampOK(lastSample, since["sample"])' /\ TimeExact'
      BY <1>a, <2>1
    <2>3. RequestOK' /\ AnswerFresh'
      BY <2>1 DEF RequestOK, AnswerFresh
    <2>4. SampleAge'
      <3>1. ~ up' /\ Spent(fails', OutageCost) = Spent(fails, OutageCost) + OutageCost
        BY <2>1, SpentFacts
      <3> QED BY <1>0, <2>1, <3>1 DEF SampleAge
    <2> QED BY <2>2, <2>3, <2>4 DEF TimeInv
  <1>13. CASE Sleep
    <2>1. /\ pc = "sleep" /\ pc' = "recover"
          /\ UNCHANGED <<up, lastSample, skew, clockLag, pending, deadline, fails, waited>>
      BY <1>13 DEF Sleep, uptime, request
    <2>2. PICK d \in 1..MaxPass : Passes(d) /\ Aged(d)
      BY <1>13 DEF Sleep
    <2>3. d \in Nat /\ d <= MaxPass
      OBVIOUS
    <2>4. /\ since'["sample"] = since["sample"] + d
          /\ since'["attempt"] = since["attempt"] + d
          /\ (lastSample + since'["sample"]) % Period = ticks'
          /\ pending => (deadline + (since'["attempt"] - Timeout)) % Period = ticks'
      BY <2>1, <2>2, <2>3, PassTime
    <2>5. StampOK(lastSample, since["sample"])' /\ TimeExact'
      BY <1>0, <2>1, <2>4 DEF StampOK, TimeExact, UptimeExact, ClockAccurate
    <2>6. RequestOK'
      BY <1>0, <2>1, <2>3, <2>4 DEF RequestOK, StampOK, Late
    <2>7. AnswerFresh'
      <3>1. answer' # None => /\ answer # None /\ (answer'.latest <=> answer.latest)
                              /\ answer'.age <= answer.age + d /\ answer'.age \in Nat
        BY <2>2, <2>3, AgedFacts
      <3>2. ASSUME answer' # None, pending', answer'.latest
            PROVE  /\ answer'.age <= waited' + since'["attempt"]
                   /\ answer'.age <= MaxWait + Timeout + MaxPass
        <4>1. answer # None /\ answer.latest /\ pending
          BY <2>1, <3>1, <3>2
        <4>2. answer.age <= waited + since["attempt"] /\ answer.age <= MaxWait + Timeout
          BY <1>0, <2>1, <4>1 DEF AnswerFresh
        <4> QED BY <2>1, <2>3, <2>4, <3>1, <3>2, <4>1, <4>2
      <3> QED BY <2>1, <3>2 DEF AnswerFresh
    <2>8. SampleAge'
      BY <1>0, <2>1, <2>3, <2>4 DEF SampleAge
    <2> QED BY <2>5, <2>6, <2>7, <2>8 DEF TimeInv
  <1>14. CASE UNCHANGED vars
    BY <1>0, <1>14
       DEF vars, uptime, request, TimeInv, StampOK, RequestOK, Late, AnswerFresh, SampleAge,
           TimeExact, UptimeExact, ClockAccurate
  <1> QED BY <1>1, <1>2, <1>3, <1>4, <1>5, <1>6, <1>7, <1>8, <1>9, <1>10, <1>11, <1>12,
             <1>13, <1>14 DEF Next

\* TimeExact: what Core 0 says of time in a timestamp or an uptime is the time, over any
\* number of wraps of the counter and of late or repeated answers.
THEOREM TimeIsExact == ASSUME SampledInTime PROVE Spec => []TimeExact
  <1>1. TypeInv /\ TimeInv /\ [Next]_vars => TypeInv' /\ TimeInv'
    BY TypeInvNext, TimeInvNext
  <1>2. TimeInv => TimeExact
    BY DEF TimeInv
  <1> QED BY <1>1, <1>2, TypeInvInit, TimeInvInit, PTL DEF Spec

-----------------------------------------------------------------------------
(* The gates. *)

\* The poll is looked at in every pass.
PollAge ==
    since["poll"] <= PollInterval
        + (CASE pc \in {"publish", "utc"} -> 0
             [] pc = "puback" -> waited
             [] pc = "sleep" -> MaxWait
             [] pc = "recover" -> MaxWait + MaxPass
             [] OTHER -> MaxWait + MaxPass + MaxOutage)

\* What one failure may add to the age of the publish stamp.
PublishCost == MaxWait + MaxPass + MaxOutage

\* An open gate lets the next entry out.
PublishAge ==
    /\ since["publish"] <= since["entry"]
    /\ up =>
         since["publish"] <= PublishDelay + MaxQuiet
            + (CASE pc \in {"utc", "sleep"} -> 0
                 [] pc = "puback" -> waited
                 [] pc = "recover" -> MaxPass
                 [] OTHER -> MaxPass + Spent(fails, PublishCost))
    /\ ~ up =>
         since["publish"] <= PublishDelay + MaxQuiet + MaxWait + MaxPass
            + (IF pc = "recover" THEN MaxPass ELSE 0)
            + Spent(fails, PublishCost) - PublishCost

\* The real age of the snapshot, which the sync age counts.
SnapshotAge == syncAge + since["sample"]

\* In a pass that starts this long after the last attempt, with a session throughout, the
\* next one is due.
Due == SyncInterval + Timeout + RetryDelay + PublishDelay + MaxPass

\* What one failure may add to the age of the last attempt.
AttemptCost == Due + PublishDelay + 3 * MaxPass + MaxWait + MaxOutage

\* A request is sent for a snapshot that is due, and does not stay pending.
RequestAge ==
    /\ syncAge >= 0
    /\ pending => SnapshotAge >= SyncInterval
    /\ up /\ pending /\ pc \notin {"sleep", "recover", "puback"} =>
         since["attempt"] <= Timeout + MaxPass + Spent(fails, AttemptCost)

\* An attempt that is younger than the last entry was sent, or refused, with the stamp
\* of its publish.
AttemptPaced ==
    since["publish"] = since["entry"] \/ since["attempt"] <= since["publish"] + RetryDelay

\* The attempt is sent in the first pass that finds it due and the publish gate open: at
\* once, or, when an entry was published in that pass, when the gate opens after it.
AttemptUp ==
    up /\ pc # "puback" =>
        \/ since["attempt"] <= Due + (IF pc = "sleep" THEN 0 ELSE MaxPass)
                               + Spent(fails, AttemptCost)
        \/ /\ since["attempt"] - since["publish"] <= Due + MaxPass + Spent(fails, AttemptCost)
           /\ since["publish"] = since["entry"]
           /\ since["publish"] < PublishDelay + (IF pc = "sleep" THEN 0 ELSE MaxPass)

\* Until the snapshot is due the attempt is little older than it.
AttemptNotDue ==
    up /\ pc # "puback" /\ SnapshotAge < SyncInterval =>
        since["attempt"] <= SnapshotAge + Timeout + MaxPass + Spent(fails, AttemptCost)

AttemptDown ==
    ~ up => since["attempt"] <= Due + PublishDelay + 2 * MaxPass + MaxWait
                                + (IF pc = "recover" THEN MaxPass ELSE 0)
                                + Spent(fails, AttemptCost) - AttemptCost

AttemptWait ==
    pc = "puback" => since["attempt"] <= Due + PublishDelay + 2 * MaxPass + waited
                                         + Spent(fails, AttemptCost)

AttemptAge ==
    RequestAge /\ AttemptPaced /\ AttemptUp /\ AttemptNotDue /\ AttemptDown /\ AttemptWait

StampsInv ==
    /\ StampOK(lastPoll, since["poll"])
    /\ StampOK(lastPublish, since["publish"])
    /\ StampOK(lastAttempt, since["attempt"])

TimersInv == StampsInv /\ PollAge /\ PublishAge /\ AttemptAge

\* A pass looks at every stamp within half a period, and leaves an open publish gate to
\* the UTC request: entries do not follow each other as fast as passes do.
StampsInTime ==
    /\ SampledInTime
    /\ MinQuiet >= PublishDelay + MaxPass
    /\ PollInterval + MaxWait + MaxPass + MaxOutage < Half
    /\ PublishDelay + MaxQuiet + MaxWait + MaxPass + Spent(MaxFails, PublishCost) < Half
    /\ Due + PublishDelay + 2 * MaxPass + MaxWait + Spent(MaxFails, AttemptCost) < Half

\* The facts every step's proof starts from.
LEMMA GateFacts ==
  ASSUME TypeInv
  PROVE  /\ \A s \in Stamps : since[s] \in Nat
         /\ since["poll"] \in Nat /\ since["publish"] \in Nat /\ since["entry"] \in Nat
         /\ PublishCost = MaxWait + MaxPass + MaxOutage /\ PublishCost \in Nat
         /\ Due = SyncInterval + Timeout + RetryDelay + PublishDelay + MaxPass /\ Due \in Nat
         /\ AttemptCost = Due + PublishDelay + 3 * MaxPass + MaxWait + MaxOutage
         /\ AttemptCost \in Nat
         /\ Spent(fails, PublishCost) \in Nat /\ Spent(fails, AttemptCost) \in Nat
         /\ Spent(fails, PublishCost) <= Spent(MaxFails, PublishCost)
         /\ Spent(fails, AttemptCost) <= Spent(MaxFails, AttemptCost)
         /\ Spent(MaxFails, PublishCost) \in Nat /\ Spent(MaxFails, AttemptCost) \in Nat
         /\ syncAge \in Int
         /\ waited \in Nat /\ waited <= MaxWait
         /\ lastPoll \in Int /\ lastPublish \in Int /\ lastAttempt \in Int
         /\ ticks \in 0..(Period - 1)
  <1>1. PublishCost = MaxWait + MaxPass + MaxOutage /\ PublishCost \in Nat
    BY Numbers DEF PublishCost
  <1>2. Due = SyncInterval + Timeout + RetryDelay + PublishDelay + MaxPass /\ Due \in Nat
    BY Numbers DEF Due
  <1>3. AttemptCost = Due + PublishDelay + 3 * MaxPass + MaxWait + MaxOutage
        /\ AttemptCost \in Nat
    BY <1>2, Numbers DEF AttemptCost
  <1>4. /\ Spent(fails, PublishCost) \in Nat /\ Spent(fails, AttemptCost) \in Nat
        /\ Spent(fails, PublishCost) <= Spent(MaxFails, PublishCost)
        /\ Spent(fails, AttemptCost) <= Spent(MaxFails, AttemptCost)
    BY <1>1, <1>3, SpentFacts
  <1>5. Spent(MaxFails, PublishCost) \in Nat /\ Spent(MaxFails, AttemptCost) \in Nat
    BY <1>1, <1>3, SpentStep, Numbers
  <1>6. lastPoll \in Int /\ lastPublish \in Int /\ lastAttempt \in Int
    BY ClockAssumption DEF TypeInv, TypeOK
  <1>7. waited \in Nat /\ waited <= MaxWait /\ syncAge \in Int /\ ticks \in 0..(Period - 1)
    BY Numbers DEF TypeInv, TypeOK
  <1> QED BY <1>1, <1>2, <1>3, <1>4, <1>5, <1>6, <1>7, AgeFacts

\* The gates compare stamps that are right.
LEMMA GatesExact ==
  ASSUME TypeInv, TimersInv, StampsInTime
  PROVE  TimersTrackTime
  <1> USE GateFacts, Numbers, HalfPeriod DEF TimersInv, StampsInv
  <1>1. since["poll"] < Half
    BY DEF PollAge, StampsInTime
  <1>2. since["publish"] < Half
    <2>1. CASE up
      <3>1. since["publish"] <= PublishDelay + MaxQuiet + MaxWait + MaxPass
                                + Spent(fails, PublishCost)
        BY <2>1 DEF PublishAge
      <3> QED BY <3>1 DEF StampsInTime
    <2>2. CASE ~ up
      <3>1. since["publish"] <= PublishDelay + MaxQuiet + MaxWait + MaxPass
                                + Spent(fails, PublishCost)
        BY <2>2 DEF PublishAge
      <3> QED BY <3>1 DEF StampsInTime
    <2> QED BY <2>1, <2>2
  <1>3. since["attempt"] < Half
    <2>0. since["attempt"] \in Nat
      BY AgeFacts
    <2>1. CASE pc = "puback"
      BY <2>0, <2>1 DEF AttemptAge, AttemptWait, StampsInTime
    <2>2. CASE up /\ pc # "puback"
      <3>1. since["attempt"] <= Due + PublishDelay + 2 * MaxPass + Spent(fails, AttemptCost)
        BY <2>0, <2>2 DEF AttemptAge, AttemptUp
      <3> QED BY <2>0, <3>1 DEF StampsInTime
    <2>3. CASE ~ up
      <3>1. since["attempt"] <= Spent(fails, AttemptCost)
        BY <2>0, <2>3 DEF AttemptAge, AttemptDown
      <3> QED BY <2>0, <3>1 DEF StampsInTime
    <2> QED BY <2>1, <2>2, <2>3
  <1>4. since["attempt"] \in Nat
    BY AgeFacts
  <1>5. /\ Elapsed(lastPoll) = since["poll"]
        /\ Elapsed(lastPublish) = since["publish"]
        /\ Elapsed(lastAttempt) = since["attempt"]
    BY <1>1, <1>2, <1>3, <1>4, ElapsedIsAge
  <1>6. MqttPublishReady <=> since["publish"] >= PublishDelay
    BY <1>5 DEF MqttPublishReady
  <1> QED BY <1>5, <1>6 DEF TimersTrackTime, PublishGateTracksTime, PollDue, Throttled

\* Time that passes ages every gate's stamp.
LEMMA PassStamps ==
  ASSUME TypeInv, StampsInv, NEW d \in Nat, Passes(d),
         UNCHANGED <<lastPoll, lastPublish, lastAttempt>>
  PROVE  /\ \A s \in Stamps : since'[s] = since[s] + d
         /\ StampsInv'
  <1> USE GateFacts, AgeFacts
  <1>1. \A s \in Stamps : since'[s] = since[s] + d
    OBVIOUS
  <1>2. ticks' = ticks_add(ticks, d)
    BY DEF Passes
  <1>3. ASSUME NEW s \in Stamps, NEW stamp \in Int, StampOK(stamp, since[s])
        PROVE  (stamp + since'[s]) % Period = ticks'
    <2>1. since[s] \in Int /\ d \in Int
      OBVIOUS
    <2>2. (stamp + (since[s] + d)) % Period = ticks'
      BY <1>2, <1>3, <2>1, StampAges
    <2> QED BY <1>1, <2>2
  <1> QED BY <1>1, <1>3 DEF StampsInv, StampOK

\* What an answer does to the gates: nothing, or it ends the request, refused with a retry
\* after the prompt delay or taken as the new snapshot.
LEMMA HandleTimers ==
  ASSUME TypeInv, StampOK(lastAttempt, since["attempt"]), NEW names, HandleInfoResponse(names),
         "sample" \notin names, "attempt" \notin names, UNCHANGED ticks
  PROVE  /\ \A s \in Stamps \ {"sample", "attempt"} :
              since'[s] = IF s \in names THEN 0 ELSE since[s]
         /\ StampOK(lastAttempt, since["attempt"])'
         /\ \/ /\ since'["attempt"] = since["attempt"] /\ since'["sample"] = since["sample"]
               /\ syncAge' = syncAge /\ (pending' <=> pending)
            \/ /\ pending /\ ~ pending'
               /\ since'["attempt"] = RetryDelay - PromptDelay
               /\ since'["sample"] = since["sample"] /\ syncAge' = syncAge
            \/ /\ pending /\ ~ pending'
               /\ since'["attempt"] = since["attempt"]
               /\ since'["sample"] = 0 /\ syncAge' = 0
  <1> USE AgeFacts DEF uptime, request
  <1>4. CASE ~ Expected
    <2>1. since' = Taken(names) /\ UNCHANGED <<request, lastAttempt, uptime>>
      BY <1>4 DEF HandleInfoResponse
    <2>2. \A s \in Stamps : since'[s] = IF s \in names THEN 0 ELSE since[s]
      BY <2>1 DEF Taken
    <2> QED BY <2>1, <2>2 DEF StampOK
  <1>5. CASE Expected /\ ~ answer.valid
    <2>1. /\ since' = [Taken(names) EXCEPT !["attempt"] = RetryDelay - PromptDelay]
          /\ lastAttempt' = ticks_add(ticks, PromptDelay - RetryDelay)
          /\ pending /\ ~ pending' /\ UNCHANGED uptime
      BY <1>5 DEF HandleInfoResponse, Expected
    <2>2. /\ \A s \in Stamps \ {"attempt"} : since'[s] = IF s \in names THEN 0 ELSE since[s]
          /\ since'["attempt"] = RetryDelay - PromptDelay
      BY <2>1 DEF Taken
    <2>3. (lastAttempt' + since'["attempt"]) % Period = ticks
      <3>1. PromptDelay - RetryDelay \in Int
            /\ 0 - (PromptDelay - RetryDelay) = RetryDelay - PromptDelay
        BY Numbers
      <3>2. ticks \in 0..(Period - 1)
        BY DEF TypeInv, TypeOK
      <3> QED BY <2>1, <2>2, <3>1, <3>2, StampAhead
    <2> QED BY <2>1, <2>2, <2>3 DEF StampOK
  <1>6. CASE Expected /\ answer.valid
    <2>1. /\ since' = Taken(names \cup {"sample"})
          /\ pending /\ ~ pending' /\ syncAge' = 0 /\ lastAttempt' = lastAttempt
      BY <1>6 DEF HandleInfoResponse, Sample, Expected
    <2>2. \A s \in Stamps : since'[s] = IF s \in names \cup {"sample"} THEN 0 ELSE since[s]
      BY <2>1 DEF Taken
    <2>3. since'["sample"] = 0 /\ since'["attempt"] = since["attempt"]
      BY <2>2
    <2>4. \A s \in Stamps \ {"sample", "attempt"} : since'[s] = IF s \in names THEN 0 ELSE since[s]
      BY <2>2
    <2> QED BY <2>1, <2>3, <2>4 DEF StampOK
  <1> QED BY <1>4, <1>5, <1>6

\* A sample moves time from the stamp's age to the sync age; past the cap it stays due.
LEMMA SampleTimers ==
  ASSUME TypeInv, TimeInv, SampledInTime, syncAge >= 0,
         Sample({}), syncAge' = Capped(syncAge + Delta)
  PROVE  /\ \A s \in Stamps \ {"sample"} : since'[s] = since[s]
         /\ since'["sample"] = 0
         /\ syncAge' >= 0
         /\ SnapshotAge' < SyncInterval => SnapshotAge' = SnapshotAge
         /\ SnapshotAge \in Nat /\ SnapshotAge' \in Nat
         /\ Delta = since["sample"]
  <1>1. Delta = since["sample"] /\ since["sample"] \in Nat /\ syncAge \in Int
    BY SampleExact, AgeFacts DEF TypeInv, TypeOK
  <1>2. since' = Taken({"sample"})
    BY DEF Sample
  <1>3. /\ \A s \in Stamps \ {"sample"} : since'[s] = since[s]
        /\ since'["sample"] = 0
    BY <1>2 DEF Taken, Stamps
  <1>4. syncAge' = IF SnapshotAge > MaxAge THEN MaxAge ELSE SnapshotAge
    BY <1>1 DEF Capped, SnapshotAge
  <1>5. SnapshotAge \in Nat
    BY <1>1 DEF SnapshotAge
  <1>6. SnapshotAge' = syncAge'
    BY <1>3, <1>4, <1>5, Numbers DEF SnapshotAge
  <1> QED BY <1>1, <1>3, <1>4, <1>5, <1>6, Numbers

\* The gates' stamps are right at first.
LEMMA TimersInvInit == Init => TimersInv
  <1> SUFFICES ASSUME Init PROVE TimersInv
    OBVIOUS
  <1> USE DEF Init
  <1>1. \A s \in Stamps : since[s] = 0
    OBVIOUS
  <1>2. /\ since["sample"] = 0 /\ since["entry"] = 0 /\ since["publish"] = 0
        /\ since["poll"] = 0 /\ since["attempt"] = 0
    BY <1>1 DEF Stamps
  <1>3. StampsInv
    BY <1>2, StampNow DEF StampsInv, StampOK
  <1>4. PollAge /\ PublishAge
    BY <1>2, Numbers DEF PollAge, PublishAge
  <1>5. AttemptAge
    <2>1. Due \in Nat /\ AttemptCost \in Nat
      BY TypeInvInit, GateFacts
    <2>2. Spent(fails, AttemptCost) \in Nat
      BY <2>1, SpentStep
    <2>3. RequestAge
      BY DEF RequestAge
    <2>4. AttemptPaced /\ AttemptDown /\ AttemptWait
      BY <1>2 DEF AttemptPaced, AttemptDown, AttemptWait
    <2>5. AttemptUp /\ AttemptNotDue
      BY <1>2, <2>1, <2>2, Numbers DEF AttemptUp, AttemptNotDue, SnapshotAge
    <2> QED BY <2>3, <2>4, <2>5 DEF AttemptAge
  <1> QED BY <1>3, <1>4, <1>5 DEF TimersInv

\* A failure at the poll or in a publish costs at most one more interval of attempts.
LEMMA AttemptFails ==
  ASSUME TypeInv, AttemptAge, up, LinkFails, pc # "puback", pc # "recover", pc' # "recover",
         pc' # "puback",
         \/ since'["attempt"] = since["attempt"]
         \/ since'["attempt"] = RetryDelay - PromptDelay
  PROVE  AttemptUp' /\ AttemptNotDue' /\ AttemptDown' /\ AttemptWait'
  <1> USE GateFacts, Numbers
  <1>1. ~ up' /\ Spent(fails', AttemptCost) = Spent(fails, AttemptCost) + AttemptCost
    BY SpentFacts
  <1>2. since["attempt"] \in Nat /\ since["publish"] \in Nat
    BY AgeFacts
  <1>3. since["attempt"] <= Due + PublishDelay + 2 * MaxPass + Spent(fails, AttemptCost)
    BY <1>2 DEF AttemptAge, AttemptUp
  <1>4. since'["attempt"] <= Due + PublishDelay + 2 * MaxPass + Spent(fails, AttemptCost)
    BY <1>2, <1>3
  <1>5. AttemptDown'
    BY <1>1, <1>4, <1>2 DEF AttemptDown
  <1> QED BY <1>1, <1>5 DEF AttemptUp, AttemptNotDue, AttemptWait

\* The poll and the publishes of a pass, an entry excepted, leave the attempt in its bounds.
LEMMA AttemptLoop ==
  ASSUME TypeInv, AttemptAge,
         pc \in {"poll", "publish"}, pc' \in {"publish", "utc"}, LinkFails \/ LinkHolds,
         since'["publish"] = since["publish"], since'["entry"] = since["entry"],
         \/ /\ since'["attempt"] = since["attempt"] /\ since'["sample"] = since["sample"]
            /\ syncAge' = syncAge /\ (pending' <=> pending)
         \/ /\ up /\ pending /\ ~ pending'
            /\ since'["attempt"] = RetryDelay - PromptDelay
            /\ since'["sample"] = since["sample"] /\ syncAge' = syncAge
         \/ /\ up /\ pending /\ ~ pending'
            /\ since'["attempt"] = since["attempt"]
            /\ since'["sample"] = 0 /\ syncAge' = 0
  PROVE  AttemptAge'
  <1> USE GateFacts, Numbers
  <1>1. since["attempt"] \in Nat /\ since["sample"] \in Nat
    BY AgeFacts
  <1>2. /\ LinkHolds => Spent(fails', AttemptCost) = Spent(fails, AttemptCost) /\ (up' <=> up)
        /\ LinkFails => up /\ ~ up'
    BY SpentFacts
  <1>3. RequestAge'
    <2>1. syncAge' >= 0
      BY DEF AttemptAge, RequestAge
    <2>2. pending' => pending /\ SnapshotAge' >= SyncInterval
      BY DEF AttemptAge, RequestAge, SnapshotAge
    <2>3. up' /\ pending' => since'["attempt"] <= Timeout + MaxPass + Spent(fails', AttemptCost)
      <3>1. up' => LinkHolds /\ up
        BY <1>2
      <3> QED BY <1>1, <1>2, <3>1 DEF AttemptAge, RequestAge
    <2> QED BY <2>1, <2>2, <2>3 DEF RequestAge
  <1>4. AttemptPaced'
    BY <1>1 DEF AttemptAge, AttemptPaced
  <1>5. CASE LinkFails
    BY <1>2, <1>3, <1>4, <1>5, AttemptFails DEF AttemptAge
  <1>6. CASE LinkHolds
    <2>1. AttemptDown' /\ AttemptWait'
      <3>1. CASE since'["attempt"] = since["attempt"]
        BY <1>1, <1>2, <1>6, <3>1 DEF AttemptAge, AttemptDown, AttemptWait
      <3>2. CASE up
        BY <1>2, <1>6, <3>2 DEF AttemptDown, AttemptWait
      <3> QED BY <3>1, <3>2
    <2>2. AttemptUp'
      <3>1. CASE since'["attempt"] = since["attempt"]
        BY <1>1, <1>2, <1>6, <3>1 DEF AttemptAge, AttemptUp
      <3>2. CASE since'["attempt"] = RetryDelay - PromptDelay
        BY <1>1, <1>2, <1>6, <3>2 DEF AttemptUp
      <3> QED BY <3>1, <3>2
    <2>3. AttemptNotDue'
      <3>1. CASE since'["attempt"] = since["attempt"] /\ since'["sample"] = since["sample"]
                 /\ syncAge' = syncAge
        BY <1>1, <1>2, <1>6, <3>1 DEF AttemptAge, AttemptNotDue, SnapshotAge
      <3>2. CASE pending /\ since'["sample"] = since["sample"] /\ syncAge' = syncAge
        <4>1. SnapshotAge' >= SyncInterval
          BY <3>2 DEF AttemptAge, RequestAge, SnapshotAge
        <4>2. SnapshotAge' \in Int
          BY <3>2, <1>1 DEF SnapshotAge
        <4> QED BY <4>1, <4>2 DEF AttemptNotDue
      <3>3. CASE pending /\ since'["attempt"] = since["attempt"] /\ since'["sample"] = 0
                 /\ syncAge' = 0
        <4>1. up => since["attempt"] <= Timeout + MaxPass + Spent(fails, AttemptCost)
          BY <3>3 DEF AttemptAge, RequestAge
        <4>2. SnapshotAge' = 0
          BY <3>3 DEF SnapshotAge
        <4> QED BY <1>1, <1>2, <1>6, <3>3, <4>1, <4>2 DEF AttemptNotDue
      <3> QED BY <3>1, <3>2, <3>3
    <2> QED BY <1>3, <1>4, <2>1, <2>2, <2>3 DEF AttemptAge
  <1> QED BY <1>5, <1>6

\* The poll leaves the publish stamp in its bounds, and so does a failure at the poll.
LEMMA PublishLoop ==
  ASSUME TypeInv, PublishAge, pc = "poll", pc' = "publish", up, LinkFails \/ LinkHolds,
         since'["publish"] = since["publish"], since'["entry"] = since["entry"]
  PROVE  PublishAge'
  <1> USE GateFacts, Numbers
  <1>1. /\ LinkHolds => Spent(fails', PublishCost) = Spent(fails, PublishCost) /\ up'
        /\ LinkFails => /\ Spent(fails', PublishCost) = Spent(fails, PublishCost) + PublishCost
                        /\ ~ up'
    BY SpentFacts
  <1>2. CASE LinkHolds
    BY <1>1, <1>2 DEF PublishAge
  <1>3. CASE LinkFails
    BY <1>1, <1>3 DEF PublishAge
  <1> QED BY <1>2, <1>3

\* Every step keeps the gates' stamps right and their ages within their bounds.
LEMMA TimersInvNext ==
  ASSUME StampsInTime, TypeInv, TypeInv', TimeInv, TimersInv, [Next]_vars
  PROVE  TimersInv'
  <1> USE GateFacts, Numbers
  <1>0. /\ StampsInv /\ PollAge /\ PublishAge /\ AttemptAge
        /\ TimersTrackTime
        /\ since["attempt"] \in Nat /\ since["sample"] \in Nat
        /\ SnapshotAge \in Nat
    <2>1. since["attempt"] \in Nat /\ since["sample"] \in Nat
      BY AgeFacts
    <2>2. AttemptAge
      BY DEF TimersInv
    <2>3. SnapshotAge \in Nat
      BY <2>1, <2>2 DEF AttemptAge, RequestAge, SnapshotAge
    <2> QED BY <2>1, <2>2, <2>3, GatesExact DEF TimersInv
  <1>a. ASSUME UNCHANGED <<ticks, pc, up, stamps, pending, since, fails, waited, syncAge>>
        PROVE  TimersInv'
    BY <1>0, <1>a DEF TimersInv, StampsInv, StampOK, PollAge, PublishAge, AttemptAge, RequestAge,
       AttemptPaced, AttemptUp, AttemptNotDue, AttemptDown, AttemptWait, SnapshotAge, stamps
  <1>1. CASE ServerAnswers
    BY <1>a, <1>1 DEF ServerAnswers, uptime, request
  <1>2. CASE Recover
    <2>1. /\ pc = "recover" /\ pc' = "poll" /\ up'
          /\ UNCHANGED <<syncAge, lastPoll, lastPublish, lastAttempt, pending, fails, waited>>
      BY <1>2 DEF Recover, uptime, request, stamps
    <2>2. CASE up /\ UNCHANGED <<ticks, since, answer>>
      <3>1. StampsInv'
        BY <1>0, <2>1, <2>2 DEF StampsInv, StampOK
      <3>2. PollAge'
        BY <1>0, <2>1, <2>2 DEF PollAge
      <3>3. PublishAge'
        BY <1>0, <2>1, <2>2 DEF PublishAge
      <3>4. RequestAge'
        <4>1. pending => since["attempt"] <= Timeout + MaxPass
          BY <2>1 DEF TimeInv, RequestOK, Late
        <4> QED BY <1>0, <2>1, <2>2, <4>1 DEF AttemptAge, RequestAge, SnapshotAge
      <3>5. AttemptPaced' /\ AttemptDown' /\ AttemptWait'
        BY <1>0, <2>1, <2>2 DEF AttemptAge, AttemptPaced, AttemptDown, AttemptWait
      <3>6. AttemptUp' /\ AttemptNotDue'
        BY <1>0, <2>1, <2>2 DEF AttemptAge, AttemptUp, AttemptNotDue, SnapshotAge
      <3> QED BY <3>1, <3>2, <3>3, <3>4, <3>5, <3>6 DEF TimersInv, AttemptAge
    <2>3. CASE ~ up /\ \E d \in 0..MaxOutage : Passes(d)
      <3>1. PICK d \in 0..MaxOutage : Passes(d)
        BY <2>3
      <3>2. d \in Nat /\ d <= MaxOutage
        OBVIOUS
      <3>3. (\A s \in Stamps : since'[s] = since[s] + d) /\ StampsInv'
        BY <1>0, <2>1, <3>1, <3>2, PassStamps
      <3>4. /\ since'["poll"] = since["poll"] + d /\ since'["entry"] = since["entry"] + d
            /\ since'["publish"] = since["publish"] + d
            /\ since'["attempt"] = since["attempt"] + d /\ since'["sample"] = since["sample"] + d
        BY <3>3, AgeFacts
      <3>5. PollAge'
        BY <1>0, <2>1, <3>2, <3>4 DEF PollAge
      <3>6. PublishAge'
        BY <1>0, <2>1, <2>3, <3>2, <3>4 DEF PublishAge
      <3>7. since'["attempt"] <= Spent(fails', AttemptCost) /\ SnapshotAge' \in Nat
            /\ SnapshotAge' >= SnapshotAge
        BY <1>0, <2>1, <2>3, <3>2, <3>4 DEF AttemptAge, RequestAge, AttemptDown, SnapshotAge
      <3>8. RequestAge'
        BY <1>0, <2>1, <3>4, <3>7 DEF AttemptAge, RequestAge
      <3>9. AttemptPaced'
        BY <1>0, <3>2, <3>4 DEF AttemptAge, AttemptPaced
      <3>10. AttemptUp' /\ AttemptNotDue' /\ AttemptDown' /\ AttemptWait'
        BY <1>0, <2>1, <3>2, <3>4, <3>7 DEF AttemptUp, AttemptNotDue, AttemptDown, AttemptWait
      <3> QED BY <3>3, <3>5, <3>6, <3>8, <3>9, <3>10 DEF TimersInv, AttemptAge
    <2> QED BY <1>2, <2>2, <2>3 DEF Recover
  <1>3. CASE PollAnswer
    <2>1. /\ pc = "poll" /\ pc' = "publish" /\ up /\ HandleInfoResponse({"poll"})
          /\ lastPoll' = ticks
          /\ UNCHANGED <<ticks, lastPublish, waited>> /\ (LinkFails \/ LinkHolds)
      BY <1>3 DEF PollAnswer, TypeInv, SessionOK
    <2>2. /\ \A s \in Stamps \ {"sample", "attempt"} :
              since'[s] = IF s \in {"poll"} THEN 0 ELSE since[s]
          /\ StampOK(lastAttempt, since["attempt"])'
          /\ \/ /\ since'["attempt"] = since["attempt"] /\ since'["sample"] = since["sample"]
                /\ syncAge' = syncAge /\ (pending' <=> pending)
             \/ /\ pending /\ ~ pending'
                /\ since'["attempt"] = RetryDelay - PromptDelay
                /\ since'["sample"] = since["sample"] /\ syncAge' = syncAge
             \/ /\ pending /\ ~ pending'
                /\ since'["attempt"] = since["attempt"]
                /\ since'["sample"] = 0 /\ syncAge' = 0
      <3>1. StampOK(lastAttempt, since["attempt"])
        BY <1>0 DEF StampsInv
      <3> QED BY <2>1, <3>1, HandleTimers
    <2>3. /\ since'["poll"] = 0 /\ since'["publish"] = since["publish"]
          /\ since'["entry"] = since["entry"]
      BY <2>2, AgeFacts
    <2>4. StampsInv'
      BY <1>0, <2>1, <2>2, <2>3, StampNow DEF StampsInv, StampOK
    <2>5. PollAge'
      BY <2>1, <2>3 DEF PollAge
    <2>6. PublishAge'
      BY <1>0, <2>1, <2>3, PublishLoop
    <2>7. AttemptAge'
      BY <1>0, <2>1, <2>2, <2>3, AttemptLoop
    <2> QED BY <2>4, <2>5, <2>6, <2>7 DEF TimersInv
  <1>4. CASE PollNothing
    <2>1. /\ pc = "poll" /\ pc' = "publish" /\ up
          /\ UNCHANGED <<ticks, lastPublish, lastAttempt, syncAge, waited>>
          /\ (pending' <=> pending)
          /\ LinkFails \/ LinkHolds
          /\ \/ PollDue /\ lastPoll' = ticks /\ since' = Taken({"poll"})
             \/ ~ PollDue /\ UNCHANGED <<lastPoll, since>>
      BY <1>4 DEF PollNothing, LinkHolds, uptime, request, TypeInv, SessionOK
    <2>2. /\ since'["publish"] = since["publish"] /\ since'["entry"] = since["entry"]
          /\ since'["attempt"] = since["attempt"] /\ since'["sample"] = since["sample"]
          /\ \/ lastPoll' = ticks /\ since'["poll"] = 0
             \/ ~ PollDue /\ lastPoll' = lastPoll /\ since'["poll"] = since["poll"]
      BY <2>1 DEF Taken, Stamps
    <2>3. StampsInv'
      BY <1>0, <2>1, <2>2, StampNow DEF StampsInv, StampOK
    <2>4. PollAge'
      BY <1>0, <2>1, <2>2 DEF PollAge, TimersTrackTime
    <2>5. PublishAge'
      BY <1>0, <2>1, <2>2, PublishLoop
    <2>6. AttemptAge'
      BY <1>0, <2>1, <2>2, AttemptLoop
    <2> QED BY <2>3, <2>4, <2>5, <2>6 DEF TimersInv
  <1>5. CASE Publish
    <2>1. /\ pc = "publish" /\ pc' = "utc" /\ up /\ MqttPublishReady /\ since["entry"] >= MinQuiet
          /\ lastPublish' = ticks
          /\ since' = Taken({"entry", "publish"})
          /\ UNCHANGED <<ticks, up, syncAge, lastPoll, lastAttempt, pending, fails, waited>>
      BY <1>5 DEF Publish, uptime, request
    <2>2. /\ since'["publish"] = 0 /\ since'["entry"] = 0 /\ since'["poll"] = since["poll"]
          /\ since'["attempt"] = since["attempt"] /\ since'["sample"] = since["sample"]
      BY <2>1 DEF Taken, Stamps
    <2>3. StampsInv'
      BY <1>0, <2>1, <2>2, StampNow DEF StampsInv, StampOK
    <2>4. PollAge' /\ PublishAge'
      BY <1>0, <2>1, <2>2 DEF PollAge, PublishAge
    <2>5. since["attempt"] <= Due + MaxPass + Spent(fails, AttemptCost)
      BY <1>0, <2>1 DEF AttemptAge, AttemptUp, StampsInTime
    <2>6. RequestAge' /\ AttemptPaced'
      BY <1>0, <2>1, <2>2 DEF AttemptAge, RequestAge, AttemptPaced, SnapshotAge
    <2>7. AttemptUp' /\ AttemptNotDue' /\ AttemptDown' /\ AttemptWait'
      BY <1>0, <2>1, <2>2, <2>5
         DEF AttemptAge, AttemptUp, AttemptNotDue, AttemptDown, AttemptWait, SnapshotAge
    <2> QED BY <2>3, <2>4, <2>6, <2>7 DEF TimersInv, AttemptAge
  <1>6. CASE PublishNothing
    <2>1. /\ pc = "publish" /\ pc' = "utc"
          /\ UNCHANGED <<ticks, syncAge, lastPoll, lastPublish, lastAttempt, since, waited>>
          /\ (pending' <=> pending)
          /\ \/ LinkFails
             \/ LinkHolds /\ (up /\ MqttPublishReady => since["entry"] < MaxQuiet)
      BY <1>6 DEF PublishNothing, stamps, uptime, request
    <2>2. StampsInv' /\ PollAge'
      BY <1>0, <2>1 DEF StampsInv, StampOK, PollAge
    <2>3. PublishAge'
      <3>1. /\ LinkHolds => Spent(fails', PublishCost) = Spent(fails, PublishCost)
                            /\ (up' <=> up)
            /\ LinkFails => /\ Spent(fails', PublishCost) = Spent(fails, PublishCost) + PublishCost
                            /\ ~ up' /\ up
        BY SpentFacts
      <3>2. CASE LinkFails
        BY <1>0, <2>1, <3>1, <3>2 DEF PublishAge
      <3>3. CASE LinkHolds /\ up /\ MqttPublishReady
        <4>1. since["entry"] < MaxQuiet
          BY <2>1, <3>1, <3>3
        <4> QED BY <1>0, <2>1, <3>1, <3>3, <4>1 DEF PublishAge
      <3>4. CASE LinkHolds /\ up /\ ~ MqttPublishReady
        <4>1. since["publish"] < PublishDelay
          BY <1>0, <3>4 DEF TimersTrackTime, PublishGateTracksTime
        <4> QED BY <1>0, <2>1, <3>1, <3>4, <4>1 DEF PublishAge
      <3>5. CASE LinkHolds /\ ~ up
        BY <1>0, <2>1, <3>1, <3>5 DEF PublishAge
      <3> QED BY <2>1, <3>2, <3>3, <3>4, <3>5
    <2>4. AttemptAge'
      BY <1>0, <2>1, AttemptLoop
    <2> QED BY <2>2, <2>3, <2>4 DEF TimersInv
  <1>7. CASE UtcIdle
    <2>1. /\ pc = "utc" /\ pc' = "sleep" /\ ~ Sends
          /\ UNCHANGED <<ticks, up, lastPoll, lastPublish, lastAttempt, fails, waited>>
          /\ pending' => pending
          /\ \/ Looks /\ Sample({}) /\ syncAge' = Capped(syncAge + Delta)
             \/ ~ Looks /\ UNCHANGED <<syncAge, since>>
      BY <1>7 DEF UtcIdle, stamps, uptime, request
    <2>2. /\ since'["publish"] = since["publish"] /\ since'["entry"] = since["entry"]
          /\ since'["poll"] = since["poll"] /\ since'["attempt"] = since["attempt"]
          /\ syncAge' >= 0 /\ SnapshotAge' \in Nat
          /\ SnapshotAge' < SyncInterval => SnapshotAge' = SnapshotAge
          /\ Looks => Delta = since["sample"]
      <3>1. syncAge >= 0
        BY <1>0 DEF AttemptAge, RequestAge
      <3>2. CASE Looks
        <4>1. /\ \A s \in Stamps \ {"sample"} : since'[s] = since[s]
              /\ syncAge' >= 0
              /\ SnapshotAge' < SyncInterval => SnapshotAge' = SnapshotAge
              /\ SnapshotAge' \in Nat
              /\ Delta = since["sample"]
          BY <2>1, <3>1, <3>2, SampleTimers DEF StampsInTime
        <4> QED BY <4>1, AgeFacts
      <3>3. CASE ~ Looks
        BY <1>0, <2>1, <3>1, <3>3 DEF SnapshotAge
      <3> QED BY <3>2, <3>3
    <2>3. StampsInv'
      BY <1>0, <2>1, <2>2 DEF StampsInv, StampOK
    <2>4. PollAge' /\ PublishAge'
      BY <1>0, <2>1, <2>2 DEF PollAge, PublishAge
    <2>5. RequestAge' /\ AttemptPaced'
      BY <1>0, <2>1, <2>2 DEF AttemptAge, RequestAge, AttemptPaced
    <2>6. AttemptNotDue' /\ AttemptDown' /\ AttemptWait'
      BY <1>0, <2>1, <2>2 DEF AttemptAge, AttemptNotDue, AttemptDown, AttemptWait
    <2>7. AttemptUp'
      <3> SUFFICES ASSUME up
                   PROVE  \/ since["attempt"] <= Due + Spent(fails, AttemptCost)
                          \/ /\ since["attempt"] - since["publish"]
                                  <= Due + MaxPass + Spent(fails, AttemptCost)
                             /\ since["publish"] = since["entry"]
                             /\ since["publish"] < PublishDelay
        BY <2>1, <2>2 DEF AttemptUp
      <3>1. CASE ~ Looks
        <4>1. pending /\ ~ Expired
          BY <3>1 DEF Looks
        <4>2. pending => (Expired <=> since["attempt"] >= Timeout)
          BY <2>1, ExpiredExact DEF StampsInTime
        <4>3. ~ (since["attempt"] >= Timeout)
          BY <4>1, <4>2, Zenon
        <4> QED BY <1>0, <4>3
      <3>2. CASE Looks /\ ~ SyncDue
        <4>1. SnapshotAge < SyncInterval
          BY <2>2, <3>2, <1>0 DEF SyncDue, SnapshotAge
        <4> QED BY <1>0, <2>1, <4>1 DEF AttemptAge, AttemptNotDue
      <3>3. CASE Throttled
        BY <1>0, <3>3 DEF TimersTrackTime
      <3>4. CASE ~ MqttPublishReady
        <4>1. since["publish"] < PublishDelay
          BY <1>0, <3>4 DEF TimersTrackTime, PublishGateTracksTime
        <4> QED BY <1>0, <2>1, <4>1 DEF AttemptAge, AttemptPaced, AttemptUp
      <3> QED BY <2>1, <3>1, <3>2, <3>3, <3>4 DEF Sends
    <2> QED BY <2>3, <2>4, <2>5, <2>6, <2>7 DEF TimersInv, AttemptAge
  <1>8. CASE UtcSend
    <2>1. /\ pc = "utc" /\ pc' = "puback" /\ Looks /\ SyncDue /\ up /\ waited' = 0
          /\ Sample({}) /\ syncAge' = Capped(syncAge + Delta)
          /\ UNCHANGED <<ticks, up, lastPoll, lastPublish, lastAttempt, fails>>
      BY <1>8 DEF UtcSend, Sends, Looks, stamps
    <2>2. /\ \A s \in Stamps \ {"sample"} : since'[s] = since[s]
          /\ syncAge' >= 0
          /\ SnapshotAge' < SyncInterval => SnapshotAge' = SnapshotAge
          /\ SnapshotAge' \in Nat
          /\ Delta = since["sample"]
      <3>1. syncAge >= 0
        BY <1>0 DEF AttemptAge, RequestAge
      <3> QED BY <2>1, <3>1, SampleTimers DEF StampsInTime
    <2>3. /\ since'["publish"] = since["publish"] /\ since'["entry"] = since["entry"]
          /\ since'["poll"] = since["poll"] /\ since'["attempt"] = since["attempt"]
      BY <2>2, AgeFacts
    <2>4. SnapshotAge' >= SyncInterval
      BY <1>0, <2>1, <2>2 DEF SyncDue, SnapshotAge
    <2>5. StampsInv'
      BY <1>0, <2>1, <2>3 DEF StampsInv, StampOK
    <2>6. PollAge' /\ PublishAge'
      BY <1>0, <2>1, <2>3 DEF PollAge, PublishAge
    <2>7. RequestAge' /\ AttemptPaced'
      BY <1>0, <2>1, <2>2, <2>3, <2>4 DEF AttemptAge, RequestAge, AttemptPaced
    <2>8. AttemptWait'
      BY <1>0, <2>1, <2>3 DEF AttemptAge, AttemptUp, AttemptWait
    <2>9. AttemptUp' /\ AttemptNotDue' /\ AttemptDown'
      BY <2>1 DEF AttemptUp, AttemptNotDue, AttemptDown
    <2> QED BY <2>5, <2>6, <2>7, <2>8, <2>9 DEF TimersInv, AttemptAge
  <1>9. CASE WaitPasses
    <2>1. /\ pc = "puback" /\ pc' = pc /\ up /\ waited' = waited + 1 /\ Passes(1)
          /\ UNCHANGED <<up, syncAge, lastPoll, lastPublish, lastAttempt, pending, fails>>
      BY <1>9 DEF WaitPasses, uptime, request, stamps, TypeInv, SessionOK
    <2>2. (\A s \in Stamps : since'[s] = since[s] + 1) /\ StampsInv'
      BY <1>0, <2>1, PassStamps
    <2>3. /\ since'["poll"] = since["poll"] + 1 /\ since'["entry"] = since["entry"] + 1
          /\ since'["publish"] = since["publish"] + 1
          /\ since'["attempt"] = since["attempt"] + 1 /\ since'["sample"] = since["sample"] + 1
      BY <2>2, AgeFacts
    <2>4. PollAge' /\ PublishAge'
      BY <1>0, <2>1, <2>3 DEF PollAge, PublishAge
    <2>5. RequestAge' /\ AttemptPaced'
      BY <1>0, <2>1, <2>3 DEF AttemptAge, RequestAge, AttemptPaced, SnapshotAge
    <2>6. AttemptWait'
      BY <1>0, <2>1, <2>3 DEF AttemptAge, AttemptWait
    <2>7. AttemptUp' /\ AttemptNotDue' /\ AttemptDown'
      BY <2>1 DEF AttemptUp, AttemptNotDue, AttemptDown
    <2> QED BY <2>2, <2>4, <2>5, <2>6, <2>7 DEF TimersInv, AttemptAge
  <1>10. CASE AnswerInWait
    <2>1. /\ pc = "puback" /\ pc' = pc /\ HandleInfoResponse({}) /\ up
          /\ UNCHANGED <<ticks, up, lastPublish, lastPoll, fails, waited>>
      BY <1>10 DEF AnswerInWait, TypeInv, SessionOK
    <2>2. /\ \A s \in Stamps \ {"sample", "attempt"} :
              since'[s] = IF s \in {} THEN 0 ELSE since[s]
          /\ StampOK(lastAttempt, since["attempt"])'
          /\ \/ /\ since'["attempt"] = since["attempt"] /\ since'["sample"] = since["sample"]
                /\ syncAge' = syncAge /\ (pending' <=> pending)
             \/ /\ pending /\ ~ pending'
                /\ since'["attempt"] = RetryDelay - PromptDelay
                /\ since'["sample"] = since["sample"] /\ syncAge' = syncAge
             \/ /\ pending /\ ~ pending'
                /\ since'["attempt"] = since["attempt"]
                /\ since'["sample"] = 0 /\ syncAge' = 0
      <3>1. StampOK(lastAttempt, since["attempt"])
        BY <1>0 DEF StampsInv
      <3> QED BY <2>1, <3>1, HandleTimers
    <2>3. /\ since'["poll"] = since["poll"] /\ since'["publish"] = since["publish"]
          /\ since'["entry"] = since["entry"]
      BY <2>2, AgeFacts
    <2>4. StampsInv'
      BY <1>0, <2>1, <2>2, <2>3 DEF StampsInv, StampOK
    <2>5. PollAge' /\ PublishAge'
      BY <1>0, <2>1, <2>3 DEF PollAge, PublishAge
    <2>6. RequestAge'
      <3>1. syncAge' >= 0
        BY <1>0, <2>2 DEF AttemptAge, RequestAge
      <3>2. pending' => SnapshotAge' >= SyncInterval
        BY <1>0, <2>2 DEF AttemptAge, RequestAge, SnapshotAge
      <3> QED BY <2>1, <3>1, <3>2 DEF RequestAge
    <2>7. AttemptPaced'
      BY <1>0, <2>2, <2>3 DEF AttemptAge, AttemptPaced
    <2>8. AttemptWait'
      <3>1. since'["attempt"] = since["attempt"] \/ since'["attempt"] = RetryDelay - PromptDelay
        BY <2>2
      <3> QED BY <1>0, <2>1, <3>1 DEF AttemptAge, AttemptWait
    <2>9. AttemptUp' /\ AttemptNotDue' /\ AttemptDown'
      BY <2>1 DEF AttemptUp, AttemptNotDue, AttemptDown
    <2> QED BY <2>4, <2>5, <2>6, <2>7, <2>8, <2>9 DEF TimersInv, AttemptAge
  <1>11. CASE PubackDone
    <2>1. /\ pc = "puback" /\ pc' = "sleep" /\ up
          /\ lastPublish' = ticks /\ lastAttempt' = ticks
          /\ since' = Taken({"publish", "attempt"})
          /\ UNCHANGED <<ticks, up, syncAge, lastPoll, pending, fails, waited>>
      BY <1>11 DEF PubackDone, uptime, TypeInv, SessionOK
    <2>2. /\ since'["publish"] = 0 /\ since'["attempt"] = 0 /\ since'["entry"] = since["entry"]
          /\ since'["poll"] = since["poll"] /\ since'["sample"] = since["sample"]
      BY <2>1 DEF Taken, Stamps
    <2>3. StampsInv'
      BY <1>0, <2>1, <2>2, StampNow DEF StampsInv, StampOK
    <2>4. PollAge' /\ PublishAge'
      BY <1>0, <2>1, <2>2 DEF PollAge, PublishAge
    <2>5. RequestAge' /\ AttemptPaced'
      BY <1>0, <2>1, <2>2 DEF AttemptAge, RequestAge, AttemptPaced, SnapshotAge
    <2>6. AttemptUp' /\ AttemptDown' /\ AttemptWait'
      BY <2>1, <2>2 DEF AttemptUp, AttemptDown, AttemptWait
    <2>7. AttemptNotDue'
      BY <1>0, <2>1, <2>2 DEF AttemptNotDue, SnapshotAge
    <2> QED BY <2>3, <2>4, <2>5, <2>6, <2>7 DEF TimersInv, AttemptAge
  <1>12. CASE PubackFails
    <2>1. /\ pc = "puback" /\ pc' = "sleep" /\ ~ pending' /\ LinkFails
          /\ UNCHANGED <<ticks, syncAge, lastPoll, lastPublish, lastAttempt, since, waited>>
      BY <1>12 DEF PubackFails, uptime, stamps
    <2>2. /\ up /\ ~ up'
          /\ Spent(fails', PublishCost) = Spent(fails, PublishCost) + PublishCost
          /\ Spent(fails', AttemptCost) = Spent(fails, AttemptCost) + AttemptCost
      BY <2>1, SpentFacts
    <2>3. StampsInv'
      BY <1>0, <2>1 DEF StampsInv, StampOK
    <2>4. PollAge' /\ PublishAge'
      BY <1>0, <2>1, <2>2 DEF PollAge, PublishAge
    <2>5. RequestAge' /\ AttemptPaced'
      BY <1>0, <2>1, <2>2 DEF AttemptAge, RequestAge, AttemptPaced
    <2>6. AttemptDown'
      BY <1>0, <2>1, <2>2 DEF AttemptAge, AttemptWait, AttemptDown
    <2>7. AttemptUp' /\ AttemptNotDue' /\ AttemptWait'
      BY <2>1, <2>2 DEF AttemptUp, AttemptNotDue, AttemptWait
    <2> QED BY <2>3, <2>4, <2>5, <2>6, <2>7 DEF TimersInv, AttemptAge
  <1>13. CASE Sleep
    <2>1. /\ pc = "sleep" /\ pc' = "recover"
          /\ UNCHANGED <<up, syncAge, lastPoll, lastPublish, lastAttempt, pending, fails, waited>>
      BY <1>13 DEF Sleep, uptime, request, stamps
    <2>2. PICK d \in 1..MaxPass : Passes(d)
      BY <1>13 DEF Sleep
    <2>3. d \in Nat /\ d <= MaxPass
      OBVIOUS
    <2>4. (\A s \in Stamps : since'[s] = since[s] + d) /\ StampsInv'
      BY <1>0, <2>1, <2>2, <2>3, PassStamps
    <2>5. /\ since'["poll"] = since["poll"] + d /\ since'["entry"] = since["entry"] + d
          /\ since'["publish"] = since["publish"] + d
          /\ since'["attempt"] = since["attempt"] + d /\ since'["sample"] = since["sample"] + d
      BY <2>4, AgeFacts
    <2>6. PollAge' /\ PublishAge'
      BY <1>0, <2>1, <2>3, <2>5 DEF PollAge, PublishAge
    <2>7. RequestAge' /\ AttemptPaced'
      BY <1>0, <2>1, <2>3, <2>5 DEF AttemptAge, RequestAge, AttemptPaced, SnapshotAge
    <2>8. AttemptUp'
      BY <1>0, <2>1, <2>3, <2>5 DEF AttemptAge, AttemptUp
    <2>9. AttemptNotDue'
      BY <1>0, <2>1, <2>3, <2>5 DEF AttemptAge, RequestAge, AttemptNotDue, SnapshotAge
    <2>10. AttemptDown' /\ AttemptWait'
      BY <1>0, <2>1, <2>3, <2>5 DEF AttemptAge, AttemptDown, AttemptWait
    <2> QED BY <2>4, <2>6, <2>7, <2>8, <2>9, <2>10 DEF TimersInv, AttemptAge
  <1>14. CASE UNCHANGED vars
    BY <1>a, <1>14 DEF vars, uptime, request
  <1> QED BY <1>1, <1>2, <1>3, <1>4, <1>5, <1>6, <1>7, <1>8, <1>9, <1>10, <1>11, <1>12,
             <1>13, <1>14 DEF Next

\* TimersSound: every gate of the run loop follows real time although the counter wraps, and
\* a request seen pending has a deadline, over outages, refusals and late answers.
THEOREM TimersAreSound == ASSUME StampsInTime PROVE Spec => []TimersSound
  <1>1. /\ TypeInv /\ TimeInv /\ TimersInv /\ [Next]_vars
             => TypeInv' /\ TimeInv' /\ TimersInv'
    BY TypeInvNext, TimeInvNext, TimersInvNext DEF StampsInTime
  <1>2. TypeInv /\ TimeInv /\ TimersInv => TimersSound
    BY GatesExact DEF TimersSound, DeadlineArmed, TimeInv, RequestOK
  <1> QED BY <1>1, <1>2, TypeInvInit, TimeInvInit, TimersInvInit, PTL DEF Spec
=============================================================================
