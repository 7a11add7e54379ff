-------------------------- MODULE ConnectingProofs --------------------------
(***************************************************************************)
(* Connecting for any timeout, wait, round, latency and clock: what its    *)
(* properties say on small numbers.                                        *)
(***************************************************************************)
EXTENDS Connecting, SequenceTheorems, TLAPS

Number == 1 .. Len(attempts)

\* An attempt never has more than this left.
Longest == timeoutSec + Latency

\* The threads that are left when one ends, and after a tick.
LEMMA WithoutOne ==
    ASSUME TypeOK, NEW i \in Number
    PROVE  /\ Without(i) \in Seq(0 .. Longest)
           /\ Len(Without(i)) = Len(attempts) - 1
           /\ \A j \in 1 .. Len(attempts) - 1 :
                Without(i)[j] = IF j < i THEN attempts[j] ELSE attempts[j + 1]
<1>1. Len(attempts) \in Nat /\ \A j \in Number : attempts[j] \in 0 .. Longest
  BY LenProperties, ElementOfSeq DEF TypeOK, Number, Longest
<1>2. Len(attempts) - 1 \in Nat
  BY <1>1 DEF Number
<1>3. Without(i) \in [1 .. Len(attempts) - 1 -> 0 .. Longest]
  BY <1>1 DEF Without, Number
<1>4. Without(i) \in Seq(0 .. Longest)
  BY <1>2, <1>3, SeqDef
<1>5. Len(Without(i)) = Len(attempts) - 1
  <2>1. DOMAIN Without(i) = 1 .. Len(attempts) - 1
    BY DEF Without
  <2> QED BY <1>2, <1>4, <2>1, LenProperties
<1> QED BY <1>4, <1>5 DEF Without

LEMMA WhatIsLeft ==
    ASSUME TypeOK, NEW i \in Number, attempts' = Without(i)
    PROVE  /\ Len(attempts') = Len(attempts) - 1
           /\ \A j \in Number' : \E k \in Number :
                k \in {j, j + 1} /\ attempts'[j] = attempts[k]
<1>1. /\ Len(Without(i)) = Len(attempts) - 1
      /\ \A j \in 1 .. Len(attempts) - 1 :
           Without(i)[j] = IF j < i THEN attempts[j] ELSE attempts[j + 1]
  BY WithoutOne
<1>2. Len(attempts) \in Nat
  BY LenProperties DEF TypeOK
<1>3. \A j \in 1 .. Len(attempts) - 1 : j \in Number /\ j + 1 \in Number
  BY <1>2 DEF Number
<1>4. Number' = 1 .. Len(attempts) - 1
  BY <1>1 DEF Number
<1> QED BY <1>1, <1>3, <1>4

LEMMA Ticked ==
    ASSUME TypeOK, \A i \in Number : attempts[i] > 0,
           attempts' = [i \in Number |-> attempts[i] - 1]
    PROVE  /\ attempts' \in Seq(0 .. Longest)
           /\ Len(attempts') = Len(attempts)
           /\ \A i \in Number : attempts'[i] = attempts[i] - 1
<1>1. Len(attempts) \in Nat /\ \A j \in Number : attempts[j] \in 0 .. Longest
  BY LenProperties, ElementOfSeq DEF TypeOK, Number, Longest
<1>2. \A i \in Number : attempts[i] - 1 \in 0 .. Longest
  BY <1>1, ConnectingAssumption DEF TypeOK, Longest
<1>3. attempts' \in [1 .. Len(attempts) -> 0 .. Longest]
  BY <1>2 DEF Number
<1>4. attempts' \in Seq(0 .. Longest)
  BY <1>1, <1>3, SeqDef
<1>5. Len(attempts') = Len(attempts)
  <2>1. DOMAIN attempts' = 1 .. Len(attempts)
    BY <1>3
  <2> QED BY <1>1, <1>4, <2>1, LenProperties
<1> QED BY <1>4, <1>5

LEMMA Started ==
    ASSUME TypeOK, NEW left \in timeoutSec .. Longest
    PROVE  /\ Append(attempts, left) \in Seq(0 .. Longest)
           /\ Len(Append(attempts, left)) = Len(attempts) + 1
           /\ \A i \in Number : Append(attempts, left)[i] = attempts[i]
           /\ Append(attempts, left)[Len(attempts) + 1] = left
           /\ Len(attempts) \in Nat
<1>1. left \in 0 .. Longest
  BY ConnectingAssumption DEF TypeOK, Longest
<1>2. attempts \in Seq(0 .. Longest)
  BY DEF TypeOK, Longest
<1> QED BY <1>1, <1>2, LenProperties DEF Number

\* What TypeOK says of one attempt.
LEMMA Attempt ==
    ASSUME TypeOK
    PROVE  /\ Len(attempts) \in Nat /\ Longest \in Nat
           /\ \A i \in Number : attempts[i] \in 0 .. Longest
           /\ attempts = <<>> <=> Len(attempts) = 0
<1>1. attempts \in Seq(0 .. Longest) /\ Longest \in Nat
  BY ConnectingAssumption DEF TypeOK, Longest
<1> QED BY <1>1, LenProperties, ElementOfSeq, EmptySeq DEF Number
-----------------------------------------------------------------------------
(***************************************************************************)
(* Types.                                                                  *)
(***************************************************************************)
LEMMA InitTypes == Init => TypeOK
<1> SUFFICES ASSUME Init PROVE TypeOK
  OBVIOUS
<1>1. attempts \in Seq(0 .. timeoutSec + Latency)
  BY EmptySeq DEF Init
<1>2. /\ nap \in 0 .. MaxWait + RoundTime + Latency /\ elapsed \in Int
      /\ jumps \in 0 .. MaxJumps /\ failures \in 0 .. MaxFailures
      /\ lost \in 0 .. MaxLost
  BY ConnectingAssumption DEF Init
<1> QED BY <1>1, <1>2 DEF Init, TypeOK

LEMMA TypesStep == TypeOK /\ [Next]_vars => TypeOK'
<1> SUFFICES ASSUME TypeOK, [Next]_vars
             PROVE  TypeOK'
  OBVIOUS
<1> USE ConnectingAssumption DEF TypeOK, waitVars, clientVars, bounds, Sleep
<1>1. CASE Connect
  BY <1>1 DEF Connect
<1>2. CASE StartAttempt
  <2>1. PICK left \in timeoutSec .. Longest : attempts' = Append(attempts, left)
    BY <1>2 DEF StartAttempt, Longest
  <2>2. attempts' \in Seq(0 .. timeoutSec' + Latency)
    BY <1>2, <2>1, Started DEF StartAttempt, Longest
  <2> QED BY <1>2, <2>2 DEF StartAttempt
<1>3. CASE Poll
  BY <1>3 DEF Poll, WaitIsReached
<1>4. CASE Test
  BY <1>4 DEF Test
<1>5. CASE Opened \/ Thrown
  BY <1>5 DEF Opened, Thrown
<1>6. CASE LoopTest
  BY <1>6 DEF LoopTest
<1>7. CASE Round
  BY <1>7 DEF Round
<1>8. CASE RoundWithRestart
  <2>1. attempts' \in Seq(0 .. timeoutSec' + Latency)
    BY <1>8, EmptySeq DEF RoundWithRestart
  <2> QED BY <1>8, <2>1 DEF RoundWithRestart
<1>9. ASSUME NEW i \in Number, AttemptSucceeds(i) \/ AttemptFails(i)
      PROVE  TypeOK'
  <2>1. attempts' \in Seq(0 .. timeoutSec' + Latency)
    BY <1>9, WithoutOne DEF AttemptSucceeds, AttemptFails, Longest
  <2>2. CASE AttemptSucceeds(i)
    BY <2>1, <2>2 DEF AttemptSucceeds
  <2>3. CASE AttemptFails(i)
    <3>1. failures' \in 0 .. MaxFailures
      BY <2>3 DEF AttemptFails
    <3> QED BY <2>1, <2>3, <3>1 DEF AttemptFails
  <2> QED BY <1>9, <2>2, <2>3
<1>10. CASE LinkLost
  <2>1. lost' \in 0 .. MaxLost
    BY <1>10 DEF LinkLost
  <2>2. attempts' \in Seq(0 .. timeoutSec' + Latency)
    BY <1>10 DEF LinkLost
  <2> QED BY <1>10, <2>1, <2>2 DEF LinkLost
<1>11. CASE Tick
  <2>1. attempts' \in Seq(0 .. timeoutSec' + Latency)
    BY <1>11, Ticked DEF Tick, Number, Longest
  <2> QED BY <1>11, <2>1 DEF Tick
<1>12. CASE ClockIsSet
  BY <1>12 DEF ClockIsSet
<1>13. CASE UNCHANGED vars
  BY <1>13 DEF vars, runVars
<1> QED BY <1>1, <1>2, <1>3, <1>4, <1>5, <1>6, <1>7, <1>8, <1>9, <1>10, <1>11, <1>12,
           <1>13 DEF Next, Run, AttemptEnds, Number

\* The timed client's state is well typed, for every timeout and any lateness:
\* no attempt outlives its time.
THEOREM Types == Spec => []TypeOK
<1> QED BY InitTypes, TypesStep, PTL DEF Spec
-----------------------------------------------------------------------------
(***************************************************************************)
(* No client is dropped under an attempt.                                  *)
(***************************************************************************)

\* A timeout that the pause before a round is not shorter than.
Short == Longest <= RoundTime

\* From the end of a wait on an attempt has less left than a pause takes, and
\* in the pause less than is left of the pause.
EndsInPause ==
    /\ (pc = "sleep" /\ nap = 0) \/ pc \in {"opened", "loop"} =>
         \A i \in Number : attempts[i] < RoundTime
    /\ pc = "round" => \A i \in Number : attempts[i] < nap

PauseInv == TypeOK /\ (Short => EndsInPause /\ ~orphaned)

LEMMA PauseStep == PauseInv /\ [Next]_vars => PauseInv'
<1> SUFFICES ASSUME PauseInv, [Next]_vars, Short
             PROVE  EndsInPause' /\ ~orphaned'
  <2>1. ASSUME PauseInv, [Next]_vars, Short' PROVE Short
    BY <2>1 DEF Short, Longest, Next, Run, AttemptEnds, Connect, StartAttempt, Poll,
       Test, Opened, Thrown, LoopTest, Round, RoundWithRestart, AttemptSucceeds,
       AttemptFails, LinkLost, Tick, ClockIsSet, vars
  <2> QED BY <2>1, TypesStep DEF PauseInv
<1>0. /\ EndsInPause /\ ~orphaned /\ TypeOK
      /\ Len(attempts) \in Nat /\ Longest \in Nat
      /\ \A i \in Number : attempts[i] \in 0 .. Longest
      /\ attempts = <<>> <=> Len(attempts) = 0
  BY Attempt DEF PauseInv
<1>1. nap \in Nat /\ RoundTime \in Nat \ {0}
  BY <1>0, ConnectingAssumption DEF TypeOK
<1> USE DEF EndsInPause, waitVars, clientVars, bounds, Number
<1>2. CASE Connect
  BY <1>0, <1>2 DEF Connect
<1>3. CASE StartAttempt
  BY <1>0, <1>3 DEF StartAttempt
<1>4. CASE Poll
  <2>1. nap' >= 1
    BY <1>4, ConnectingAssumption DEF Poll, Sleep
  <2> QED BY <1>0, <1>4, <2>1 DEF Poll
<1>5. CASE Test
  BY <1>0, <1>5 DEF Test
<1>6. CASE Opened \/ Thrown
  BY <1>0, <1>6 DEF Opened, Thrown
<1>7. CASE LoopTest
  <2>1. connected => nap' >= RoundTime /\ nap' \in Int
    BY <1>7, ConnectingAssumption DEF LoopTest, Sleep
  <2> QED BY <1>0, <1>1, <1>7, <2>1 DEF LoopTest
<1>8. CASE Round
  BY <1>0, <1>1, <1>8 DEF Round
<1>9. CASE RoundWithRestart
  <2>1. attempts = <<>>
    BY <1>0, <1>9 DEF RoundWithRestart
  <2>2. Len(attempts') = 0
    BY <1>0, <1>9, <2>1 DEF RoundWithRestart
  <2>3. ~orphaned' /\ pc' = "loop"
    BY <1>0, <1>9, <2>1 DEF RoundWithRestart
  <2> QED BY <2>2, <2>3
<1>10. ASSUME NEW i \in Number, AttemptSucceeds(i) \/ AttemptFails(i)
       PROVE  EndsInPause' /\ ~orphaned'
  <2>1. attempts' = Without(i) /\ UNCHANGED <<pc, nap, orphaned>>
    BY <1>10 DEF AttemptSucceeds, AttemptFails
  <2>2. \A j \in Number' : \E k \in Number : attempts'[j] = attempts[k]
    BY <1>0, <2>1, WhatIsLeft
  <2> QED BY <1>0, <2>1, <2>2
<1>11. CASE LinkLost
  BY <1>0, <1>11 DEF LinkLost
<1>12. CASE Tick
  <2>1. /\ Len(attempts') = Len(attempts)
        /\ \A i \in Number : attempts'[i] = attempts[i] - 1
    BY <1>0, <1>12, Ticked DEF Tick
  <2>2. \A i \in Number : attempts'[i] < RoundTime
    BY <1>0, <1>1, <2>1 DEF Short
  <2> QED BY <1>0, <1>1, <1>12, <2>1, <2>2 DEF Tick
<1>13. CASE ClockIsSet
  BY <1>0, <1>13 DEF ClockIsSet
<1>14. CASE UNCHANGED vars
  BY <1>0, <1>14 DEF vars, runVars
<1> QED BY <1>2, <1>3, <1>4, <1>5, <1>6, <1>7, <1>8, <1>9, <1>10, <1>11, <1>12,
           <1>13, <1>14 DEF Next, Run, AttemptEnds

LEMMA PauseInit == Init => PauseInv
<1> SUFFICES ASSUME Init PROVE EndsInPause /\ ~orphaned /\ TypeOK
  BY DEF PauseInv
<1>1. TypeOK
  BY InitTypes
<1> QED BY <1>1 DEF Init, EndsInPause

LEMMA PauseOutlives == PauseInv => ClientOutlivesAttempts
BY DEF PauseInv, Short, Longest, ClientOutlivesAttempts

\* Up to a timeout of the length of the pause, resetIndiClient never drops a
\* client that one of its detached threads is still connecting, even when
\* attempts overlap and the clock is set.
THEOREM ClientOutlives == Spec => []ClientOutlivesAttempts
BY PauseInit, PauseOutlives, PauseStep, PTL DEF Spec
-----------------------------------------------------------------------------
(***************************************************************************)
(* A timeout that fits into the wait, and a clock that is not set.         *)
(***************************************************************************)

\* An attempt is over when its wait is: the wait counts at least the time that
\* the attempt has used, and its last sleep takes it beyond its end.
OneAtATime ==
    /\ attempts # <<>> => /\ Len(attempts) = 1 /\ pc \in {"poll", "sleep"}
                          /\ ~isServerConnected
                          /\ elapsed + attempts[1] <= Longest
    /\ pc = "sleep" /\ hitTimeout =>
         elapsed >= MaxWait /\ (nap = 0 => elapsed > MaxWait)
    /\ pc = "announce" => ~isServerConnected
    /\ connected => pc \in {"loop", "round"}
    /\ pc = "round" => connected
    /\ announced = "CONNECTED" <=> isServerConnected

TimelyInv == TypeOK /\ (Timely => OneAtATime)

\* Once untimely, always untimely.
LEMMA TimelyBefore == TypeOK /\ [Next]_vars /\ Timely' => Timely
BY DEF TypeOK, Timely, Next, Run, AttemptEnds, Connect, StartAttempt, Poll, Test, Opened,
   Thrown, LoopTest, Round, RoundWithRestart, AttemptSucceeds, AttemptFails, LinkLost,
   Tick, ClockIsSet, vars, runVars, waitVars, clientVars, bounds

LEMMA TimelyStep == TimelyInv /\ [Next]_vars => TimelyInv'
<1> SUFFICES ASSUME TypeOK, OneAtATime, Timely, Timely', [Next]_vars
             PROVE  OneAtATime'
  BY TimelyBefore, TypesStep DEF TimelyInv
<1>0. /\ Len(attempts) \in Nat /\ Longest \in Nat /\ Longest <= MaxWait
      /\ \A i \in Number : attempts[i] \in 0 .. Longest
      /\ attempts = <<>> <=> Len(attempts) = 0
  BY Attempt DEF Timely, Longest
<1>1. elapsed \in Int /\ nap \in Nat /\ MaxWait \in Nat
  BY ConnectingAssumption DEF TypeOK
<1> USE DEF OneAtATime, waitVars, clientVars, bounds
<1>2. CASE Connect
  BY <1>0, <1>2 DEF Connect, Longest
<1>3. CASE StartAttempt
  <2>1. PICK left \in timeoutSec .. Longest : attempts' = Append(attempts, left)
    BY <1>3 DEF StartAttempt, Longest
  <2>2. attempts = <<>> /\ Len(attempts) = 0
    BY <1>0, <1>3 DEF StartAttempt
  <2>3. Len(attempts') = 1 /\ attempts'[1] = left /\ elapsed' = 0 /\ Longest' = Longest
    BY <1>3, <2>1, <2>2, Started DEF StartAttempt, Longest
  <2>4. elapsed' + attempts'[1] <= Longest'
    BY <1>0, <2>3 DEF TypeOK
  <2> QED BY <1>3, <2>3, <2>4 DEF StartAttempt
<1>4. CASE Poll
  <2>1. nap' >= 1
    BY <1>4, ConnectingAssumption DEF Poll, Sleep
  <2>2. pc' = "sleep" /\ (hitTimeout' => elapsed' >= MaxWait)
    BY <1>4 DEF Poll, WaitIsReached
  <2>3. UNCHANGED <<attempts, isServerConnected, connected, announced, elapsed, timeoutSec>>
    BY <1>4 DEF Poll
  <2>4. nap' # 0 /\ ~connected /\ (attempts # <<>> => elapsed + attempts[1] <= Longest')
    BY <1>4, <2>1, <2>3 DEF Poll, Longest
  <2> QED BY <1>4, <2>2, <2>3, <2>4 DEF Poll
<1>5. CASE Test
  <2>1. hitTimeout \/ isServerConnected => attempts = <<>>
    BY <1>0, <1>1, <1>5 DEF Test, Number
  <2> QED BY <1>0, <1>5, <2>1 DEF Test, Longest
<1>6. CASE Opened
  BY <1>0, <1>6 DEF Opened
<1>7. CASE Thrown
  BY <1>0, <1>7 DEF Thrown
<1>8. CASE LoopTest
  BY <1>0, <1>8 DEF LoopTest
<1>9. CASE Round
  BY <1>0, <1>9 DEF Round
<1>10. CASE RoundWithRestart
  BY <1>0, <1>10 DEF RoundWithRestart
<1>11. ASSUME NEW i \in Number, AttemptSucceeds(i) \/ AttemptFails(i)
       PROVE  OneAtATime'
  <2>1. attempts # <<>> /\ Len(attempts) = 1
    BY <1>0, <1>11 DEF Number
  <2>2. attempts' = <<>>
    <3>1. attempts' = Without(i)
      BY <1>11 DEF AttemptSucceeds, AttemptFails
    <3> QED BY <2>1, <3>1, WithoutOne, EmptySeq
  <2>3. CASE AttemptSucceeds(i)
    BY <2>1, <2>2, <2>3 DEF AttemptSucceeds
  <2>4. CASE AttemptFails(i)
    BY <2>1, <2>2, <2>4 DEF AttemptFails
  <2> QED BY <1>11, <2>3, <2>4
<1>12. CASE LinkLost
  BY <1>0, <1>12 DEF LinkLost
<1>13. CASE Tick
  <2>1. /\ Len(attempts') = Len(attempts)
        /\ \A i \in Number : attempts'[i] = attempts[i] - 1
        /\ TypeOK'
    BY <1>0, <1>13, Ticked, TypesStep DEF Tick, Number
  <2>2. attempts' # <<>> <=> attempts # <<>>
    BY <1>0, <2>1, EmptySeq DEF TypeOK
  <2>3. attempts # <<>> => elapsed' + attempts'[1] <= Longest'
    BY <1>0, <1>1, <1>13, <2>1 DEF Tick, Number, Longest
  <2> QED BY <1>0, <1>1, <1>13, <2>1, <2>2, <2>3 DEF Tick
<1>14. CASE ClockIsSet
  BY <1>14 DEF ClockIsSet, Timely, TypeOK
<1>15. CASE UNCHANGED vars
  BY <1>15 DEF vars, runVars, Longest
<1> QED BY <1>2, <1>3, <1>4, <1>5, <1>6, <1>7, <1>8, <1>9, <1>10, <1>11, <1>12,
           <1>13, <1>14, <1>15 DEF Next, Run, AttemptEnds, Number

LEMMA TimelyInit == Init => TimelyInv
<1> SUFFICES ASSUME Init PROVE OneAtATime
  BY InitTypes DEF TimelyInv
<1> QED BY DEF Init, OneAtATime

LEMMA TimelyAnnounced == TimelyInv => AnnouncedIsTrue
BY DEF TimelyInv, OneAtATime, AnnouncedIsTrue

\* The connection state that the client announced last is its true one once
\* nothing is under way.
THEOREM Announced == Spec => []AnnouncedIsTrue
BY TimelyInit, TimelyStep, TimelyAnnounced, PTL DEF Spec
-----------------------------------------------------------------------------
(***************************************************************************)
(* The refinement.                                                         *)
(***************************************************************************)
attempt == attempts # <<>>
link == isServerConnected \/ pc = "opened"

LEMMA SessionStep ==
    TimelyInv /\ [Next]_vars => [Timely' => Session!Next]_<<attempt, link, connected>>
<1> SUFFICES ASSUME TypeOK, OneAtATime, Timely, Timely', [Next]_vars
             PROVE  Session!Next \/ UNCHANGED <<attempt, link, connected>>
  BY TimelyBefore DEF TimelyInv
<1>0. /\ Len(attempts) \in Nat
      /\ attempts = <<>> <=> Len(attempts) = 0
      /\ isServerConnected \in BOOLEAN /\ connected \in BOOLEAN
  BY Attempt DEF TypeOK
<1> USE DEF OneAtATime, waitVars, clientVars, bounds, attempt, link
<1>1. CASE StartAttempt
  <2>1. attempts' # <<>> /\ ~attempt /\ ~link /\ ~connected
    <3>1. PICK left \in timeoutSec .. Longest : attempts' = Append(attempts, left)
      BY <1>1 DEF StartAttempt, Longest
    <3>2. Len(attempts') > 0
      BY <1>0, <3>1, Started
    <3> QED BY <1>1, <3>2, EmptySeq DEF StartAttempt
  <2>2. link' = link /\ connected' = connected
    BY <1>1 DEF StartAttempt
  <2> QED BY <2>1, <2>2 DEF Session!Next, Session!Attempt
<1>2. ASSUME NEW i \in Number, AttemptSucceeds(i) \/ AttemptFails(i)
      PROVE  Session!Next
  <2>1. attempts # <<>> /\ Len(attempts) = 1 /\ ~link /\ ~connected
    BY <1>0, <1>2 DEF Number
  <2>2. attempts' = <<>> /\ pc' = pc
    <3>1. attempts' = Without(i) /\ pc' = pc
      BY <1>2 DEF AttemptSucceeds, AttemptFails
    <3> QED BY <2>1, <3>1, WithoutOne, EmptySeq
  <2>3. CASE AttemptSucceeds(i)
    BY <2>1, <2>2, <2>3 DEF AttemptSucceeds, Session!Next, Session!Succeed
  <2>4. CASE AttemptFails(i)
    <3>1. link' = link /\ connected' = connected
      BY <1>0, <2>1, <2>4 DEF AttemptFails
    <3> QED BY <2>1, <2>2, <3>1 DEF Session!Next, Session!Fail
  <2> QED BY <1>2, <2>3, <2>4
<1>3. CASE Opened
  <2>1. ~attempt /\ ~attempt' /\ link /\ ~connected /\ connected' /\ link' \in BOOLEAN
    BY <1>3 DEF Opened
  <2> QED BY <1>0, <1>3, <2>1 DEF Opened, Session!Next, Session!Open
<1>4. CASE RoundWithRestart
  BY <1>4 DEF RoundWithRestart, Session!Next, Session!Reset
<1>5. CASE LinkLost
  <2>1. CASE pc = "opened"
    BY <1>5, <2>1 DEF LinkLost
  <2>2. CASE pc # "opened"
    BY <1>5, <2>2 DEF LinkLost, Session!Next, Session!Lose
  <2> QED BY <2>1, <2>2
<1>6. CASE Tick
  <2>1. Len(attempts') = Len(attempts) /\ TypeOK'
    BY <1>6, Ticked, TypesStep DEF Tick, Number
  <2>2. attempts' # <<>> <=> attempts # <<>>
    BY <1>0, <2>1, EmptySeq DEF TypeOK
  <2> QED BY <1>6, <2>2 DEF Tick
<1>7. CASE Test
  <2>1. link' = link
    BY <1>7 DEF Test
  <2> QED BY <1>7, <2>1 DEF Test
<1>8. CASE Connect \/ Poll \/ LoopTest \/ Round
  BY <1>8 DEF Connect, Poll, LoopTest, Round
<1>9. CASE Thrown
  <2>1. connected' = connected
    BY <1>0, <1>9 DEF Thrown
  <2> QED BY <1>9, <2>1 DEF Thrown
<1>10. CASE ClockIsSet \/ UNCHANGED vars
  BY <1>10 DEF ClockIsSet, vars, runVars
<1> QED BY <1>1, <1>2, <1>3, <1>4, <1>5, <1>6, <1>7, <1>8, <1>9, <1>10
        DEF Next, Run, AttemptEnds, Number

\* With a timeout that fits into the wait the timed client implements
\* ServerSession: attempts come one at a time and never in a session, and only
\* the reset of the client ends one.
THEOREM SessionsImplemented == Spec => SessionSpec
<1>1. Init => Session!Init
  BY DEF Init, Session!Init
<1> QED BY <1>1, TimelyInit, TimelyStep, SessionStep, PTL
        DEF Spec, SessionSpec, attempt, link
-----------------------------------------------------------------------------
(***************************************************************************)
(* Attempts do not pile up.                                                *)
(***************************************************************************)

\* What n starts take that are a wait apart.
Gap(n) == (MaxWait + 1) * n

LEMMA GapType == \A n \in Int : Gap(n) \in Int
BY ConnectingAssumption DEF Gap

LEMMA GapNext == \A n \in Int : Gap(n + 1) = Gap(n) + MaxWait + 1
<1>1. \A k \in Nat, n \in Int : k * (n + 1) = k * n + k
  OBVIOUS
<1> QED BY <1>1, ConnectingAssumption DEF Gap

LEMMA GapDifference == \A m, n \in Int : Gap(m - n) = Gap(m) - Gap(n)
<1>1. \A k \in Nat, m, n \in Int : k * (m - n) = k * m - k * n
  OBVIOUS
<1> QED BY <1>1, ConnectingAssumption DEF Gap

LEMMA GapSize == Gap(0) = 0 /\ \A n \in Nat : Gap(n) \in Nat
<1>1. \A k, n \in Nat : k * n \in Nat
  OBVIOUS
<1> QED BY <1>1, ConnectingAssumption DEF Gap

LEMMA Quotient ==
    ASSUME NEW a \in Nat, NEW k \in Nat \ {0}, NEW n \in Int, k * n <= a
    PROVE  n <= a \div k
<1>1. PICK q \in Nat : q = a \div k
  OBVIOUS
<1>2. a < k * (q + 1)
  BY <1>1
<1>3. CASE n > q
  <2>1. k * n >= k * (q + 1)
    BY <1>1, <1>3
  <2> QED BY <1>2, <2>1
<1> QED BY <1>1, <1>3

\* The latest end of an attempt, had all that came after it been a wait apart;
\* a lost link may have saved one of those waits.
Due(i) == attempts[i] + Gap(Len(attempts) - i)
Room == Longest + Gap(lost)

\* While run() waits its clock shows how long ago the last attempt came; when
\* the next one may come, that is a wait.
Spaced ==
    /\ pc \in {"poll", "sleep"} =>
         elapsed >= 0 /\ \A i \in Number : Due(i) + elapsed <= Room
    /\ pc = "sleep" /\ hitTimeout =>
         elapsed >= MaxWait /\ (nap = 0 => elapsed > MaxWait)
    /\ pc \notin {"poll", "sleep"} => \A i \in Number : Due(i) <= Room
    /\ \/ pc \in {"announce", "thrown"}
       \/ pc \in {"connect", "opened", "loop", "round"} /\ ~isServerConnected
       => \A i \in Number : Due(i) + MaxWait + 1 <= Room

SpacedInv == TypeOK /\ (jumps = 0 => Spaced)

LEMMA SpacedStep == SpacedInv /\ [Next]_vars => SpacedInv'
<1> SUFFICES ASSUME TypeOK, Spaced, jumps = 0, jumps' = 0, [Next]_vars
             PROVE  Spaced'
  <2>1. TypeOK /\ [Next]_vars /\ jumps' = 0 => jumps = 0
    BY DEF TypeOK, Next, Run, AttemptEnds, Connect, StartAttempt, Poll, Test, Opened,
       Thrown, LoopTest, Round, RoundWithRestart, AttemptSucceeds, AttemptFails,
       LinkLost, Tick, ClockIsSet, vars, runVars, waitVars, clientVars, bounds
  <2> QED BY <2>1, TypesStep DEF SpacedInv
<1>0. /\ Len(attempts) \in Nat /\ Longest \in Nat
      /\ \A i \in Number : attempts[i] \in 0 .. Longest
      /\ attempts = <<>> <=> Len(attempts) = 0
  BY Attempt
<1>1. elapsed \in Int /\ nap \in Nat /\ MaxWait \in Nat /\ lost \in Nat
  BY ConnectingAssumption DEF TypeOK
<1>2. Room \in Int /\ \A i \in Number : i \in Int /\ Due(i) \in Int
  <2>1. \A i \in Number : i \in Int /\ Len(attempts) - i \in Int
    BY <1>0 DEF Number
  <2>2. Gap(lost) \in Int /\ \A i \in Number : Gap(Len(attempts) - i) \in Int
    BY <1>1, <2>1, GapType
  <2> QED BY <1>0, <2>1, <2>2 DEF Room, Due
<1> USE DEF Spaced, waitVars, clientVars, bounds
<1>3. ASSUME UNCHANGED <<attempts, lost, timeoutSec>>
      PROVE  Number' = Number /\ Room' = Room /\ \A i : Due(i)' = Due(i)
  BY <1>3 DEF Number, Room, Due, Longest
<1>4. CASE Connect
  BY <1>1, <1>2, <1>3, <1>4 DEF Connect
<1>5. CASE StartAttempt
  <2>1. PICK left \in timeoutSec .. Longest : attempts' = Append(attempts, left)
    BY <1>5 DEF StartAttempt, Longest
  <2>2. /\ Len(attempts') = Len(attempts) + 1
        /\ \A i \in Number : attempts'[i] = attempts[i]
        /\ attempts'[Len(attempts) + 1] = left
    BY <2>1, Started
  <2>3. Room' = Room /\ Room >= Longest /\ left \in Int /\ left <= Longest
    <3>1. Gap(lost) \in Nat
      BY <1>1, GapSize
    <3>2. Longest' = Longest /\ Room' = Room
      BY <1>5 DEF StartAttempt, Room, Longest
    <3> QED BY <1>0, <3>1, <3>2 DEF Room, TypeOK
  <2>4. ASSUME NEW i \in Number'
        PROVE  Due(i)' <= Room'
    <3>1. CASE i \in Number
      <4>1. Len(attempts') - i = Len(attempts) - i + 1
        BY <1>0, <2>2, <3>1 DEF Number
      <4>2. Gap(Len(attempts') - i) = Gap(Len(attempts) - i) + MaxWait + 1
        BY <1>0, <1>2, <3>1, <4>1, GapNext
      <4>3. Due(i)' = Due(i) + MaxWait + 1
        <5>1. Gap(Len(attempts) - i) \in Int
          BY <1>0, <1>2, <3>1, GapType
        <5> QED BY <1>0, <1>1, <2>2, <3>1, <4>2, <5>1 DEF Due
      <4>4. Due(i) + MaxWait + 1 <= Room
        <5>1. pc = "announce"
          BY <1>5 DEF StartAttempt
        <5> QED BY <3>1, <5>1
      <4> QED BY <2>3, <4>3, <4>4
    <3>2. CASE i = Len(attempts) + 1
      <4>1. Len(attempts') - i = 0 /\ attempts'[i] = left
        BY <1>0, <2>2, <3>2
      <4>2. Due(i)' = left
        BY <2>3, <4>1, GapSize DEF Due
      <4> QED BY <1>0, <1>2, <2>3, <4>2
    <3> QED BY <1>0, <2>2, <3>1, <3>2 DEF Number
  <2>5. \A i \in Number' : Due(i)' \in Int
    <3>1. TypeOK' /\ Len(attempts') \in Nat /\ \A i \in Number' : attempts'[i] \in Int
      BY <1>0, <2>2, <2>3, TypesStep DEF Number
    <3>2. \A i \in Number' : Len(attempts') - i \in Int
      BY <3>1 DEF Number
    <3>3. \A i \in Number' : Gap(Len(attempts') - i) \in Int
      BY <3>2, GapType
    <3> QED BY <3>1, <3>3 DEF Due
  <2> QED BY <1>2, <1>5, <2>3, <2>4, <2>5 DEF StartAttempt
<1>6. CASE Poll
  <2>1. nap' # 0
    BY <1>6, ConnectingAssumption DEF Poll, Sleep
  <2>2. hitTimeout' => elapsed' >= MaxWait
    BY <1>6 DEF Poll, WaitIsReached
  <2> QED BY <1>3, <1>6, <2>1, <2>2 DEF Poll
<1>7. CASE Test
  <2>1. \A i \in Number : Due(i) <= Room
    BY <1>1, <1>2, <1>7 DEF Test
  <2>2. hitTimeout => \A i \in Number : Due(i) + MaxWait + 1 <= Room
    BY <1>1, <1>2, <1>7 DEF Test
  <2> QED BY <1>3, <1>7, <2>1, <2>2 DEF Test
<1>8. CASE Opened \/ Thrown
  BY <1>3, <1>8 DEF Opened, Thrown
<1>9. CASE LoopTest \/ Round
  BY <1>3, <1>9 DEF LoopTest, Round
<1>10. CASE RoundWithRestart
  <2>1. Number' = {}
    BY <1>10, EmptySeq DEF RoundWithRestart, Number
  <2> QED BY <1>10, <2>1 DEF RoundWithRestart
<1>11. ASSUME NEW i \in Number, AttemptSucceeds(i) \/ AttemptFails(i)
       PROVE  Spaced'
  <2>1. /\ attempts' = Without(i)
        /\ UNCHANGED <<timeoutSec, pc, waitVars, lost>>
        /\ isServerConnected' = isServerConnected \/ isServerConnected'
    BY <1>11 DEF AttemptSucceeds, AttemptFails
  <2>2. Room' = Room
    BY <2>1 DEF Room, Longest
  <2>3. \A j \in Number' : \E k \in Number : Due(j)' \in Int /\ Due(j)' <= Due(k)
    <3> TAKE j \in Number'
    <3>1. PICK k \in Number : k \in {j, j + 1} /\ attempts'[j] = attempts[k]
      BY <2>1, WhatIsLeft
    <3>2. Len(attempts') = Len(attempts) - 1 /\ j \in Int
      BY <2>1, WhatIsLeft DEF Number
    <3>3. Len(attempts') - j \in Int /\ attempts'[j] \in Int
      BY <1>0, <3>1, <3>2
    <3>4. CASE k = j + 1
      <4>1. Len(attempts') - j = Len(attempts) - k
        BY <1>0, <3>2, <3>4
      <4> QED BY <1>2, <3>1, <4>1 DEF Due
    <3>5. CASE k = j
      <4>1. Gap(Len(attempts) - k) = Gap(Len(attempts') - j) + MaxWait + 1
        <5>1. Len(attempts) - k = Len(attempts') - j + 1
          BY <1>0, <3>2, <3>5
        <5> QED BY <3>3, <5>1, GapNext
      <4>2. Gap(Len(attempts') - j) \in Int
        BY <3>3, GapType
      <4>3. Due(j)' = attempts[k] + Gap(Len(attempts') - j)
        BY <3>1 DEF Due
      <4>4. Due(k) = attempts[k] + (Gap(Len(attempts') - j) + MaxWait + 1)
        BY <4>1 DEF Due
      <4>5. attempts[k] \in Int
        BY <1>0, <3>1
      <4>6. Due(j)' \in Int /\ Due(j)' <= Due(k)
        BY <1>1, <4>2, <4>3, <4>4, <4>5
      <4> QED BY <3>1, <4>6
    <3> QED BY <3>1, <3>4, <3>5
  <2>4. ~isServerConnected' => ~isServerConnected
    BY <1>11 DEF AttemptSucceeds, AttemptFails
  <2> QED BY <1>1, <1>2, <2>1, <2>2, <2>3, <2>4
<1>12. CASE LinkLost
  <2>1. Room' = Room + MaxWait + 1
    <3>1. Gap(lost') = Gap(lost) + MaxWait + 1 /\ Gap(lost) \in Int
      BY <1>1, <1>12, GapNext, GapType DEF LinkLost
    <3> QED BY <1>0, <1>1, <1>12, <3>1 DEF LinkLost, Room, Longest
  <2>2. Number' = Number /\ \A j : Due(j)' = Due(j)
    BY <1>12 DEF LinkLost, Number, Due
  <2> QED BY <1>1, <1>2, <1>12, <2>1, <2>2 DEF LinkLost
<1>13. CASE Tick
  <2>1. /\ Len(attempts') = Len(attempts)
        /\ \A i \in Number : attempts'[i] = attempts[i] - 1
    BY <1>0, <1>13, Ticked DEF Tick, Number
  <2>2. Number' = Number /\ Room' = Room
    BY <1>13, <2>1 DEF Tick, Number, Room, Longest
  <2>3. \A i \in Number : Due(i)' = Due(i) - 1
    <3>1. \A i \in Number : Len(attempts) - i \in Int /\ attempts[i] \in Int
      BY <1>0, <1>2
    <3>2. \A i \in Number : Gap(Len(attempts) - i) \in Int
      BY <3>1, GapType
    <3> QED BY <2>1, <3>1, <3>2 DEF Due
  <2> QED BY <1>1, <1>2, <1>13, <2>2, <2>3 DEF Tick
<1>14. CASE ClockIsSet
  BY <1>14 DEF ClockIsSet
<1>15. CASE UNCHANGED vars
  BY <1>3, <1>15 DEF vars, runVars
<1> QED BY <1>4, <1>5, <1>6, <1>7, <1>8, <1>9, <1>10, <1>11, <1>12, <1>13, <1>14, <1>15
        DEF Next, Run, AttemptEnds, Number

LEMMA SpacedInit == Init => SpacedInv
<1> SUFFICES ASSUME Init PROVE Spaced
  BY InitTypes DEF SpacedInv
<1>1. Number = {}
  BY EmptySeq DEF Init, Number
<1> QED BY <1>1 DEF Init, Spaced

LEMMA SpacedBounds == SpacedInv => AttemptsBounded
<1> SUFFICES ASSUME TypeOK, Spaced
             PROVE  Len(attempts) <= Longest \div (MaxWait + 1) + 1 + lost
  BY DEF SpacedInv, AttemptsBounded, Longest
<1>1. /\ Len(attempts) \in Nat /\ Longest \in Nat /\ lost \in Nat
      /\ MaxWait + 1 \in Nat \ {0} /\ elapsed \in Int
      /\ \A i \in Number : attempts[i] \in 0 .. Longest
  BY Attempt, ConnectingAssumption DEF TypeOK
<1>2. Longest \div (MaxWait + 1) \in Nat
  BY <1>1
<1>3. CASE Len(attempts) = 0
  BY <1>1, <1>2, <1>3
<1>4. CASE Len(attempts) > 0
  <2>1. 1 \in Number /\ attempts[1] >= 0 /\ attempts[1] \in Int
    BY <1>1, <1>4 DEF Number
  <2>2. Gap(Len(attempts) - 1) \in Int /\ Gap(lost) \in Int
    BY <1>1, GapType
  <2>3. Due(1) <= Room
    BY <1>1, <2>1, <2>2 DEF Due, Room, Spaced
  <2>4. Gap(Len(attempts) - 1 - lost) <= Longest
    <3>1. Gap(Len(attempts) - 1 - lost) = Gap(Len(attempts) - 1) - Gap(lost)
      BY <1>1, GapDifference
    <3> QED BY <1>1, <2>1, <2>2, <2>3, <3>1 DEF Due, Room
  <2>5. Len(attempts) - 1 - lost <= Longest \div (MaxWait + 1)
    BY <1>1, <2>4, Quotient DEF Gap
  <2> QED BY <1>1, <1>2, <2>5
<1> QED BY <1>1, <1>3, <1>4

\* However often the connection is tried, no more threads are alive than waits
\* fit into the timeout, but for one more with every lost link.
THEOREM Bounded == Spec => []AttemptsBounded
BY SpacedInit, SpacedStep, SpacedBounds, PTL DEF Spec
=============================================================================
