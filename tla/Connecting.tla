----------------------------- MODULE Connecting -----------------------------
(***************************************************************************)
(* How run() connects to the INDI server, with its clock: connect() starts *)
(* a detached thread, wait_for polls every 100 ms by the system clock and  *)
(* gives up after five seconds, and an attempt that fails calls back from  *)
(* its thread.  DeviceWatchdog takes for granted that an attempt is over   *)
(* when the wait for it ends; here the connection timeout is any, so that  *)
(* attempts may outlive their wait, overlap, and fail in a later session.  *)
(* Time is counted in polls of 100 ms.                                     *)
(***************************************************************************)
EXTENDS Integers, Sequences

CONSTANTS
    MaxWait,     \* the five seconds of wait_for, in polls
    RoundTime,   \* the five seconds of sleep between rounds
    Latency,     \* bound: by how much a sleep or a thread may be late
    Jumps,       \* by how much the system clock may be set
    MaxJumps,    \* bound: how often it is set
    MaxFailures, \* bound: the number of attempts that fail
    MaxLost      \* bound: the number of lost links

ASSUME ConnectingAssumption ==
    /\ MaxWait \in Nat \ {0} /\ RoundTime \in Nat \ {0}
    /\ Latency \in Nat
    /\ MaxJumps \in Nat /\ MaxFailures \in Nat /\ MaxLost \in Nat
    /\ Jumps \subseteq Int

VARIABLES
    timeoutSec, \* timeoutSec_, in polls
    pc,         \* where run() is
    elapsed,    \* in wait_for: the system clock since start
    hitTimeout, \* wait_for's local
    nap,        \* what is left of the present sleep
    connected,  \* connected_
    attempts,   \* the threads in connectServer: the time each has left
    isServerConnected, \* of the client
    announced,  \* the connection state its subscribers were told last
    orphaned,   \* history: a client was dropped with an attempt under way
    jumps,      \* the number of times the clock was set
    failures,   \* the number of failed attempts
    lost        \* the number of lost links

waitVars == <<elapsed, hitTimeout, nap>>
clientVars == <<attempts, isServerConnected, announced, orphaned>>
bounds == <<jumps, failures, lost>>
runVars == <<pc, waitVars, connected, clientVars, bounds>>
vars == <<timeoutSec, runVars>>

\* Without late threads and a clock that is set, the wait outlasts an attempt.
Timely == timeoutSec + Latency <= MaxWait /\ jumps = 0

TypeOK ==
    /\ timeoutSec \in Nat
    /\ pc \in {"connect", "announce", "poll", "sleep", "opened", "thrown",
               "loop", "round"}
    /\ elapsed \in Int
    /\ hitTimeout \in BOOLEAN /\ connected \in BOOLEAN
    /\ nap \in 0 .. MaxWait + RoundTime + Latency
    /\ attempts \in Seq(0 .. timeoutSec + Latency)
    /\ isServerConnected \in BOOLEAN /\ orphaned \in BOOLEAN
    /\ announced \in {"DISCONNECTED", "CONNECTING", "CONNECTED"}
    /\ jumps \in 0 .. MaxJumps /\ failures \in 0 .. MaxFailures
    /\ lost \in 0 .. MaxLost

Init ==
    /\ timeoutSec \in Nat
    /\ pc = "connect"
    /\ elapsed = 0 /\ hitTimeout = FALSE /\ nap = 0
    /\ connected = FALSE
    /\ attempts = <<>> /\ isServerConnected = FALSE
    /\ announced = "DISCONNECTED" /\ orphaned = FALSE
    /\ jumps = 0 /\ failures = 0 /\ lost = 0

\* A sleep lasts as long as it is told to, or is late.
Sleep(time) == nap' \in time .. time + Latency
-----------------------------------------------------------------------------
(***************************************************************************)
(* The thread of run().                                                    *)
(***************************************************************************)

\* Mutants: a connected client connects again; one that told its subscribers
\* so once is taken to be connecting still.
ConnectAnnounced ==
    /\ pc = "connect"
    /\ IF isServerConnected \/ announced = "CONNECTING"
       THEN pc' = "poll" /\ elapsed' = 0
       ELSE pc' = "announce" /\ UNCHANGED elapsed
    /\ UNCHANGED <<timeoutSec, hitTimeout, nap, connected, clientVars, bounds>>
ConnectUnchecked ==
    /\ pc = "connect"
    /\ pc' = "announce"
    /\ UNCHANGED <<timeoutSec, waitVars, connected, clientVars, bounds>>

\* client_->connect() finds the client connected, or not.
Connect ==
    /\ pc = "connect"
    /\ IF isServerConnected
       THEN pc' = "poll" /\ elapsed' = 0
       ELSE pc' = "announce" /\ UNCHANGED elapsed
    /\ UNCHANGED <<timeoutSec, hitTimeout, nap, connected, clientVars, bounds>>

\* It tells its subscribers and starts a thread, which it detaches.
StartAttempt ==
    /\ pc = "announce"
    /\ announced' = "CONNECTING"
    /\ \E left \in timeoutSec .. timeoutSec + Latency :
         attempts' = Append(attempts, left)
    /\ pc' = "poll" /\ elapsed' = 0
    /\ UNCHANGED <<timeoutSec, hitTimeout, nap, connected, isServerConnected,
                   orphaned, bounds>>

\* Mutant: the loop gives up early.
ReachedEarly == elapsed >= MaxWait - 2

WaitIsReached == elapsed >= MaxWait

\* The head of wait_for's loop: the clock is read before the sleep.
Poll ==
    /\ pc = "poll"
    /\ hitTimeout' = WaitIsReached
    /\ Sleep(1)
    /\ pc' = "sleep"
    /\ UNCHANGED <<timeoutSec, elapsed, connected, clientVars, bounds>>

\* Its foot: a timeout wins over a connection that has come up meanwhile.
Test ==
    /\ pc = "sleep" /\ nap = 0
    /\ pc' = IF hitTimeout THEN "thrown"
             ELSE IF isServerConnected THEN "opened" ELSE "poll"
    /\ UNCHANGED <<timeoutSec, waitVars, connected, clientVars, bounds>>

Opened ==
    /\ pc = "opened"
    /\ connected' = TRUE
    /\ pc' = "loop"
    /\ UNCHANGED <<timeoutSec, waitVars, clientVars, bounds>>

Thrown ==
    /\ pc = "thrown"
    /\ connected' = FALSE
    /\ pc' = "connect"
    /\ UNCHANGED <<timeoutSec, waitVars, clientVars, bounds>>

\* Mutant: the first round starts at once.
LoopTestAtOnce ==
    /\ pc = "loop"
    /\ pc' = IF connected THEN "round" ELSE "connect"
    /\ UNCHANGED <<timeoutSec, waitVars, connected, clientVars, bounds>>

\* while (connected_), and the sleep before a round.
LoopTest ==
    /\ pc = "loop"
    /\ IF connected
       THEN pc' = "round" /\ Sleep(RoundTime)
       ELSE pc' = "connect" /\ UNCHANGED nap
    /\ UNCHANGED <<timeoutSec, elapsed, hitTimeout, connected, clientVars,
                   bounds>>

\* A round that orders no restart.
Round ==
    /\ pc = "round" /\ nap = 0
    /\ pc' = "loop"
    /\ UNCHANGED <<timeoutSec, waitVars, connected, clientVars, bounds>>

\* A round that does: the client is dropped for a new one, whose slots nobody
\* has called yet.  Threads of the old client lose the ground they stand on.
RoundWithRestart ==
    /\ pc = "round" /\ nap = 0
    /\ connected' = FALSE
    /\ isServerConnected' = FALSE /\ announced' = "DISCONNECTED"
    /\ attempts' = <<>>
    /\ orphaned' = (orphaned \/ attempts # <<>>)
    /\ pc' = "loop"
    /\ UNCHANGED <<timeoutSec, waitVars, bounds>>

Run == \/ Connect \/ StartAttempt \/ Poll \/ Test \/ Opened \/ Thrown
       \/ LoopTest \/ Round \/ RoundWithRestart
-----------------------------------------------------------------------------
(***************************************************************************)
(* The connection threads, the server and the clock.                       *)
(***************************************************************************)
Without(i) ==
    [j \in 1 .. Len(attempts) - 1 |->
        IF j < i THEN attempts[j] ELSE attempts[j + 1]]

\* connectServer returns true; the library tells of a new connection only.
AttemptSucceeds(i) ==
    /\ attempts' = Without(i)
    /\ isServerConnected' = TRUE
    /\ announced' = IF isServerConnected THEN announced ELSE "CONNECTED"
    /\ UNCHANGED <<timeoutSec, pc, waitVars, connected, orphaned, bounds>>

\* connectServer returns false: the watchdog's listener clears connected_.
AttemptFails(i) ==
    /\ failures < MaxFailures
    /\ attempts' = Without(i)
    /\ connected' = FALSE
    /\ failures' = failures + 1
    /\ UNCHANGED <<timeoutSec, pc, waitVars, isServerConnected, announced,
                   orphaned, jumps, lost>>

AttemptEnds ==
    \E i \in 1 .. Len(attempts) : AttemptSucceeds(i) \/ AttemptFails(i)

\* The library finds the connection gone; the watchdog has no listener for it.
LinkLost ==
    /\ isServerConnected
    /\ lost < MaxLost
    /\ isServerConnected' = FALSE /\ announced' = "DISCONNECTED"
    /\ lost' = lost + 1
    /\ UNCHANGED <<timeoutSec, pc, waitVars, connected, attempts, orphaned,
                   jumps, failures>>

\* Time passes while run() sleeps; no attempt outlasts its timeout.
Tick ==
    /\ pc \in {"sleep", "round"} /\ nap > 0
    /\ \A i \in 1 .. Len(attempts) : attempts[i] > 0
    /\ nap' = nap - 1
    /\ elapsed' = IF pc = "sleep" THEN elapsed + 1 ELSE elapsed
    /\ attempts' = [i \in 1 .. Len(attempts) |-> attempts[i] - 1]
    /\ UNCHANGED <<timeoutSec, pc, hitTimeout, connected, isServerConnected,
                   announced, orphaned, bounds>>

\* The system clock, which wait_for reads, is set.
ClockIsSet ==
    /\ pc = "sleep"
    /\ jumps < MaxJumps
    /\ \E by \in Jumps : elapsed' = elapsed + by
    /\ jumps' = jumps + 1
    /\ UNCHANGED <<timeoutSec, pc, hitTimeout, nap, connected, clientVars,
                   failures, lost>>

Next == Run \/ AttemptEnds \/ LinkLost \/ Tick \/ ClockIsSet

Spec == Init /\ [][Next]_vars
-----------------------------------------------------------------------------
(***************************************************************************)
(* Properties.                                                             *)
(***************************************************************************)

\* Attempts are started a wait apart, or else on a lost link: threads do not
\* pile up, and no more of them are alive than the timeout allows.
AttemptsBounded ==
    jumps = 0 =>
        Len(attempts) <= (timeoutSec + Latency) \div (MaxWait + 1) + 1 + lost

\* The pause before a round saves what wait_for does not: up to a timeout of
\* that length no client is dropped under a thread that is still connecting
\* it, even if attempts overlap and the clock is set.
ClientOutlivesAttempts == timeoutSec + Latency <= RoundTime => ~orphaned

\* What the client told its subscribers last is true once no attempt is left.
AnnouncedIsTrue ==
    Timely /\ attempts = <<>> =>
        (announced = "CONNECTED" <=> isServerConnected)

\* With a timeout that fits into the wait, and a clock that is not set, the
\* timed client keeps the promise of ServerSession, that the rounds and
\* DeviceWatchdog rely on.
Session == INSTANCE ServerSession WITH
    attempt <- attempts # <<>>,
    link <- isServerConnected \/ pc = "opened",
    session <- connected
SessionSpec ==
    /\ Session!Init
    /\ [][Timely' => Session!Next]_<<attempts # <<>>,
                                     isServerConnected \/ pc = "opened",
                                     connected>>
=============================================================================
