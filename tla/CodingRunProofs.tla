--------------------------- MODULE CodingRunProofs ---------------------------
(***************************************************************************)
(* For any number of executors, planned handles or not, and whichever      *)
(* processes die: types; one launch at a time, reachable pods, workers     *)
(* with a session and requeues of runs that never started (these when no   *)
(* process stalls for longer than a heartbeat); and who may rewrite a      *)
(* finished run.                                                           *)
(*                                                                         *)
(* The invariant speaks of what is left of each script: a launch that is   *)
(* still ahead, what has to come before it, and a requeue that is due.     *)
(***************************************************************************)
EXTENDS CodingRun, SequenceTheorems, TLAPS

-----------------------------------------------------------------------------
(* Scripts, as sequences of steps. *)

ToLaunch == {"launch", "awaitPod"}

\* Under its heartbeat, or before it.
LaunchSteps ==
    {"prepare", "checkRun", "createSession", "readRun", "writeHandle"} \cup ToLaunch

Launches(s) == \E i \in DOMAIN s : s[i] \in ToLaunch

Starts(s, step) == s # <<>> /\ Head(s) = step

\* The rest of a script that requeues the run.
Refuses(s) == s = RefusedScript \/ Starts(s, "requeue")

Requeues(s) == Refuses(s) \/ Starts(s, "recoverHandle") \/ Starts(s, "inspect")

\* Every launch left in s comes after the given step of s.
After(step, s) == \A i \in DOMAIN s : s[i] \in ToLaunch => \E j \in 1..i : s[j] = step

\* What every rest of every method has in common.
WellFormed(s) ==
    /\ s \in Seq(Step)
    /\ \A i, j \in 1..Len(s) : i <= j /\ s[j] \in ToLaunch => s[i] \in LaunchSteps
    /\ \A i \in 1..Len(s) : s[i] \in {"prepare", "recoverHandle", "inspect"} => i = 1
    /\ \A i \in 1..Len(s) : s[i] = "requeue" => i = 1 \/ s = RefusedScript
    /\ \A i \in 1..Len(s) : s[i] = "readRun" => i < Len(s) /\ s[i + 1] = "writeHandle"

Quiet(s) == WellFormed(s) /\ ~Launches(s) /\ ~Requeues(s)

PlainStep == Step \ (ToLaunch \cup {"prepare", "readRun", "requeue", "recoverHandle", "inspect"})

LEMMA TailIsWellFormed ==
    ASSUME NEW s, WellFormed(s), s # <<>>
    PROVE  /\ WellFormed(Tail(s))
           /\ Launches(Tail(s)) => Launches(s)
           /\ ~Starts(Tail(s), "prepare")
           /\ Refuses(Tail(s)) => Refuses(s)
           /\ Requeues(Tail(s)) => Requeues(s)
<1> DEFINE t == Tail(s)
<1>1. /\ s \in Seq(Step) /\ Len(s) >= 1
      /\ t \in Seq(Step) /\ Len(t) = Len(s) - 1
      /\ \A i \in 1..Len(t) : i + 1 \in 1..Len(s) /\ t[i] = s[i + 1]
  BY DEF WellFormed
<1>2. \A i \in 1..Len(s) : s[i] = "requeue" => i <= 2
  BY DEF WellFormed, RefusedScript
<1>3. \A i \in 1..Len(t) : t[i] \notin {"prepare", "recoverHandle", "inspect"}
  BY <1>1 DEF WellFormed
<1>4. \A i \in 1..Len(t) : t[i] = "requeue" => i = 1 /\ s = RefusedScript
  BY <1>1, <1>2 DEF WellFormed
<1>5. \A i \in 1..Len(t) : t[i] = "readRun" => i < Len(t) /\ t[i + 1] = "writeHandle"
  <2>1. SUFFICES ASSUME NEW i \in 1..Len(t), t[i] = "readRun"
                 PROVE  i < Len(t) /\ t[i + 1] = "writeHandle"
    OBVIOUS
  <2>2. i + 1 < Len(s) /\ s[(i + 1) + 1] = "writeHandle"
    BY <2>1, <1>1 DEF WellFormed
  <2>3. QED
    BY <2>2, <1>1
<1>6. \A i, j \in 1..Len(t) : i <= j /\ t[j] \in ToLaunch => t[i] \in LaunchSteps
  BY <1>1 DEF WellFormed
<1>7. WellFormed(t)
  BY <1>1, <1>3, <1>4, <1>5, <1>6 DEF WellFormed
<1>8. Launches(t) => Launches(s)
  BY <1>1 DEF Launches
<1>9. t # <<>> => 1 \in 1..Len(t) /\ Head(t) = t[1]
  BY <1>1
<1>10. t # RefusedScript
  <2>1. Len(RefusedScript) = 2 /\ RefusedScript[2] = "requeue"
    BY DEF RefusedScript
  <2> HIDE DEF t
  <2>2. QED
    BY <1>1, <1>4, <2>1
<1>11. QED
  BY <1>3, <1>4, <1>7, <1>8, <1>9, <1>10 DEF Starts, Refuses, Requeues

LEMMA TailAfter ==
    ASSUME NEW s \in Seq(Step), s # <<>>, NEW step, After(step, s), Head(s) # step
    PROVE  After(step, Tail(s))
<1> DEFINE t == Tail(s)
<1>1. /\ t \in Seq(Step) /\ Len(t) = Len(s) - 1
      /\ \A i \in 1..Len(t) : i + 1 \in 1..Len(s) /\ t[i] = s[i + 1]
      /\ Head(s) = s[1] /\ DOMAIN t = 1..Len(t) /\ DOMAIN s = 1..Len(s)
  OBVIOUS
<1>2. SUFFICES ASSUME NEW i \in 1..Len(t), t[i] \in ToLaunch
               PROVE  \E j \in 1..i : t[j] = step
  BY <1>1 DEF After
<1>3. PICK j \in 1..(i + 1) : s[j] = step
  BY <1>1, <1>2 DEF After
<1>4. j # 1 /\ j - 1 \in 1..i /\ j - 1 \in 1..Len(t) /\ (j - 1) + 1 = j
  BY <1>1, <1>3
<1>5. t[j - 1] = step
  BY <1>1, <1>3, <1>4
<1>6. QED
  BY <1>4, <1>5

LEMMA QuietAfter ==
    ASSUME NEW s, NEW step, ~Launches(s)
    PROVE  After(step, s)
BY DEF After, Launches

\* What persistHandle leaves out when the handle is there already.
LEMMA SkipIsTails ==
    ASSUME NEW s, WellFormed(s), Starts(s, "readRun")
    PROVE  /\ Starts(Tail(s), "writeHandle")
           /\ SubSeq(s, 3, Len(s)) = Tail(Tail(s))
<1>1. s \in Seq(Step) /\ 1 \in 1..Len(s) /\ s[1] = "readRun"
  BY DEF WellFormed, Starts
<1>2. 1 < Len(s) /\ s[2] = "writeHandle"
  BY <1>1 DEF WellFormed
<1>3. /\ Tail(s) \in Seq(Step) /\ Len(Tail(s)) = Len(s) - 1
      /\ \A i \in 1..Len(Tail(s)) : Tail(s)[i] = s[i + 1]
  BY <1>1, HeadTailProperties
<1>4. Tail(s) # <<>> /\ Tail(s)[1] = s[2]
  BY <1>1, <1>2, <1>3
<1>5. Starts(Tail(s), "writeHandle")
  BY <1>2, <1>3, <1>4 DEF Starts
<1>6. SubSeq(s, 3, Len(s)) = Tail(Tail(s))
  <2>1. SubSeq(s, 1, Len(s)) = s
    BY <1>1, SubSeqFull
  <2>2. Tail(SubSeq(s, 1, Len(s))) = SubSeq(s, 1 + 1, Len(s))
    BY <1>1, <1>2, HeadTailOfSubSeq
  <2>3. Tail(SubSeq(s, 2, Len(s))) = SubSeq(s, 2 + 1, Len(s))
    BY <1>1, <1>2, HeadTailOfSubSeq
  <2>4. QED
    BY <2>1, <2>2, <2>3
<1>7. QED
  BY <1>5, <1>6

LEMMA PlainIsQuiet ==
    ASSUME NEW s \in Seq(PlainStep)
    PROVE  Quiet(s)
<1>1. \A i \in 1..Len(s) : s[i] \in PlainStep
  OBVIOUS
<1>2. s \in Seq(Step)
  BY DEF PlainStep
<1>3. s # RefusedScript
  <2>1. Len(RefusedScript) = 2 /\ RefusedScript[2] = "requeue"
    BY DEF RefusedScript
  <2>2. QED
    BY <1>1, <2>1 DEF PlainStep
<1>4. s # <<>> => Head(s) \in PlainStep
  BY <1>1
<1>5. QED
  BY <1>1, <1>2, <1>3, <1>4 DEF Quiet, WellFormed, Launches, Requeues, Refuses, Starts, PlainStep

LEMMA QuietScripts ==
    /\ Quiet(<<>>) /\ Quiet(<<"load">>) /\ Quiet(<<"claim">>) /\ Quiet(<<"prepare", "follow">>)
    /\ Quiet(CatchScript) /\ Quiet(CleanupScript) /\ Quiet(AbandonScript)
    /\ Quiet(FinishErrorScript) /\ Quiet(WithoutPush) /\ Quiet(<<"removeJob">>)
    /\ Quiet(<<"reload", "follow">>) /\ Quiet(FinishScript) /\ Quiet(FinishScript \o <<"sweep">>)
    /\ Quiet(<<"stop">>) /\ Quiet(<<"cancelPending">>) /\ Quiet(<<"sweep">>) /\ Quiet(<<"heartbeat">>)
    /\ Quiet(StopScript \o <<"cancelPending">>) /\ Quiet(CleanupScript \o <<"cancelPending">>)
    /\ Quiet(<<"recoverClaim">>)
<1> DEFINE P == PlainStep
<1>1. /\ <<>> \in Seq(P) /\ <<"load">> \in Seq(P) /\ <<"claim">> \in Seq(P)
      /\ <<"removeJob">> \in Seq(P) /\ <<"reload", "follow">> \in Seq(P)
      /\ <<"stop">> \in Seq(P) /\ <<"cancelPending">> \in Seq(P) /\ <<"sweep">> \in Seq(P)
      /\ <<"heartbeat">> \in Seq(P) /\ <<"recoverClaim">> \in Seq(P)
  BY DEF PlainStep, Step, ToLaunch
<1>2. /\ CatchScript \in Seq(P) /\ CleanupScript \in Seq(P) /\ AbandonScript \in Seq(P)
      /\ FinishErrorScript \in Seq(P) /\ WithoutPush \in Seq(P) /\ StopScript \in Seq(P)
      /\ FailedJobScript \in Seq(P)
  BY DEF PlainStep, Step, ToLaunch, CatchScript, CleanupScript, AbandonScript, FinishErrorScript,
         WithoutPush, StopScript, FailedJobScript
<1>3. SucceededJobScript \in Seq(P)
  BY DEF PlainStep, Step, ToLaunch, SucceededJobScript
<1>4. FinishScript \in Seq(P)
  BY <1>2, <1>3 DEF FinishScript
<1>5. /\ FinishScript \o <<"sweep">> \in Seq(P) /\ StopScript \o <<"cancelPending">> \in Seq(P)
      /\ CleanupScript \o <<"cancelPending">> \in Seq(P)
  BY <1>1, <1>2, <1>4
<1>6. Quiet(<<"prepare", "follow">>)
  BY DEF Quiet, WellFormed, Launches, Requeues, Refuses, Starts, Step, ToLaunch, RefusedScript
<1> HIDE DEF P
<1>7. QED
  BY <1>1, <1>2, <1>4, <1>5, <1>6, PlainIsQuiet DEF P

LEMMA RequeueScripts ==
    /\ WellFormed(RefusedScript) /\ ~Launches(RefusedScript)
    /\ WellFormed(<<"requeue", "heartbeat">>) /\ ~Launches(<<"requeue", "heartbeat">>)
    /\ WellFormed(<<"recoverHandle">>) /\ ~Launches(<<"recoverHandle">>)
    /\ WellFormed(<<"inspect">>) /\ ~Launches(<<"inspect">>)
    /\ ~Refuses(<<"recoverHandle">>) /\ ~Refuses(<<"inspect">>)
BY DEF WellFormed, Launches, Refuses, Starts, Step, ToLaunch, RefusedScript

LEMMA AppendTwo ==
    ASSUME NEW s \in Seq(Step), NEW x \in Step, NEW y \in Step, NEW u, u = s \o <<x, y>>
    PROVE  /\ u \in Seq(Step) /\ Len(u) = Len(s) + 2
           /\ \A i \in 1..Len(s) : u[i] = s[i]
           /\ u[Len(s) + 1] = x /\ u[Len(s) + 2] = y
OBVIOUS

LEMMA AppendOne ==
    ASSUME NEW s \in Seq(Step), NEW x \in Step, NEW u, u = s \o <<x>>
    PROVE  /\ u \in Seq(Step) /\ Len(u) = Len(s) + 1
           /\ \A i \in 1..Len(s) : u[i] = s[i]
           /\ u[Len(s) + 1] = x
OBVIOUS

LEMMA LaunchScriptShape ==
    /\ WellFormed(LaunchScript)
    /\ Starts(LaunchScript, "prepare")
    /\ ~Requeues(LaunchScript)
    /\ After("createSession", LaunchScript)
    /\ Planned => After("writeHandle", LaunchScript)
<1>1. Planned \in BOOLEAN
  BY CodingRunAssumption
<1> DEFINE s1 == <<"prepare", "checkRun", "createSession", "checkRun">>
           s2 == s1 \o (IF Planned THEN PersistScript ELSE <<>>)
           s3 == s2 \o <<"launch", "awaitPod">>
           s4 == s3 \o PersistScript
           s5 == s4 \o <<"follow">>
<1>2. LaunchScript = s5
  BY DEF LaunchScript
<1>3. /\ s1 \in Seq(Step) /\ Len(s1) = 4
      /\ s1[1] = "prepare" /\ s1[2] = "checkRun" /\ s1[3] = "createSession" /\ s1[4] = "checkRun"
  BY DEF Step
<1>4. /\ s3 = s2 \o <<"launch", "awaitPod">>
      /\ s4 = s3 \o <<"readRun", "writeHandle">>
      /\ s5 = s4 \o <<"follow">>
      /\ Planned => s2 = s1 \o <<"readRun", "writeHandle">>
      /\ ~Planned => s2 = s1 \o <<>>
  BY DEF PersistScript
<1>5. /\ "readRun" \in Step /\ "writeHandle" \in Step /\ "launch" \in Step /\ "awaitPod" \in Step
      /\ "follow" \in Step
  BY DEF Step
<1> HIDE DEF s1, s2, s3, s4, s5
<1>6. CASE Planned
  <2>1. /\ s2 \in Seq(Step) /\ Len(s2) = 6
        /\ \A i \in 1..4 : s2[i] = s1[i]
        /\ s2[5] = "readRun" /\ s2[6] = "writeHandle"
    <3>1. /\ s2 \in Seq(Step) /\ Len(s2) = Len(s1) + 2
          /\ \A i \in 1..Len(s1) : s2[i] = s1[i]
          /\ s2[Len(s1) + 1] = "readRun" /\ s2[Len(s1) + 2] = "writeHandle"
      <4>1. s2 = s1 \o <<"readRun", "writeHandle">> /\ s1 \in Seq(Step)
        BY <1>3, <1>4, <1>6
      <4>2. QED
        BY <4>1, <1>5, AppendTwo
    <3>2. QED
      BY <3>1, <1>3
  <2>2. /\ s3 \in Seq(Step) /\ Len(s3) = 8
        /\ \A i \in 1..6 : s3[i] = s2[i]
        /\ s3[7] = "launch" /\ s3[8] = "awaitPod"
    <3>1. /\ s3 \in Seq(Step) /\ Len(s3) = Len(s2) + 2
          /\ \A i \in 1..Len(s2) : s3[i] = s2[i]
          /\ s3[Len(s2) + 1] = "launch" /\ s3[Len(s2) + 2] = "awaitPod"
      <4>1. s3 = s2 \o <<"launch", "awaitPod">> /\ s2 \in Seq(Step)
        BY <1>4, <2>1
      <4>2. QED
        BY <4>1, <1>5, AppendTwo
    <3>2. QED
      BY <3>1, <2>1
  <2>3. /\ s4 \in Seq(Step) /\ Len(s4) = 10
        /\ \A i \in 1..8 : s4[i] = s3[i]
        /\ s4[9] = "readRun" /\ s4[10] = "writeHandle"
    BY <1>4, <1>5, <2>2, AppendTwo
  <2>4. /\ s5 \in Seq(Step) /\ Len(s5) = 11
        /\ \A i \in 1..10 : s5[i] = s4[i]
        /\ s5[11] = "follow"
    BY <1>4, <1>5, <2>3, AppendOne
  <2>5. /\ s5[1] = "prepare" /\ s5[2] = "checkRun" /\ s5[3] = "createSession"
        /\ s5[4] = "checkRun" /\ s5[5] = "readRun" /\ s5[6] = "writeHandle" /\ s5[7] = "launch"
        /\ s5[8] = "awaitPod" /\ s5[9] = "readRun" /\ s5[10] = "writeHandle" /\ s5[11] = "follow"
    BY <1>3, <2>1, <2>2, <2>3, <2>4
  <2>6. s5 # RefusedScript /\ s5 # <<>> /\ Head(s5) = "prepare"
    BY SMTT(30), <2>4, <2>5 DEF RefusedScript
  <2>7. WellFormed(s5)
    BY <2>4, <2>5, <2>6 DEF WellFormed, LaunchSteps, ToLaunch
  <2>8. QED
    BY <1>2, <2>4, <2>5, <2>6, <2>7 DEF Starts, Refuses, Requeues, After, ToLaunch
<1>7. CASE ~Planned
  <2>1. s2 \in Seq(Step) /\ Len(s2) = 4 /\ \A i \in 1..4 : s2[i] = s1[i]
    BY <1>3, <1>4, <1>7
  <2>2. /\ s3 \in Seq(Step) /\ Len(s3) = 6
        /\ \A i \in 1..4 : s3[i] = s2[i]
        /\ s3[5] = "launch" /\ s3[6] = "awaitPod"
    <3>1. /\ s3 \in Seq(Step) /\ Len(s3) = Len(s2) + 2
          /\ \A i \in 1..Len(s2) : s3[i] = s2[i]
          /\ s3[Len(s2) + 1] = "launch" /\ s3[Len(s2) + 2] = "awaitPod"
      <4>1. s3 = s2 \o <<"launch", "awaitPod">> /\ s2 \in Seq(Step)
        BY <1>4, <2>1
      <4>2. QED
        BY <4>1, <1>5, AppendTwo
    <3>2. QED
      BY <3>1, <2>1
  <2>3. /\ s4 \in Seq(Step) /\ Len(s4) = 8
        /\ \A i \in 1..6 : s4[i] = s3[i]
        /\ s4[7] = "readRun" /\ s4[8] = "writeHandle"
    BY <1>4, <1>5, <2>2, AppendTwo
  <2>4. /\ s5 \in Seq(Step) /\ Len(s5) = 9
        /\ \A i \in 1..8 : s5[i] = s4[i]
        /\ s5[9] = "follow"
    BY <1>4, <1>5, <2>3, AppendOne
  <2>5. /\ s5[1] = "prepare" /\ s5[2] = "checkRun" /\ s5[3] = "createSession"
        /\ s5[4] = "checkRun" /\ s5[5] = "launch" /\ s5[6] = "awaitPod" /\ s5[7] = "readRun"
        /\ s5[8] = "writeHandle" /\ s5[9] = "follow"
    BY <1>3, <2>1, <2>2, <2>3, <2>4
  <2>6. s5 # RefusedScript /\ s5 # <<>> /\ Head(s5) = "prepare"
    BY SMTT(30), <2>4, <2>5 DEF RefusedScript
  <2>7. WellFormed(s5)
    BY <2>4, <2>5, <2>6 DEF WellFormed, LaunchSteps, ToLaunch
  <2>8. QED
    BY <1>2, <1>7, <2>4, <2>5, <2>6, <2>7 DEF Starts, Refuses, Requeues, After, ToLaunch
<1>8. QED
  BY <1>1, <1>6, <1>7

-----------------------------------------------------------------------------
(* The inductive invariant, when no process stalls. *)

Open == {"provisioning", "running"}

Shapes == \A a \in Actor : WellFormed(script[a])

\* An attempt on its way to a launch holds the claim, or its handle, and is alone; it has the
\* claim until its workspace is prepared, and a run with a handle is not stale before the launch.
Launchers ==
    /\ \A p \in Executor : Launches(script[p]) => hold \in {p, "handle"}
    /\ \A p, q \in Executor : Launches(script[p]) /\ Launches(script[q]) => p = q
    /\ \A p \in Executor : Launches(script[p]) /\ Starts(script[p], "prepare") => hold = p
    /\ stale /\ hold = "handle" => \A p \in Executor : ~Launches(script[p])

\* While somebody requeues a refused run, a next attempt is at most preparing its workspace,
\* so the refused job stays without a pod.
Requeuers ==
    /\ \A a \in Actor, p \in Executor :
           Requeues(script[a]) /\ Launches(script[p]) => Starts(script[p], "prepare")
    /\ \A a \in Actor : Refuses(script[a]) => job \notin Open

\* A planned handle is persisted before the launch.
Handles ==
    /\ Planned /\ job \in Open => hold = "handle"
    /\ Planned => \A p \in Executor : hold = "handle" \/ After("writeHandle", script[p])

\* The session is made before the launch.
Sessions ==
    /\ job \in Open => session # "none"
    /\ \A p \in Executor : session # "none" \/ After("createSession", script[p])

Control == Shapes /\ Launchers /\ Requeuers /\ Handles /\ Sessions

RunInv == TypeOK /\ Control

\* What a step leaves alone that neither claims, launches nor requeues the run.
Frame ==
    /\ hold' = hold
    /\ stale' => stale
    /\ job' \in Open => job \in Open
    /\ session # "none" => session' # "none"

LEMMA RequeuingIs == IsRequeuing <=> \E a \in Actor : Requeues(script[a])
BY DEF IsRequeuing, Requeues, Refuses, Starts, At

\* A script replaced by one that comes no closer to a launch or a requeue.
LEMMA ScriptStep ==
    ASSUME RunInv, Frame, NEW a \in Actor, NEW s,
           script' = [script EXCEPT ![a] = s],
           WellFormed(s),
           Launches(s) => /\ Launches(script[a])
                          /\ ~Starts(s, "prepare")
                          /\ Starts(script[a], "prepare") => ~IsRequeuing,
           Refuses(s) => Refuses(script[a]),
           Requeues(s) => Requeues(script[a]),
           After("createSession", script[a]) => After("createSession", s) \/ session' # "none",
           After("writeHandle", script[a]) => After("writeHandle", s) \/ hold = "handle"
    PROVE  Control'
<1>1. \A b \in Actor : script'[b] = IF b = a THEN s ELSE script[b]
  BY DEF RunInv, TypeOK
<1>2. Executor \subseteq Actor
  BY DEF Actor
<1>3. Shapes'
  BY <1>1 DEF RunInv, Control, Shapes
<1>4. \A p \in Executor : Launches(script'[p]) => Launches(script[p])
  BY <1>1, <1>2
<1>5. \A b \in Actor : /\ Refuses(script'[b]) => Refuses(script[b])
                       /\ Requeues(script'[b]) => Requeues(script[b])
  BY <1>1
<1>6. \A p \in Executor : Launches(script'[p]) /\ Starts(script'[p], "prepare")
          => Starts(script[p], "prepare")
  BY <1>1, <1>2
<1>7. Launchers'
  BY <1>4, <1>6 DEF RunInv, Control, Launchers, Frame
<1>8. Requeuers'
  <2>1. \A b \in Actor : Refuses(script'[b]) => job' \notin Open
    BY <1>5 DEF RunInv, Control, Requeuers, Frame
  <2>2. ASSUME NEW b \in Actor, NEW p \in Executor, Requeues(script'[b]), Launches(script'[p])
        PROVE  Starts(script'[p], "prepare")
    <3>1. Starts(script[p], "prepare") /\ IsRequeuing
      BY <1>4, <1>5, <2>2, RequeuingIs DEF RunInv, Control, Requeuers
    <3>2. p # a
      BY <1>1, <1>2, <2>2, <3>1
    <3>3. QED
      BY <1>1, <1>2, <3>1, <3>2
  <2>3. QED
    BY <2>1, <2>2 DEF Requeuers
<1>9. Handles'
  <2>1. Planned => \A p \in Executor : hold' = "handle" \/ After("writeHandle", script'[p])
    BY <1>1, <1>2 DEF RunInv, Control, Handles, Frame
  <2>2. QED
    BY <2>1 DEF RunInv, Control, Handles, Frame
<1>10. Sessions'
  <2>1. \A p \in Executor : session' # "none" \/ After("createSession", script'[p])
    BY <1>1, <1>2 DEF RunInv, Control, Sessions, Frame
  <2>2. QED
    BY <2>1 DEF RunInv, Control, Sessions, Frame
<1>11. QED
  BY <1>3, <1>7, <1>8, <1>9, <1>10 DEF Control

LEMMA TurnsQuiet ==
    ASSUME RunInv, Frame, NEW a \in Actor, NEW s, Turn(a, s), Quiet(s)
    PROVE  Control'
<1>1. After("createSession", s) /\ After("writeHandle", s)
  BY QuietAfter DEF Quiet
<1>2. QED
  BY <1>1, ScriptStep DEF Turn, Quiet, Requeues

LEMMA Advances ==
    ASSUME RunInv, Frame, NEW a \in Actor, NEW step, At(a, step), Advance(a),
           step \notin {"prepare", "createSession", "writeHandle"}
    PROVE  Control'
<1> DEFINE s == script[a]
<1>1. WellFormed(s) /\ s # <<>> /\ Head(s) = step /\ s \in Seq(Step)
  BY DEF RunInv, Control, Shapes, At, WellFormed
<1>2. ~Starts(s, "prepare")
  BY <1>1 DEF Starts
<1>3. /\ After("createSession", s) => After("createSession", Tail(s))
      /\ After("writeHandle", s) => After("writeHandle", Tail(s))
  BY <1>1, TailAfter
<1>4. script' = [script EXCEPT ![a] = Tail(s)]
  BY DEF Advance
<1> HIDE DEF s
<1>5. /\ WellFormed(Tail(s))
      /\ Launches(Tail(s)) => Launches(s)
      /\ ~Starts(Tail(s), "prepare")
      /\ Refuses(Tail(s)) => Refuses(s)
      /\ Requeues(Tail(s)) => Requeues(s)
  BY <1>1, TailIsWellFormed
<1>6. QED
  BY <1>2, <1>3, <1>4, <1>5, ScriptStep DEF s

-----------------------------------------------------------------------------
(* The steps that claim, prepare, launch or requeue the run. *)

LEMMA AtTail ==
    ASSUME RunInv, NEW a \in Actor, NEW step, At(a, step)
    PROVE  /\ script[a] \in Seq(Step) /\ WellFormed(script[a]) /\ Starts(script[a], step)
           /\ script[a] # <<>> /\ Head(script[a]) = step
           /\ WellFormed(Tail(script[a]))
           /\ Launches(Tail(script[a])) => Launches(script[a])
           /\ ~Starts(Tail(script[a]), "prepare")
           /\ Refuses(Tail(script[a])) => Refuses(script[a])
           /\ Requeues(Tail(script[a])) => Requeues(script[a])
<1>1. WellFormed(script[a]) /\ script[a] # <<>> /\ Head(script[a]) = step
  BY DEF RunInv, Control, Shapes, At
<1>2. QED
  BY <1>1, TailIsWellFormed DEF WellFormed, Starts

LEMMA TurnIs ==
    ASSUME TypeOK, NEW a \in Actor, NEW s, script' = [script EXCEPT ![a] = s]
    PROVE  \A b \in Actor : script'[b] = IF b = a THEN s ELSE script[b]
BY DEF TypeOK

LEMMA ClaimStep ==
    ASSUME RunInv, NEW p \in Executor, Claim(p)
    PROVE  Control'
<1>1. p \in Actor /\ Executor \subseteq Actor
  BY DEF Actor
<1>2. \A b \in Actor : script'[b] = IF b = p THEN LaunchScript ELSE script[b]
  BY <1>1, TurnIs DEF RunInv, Claim, Turn
<1>3. /\ hold = "none" /\ hold' = p /\ ~stale' /\ session' = session /\ job' = job
      /\ p # "none" /\ p # "handle"
  BY CodingRunAssumption DEF Claim
<1>4. \A q \in Executor : q # "none" /\ q # "handle" /\ ~Launches(script[q])
  BY <1>3, CodingRunAssumption DEF RunInv, Control, Launchers
<1>5. Shapes'
  BY <1>2, LaunchScriptShape DEF RunInv, Control, Shapes
<1>6. Launchers'
  BY <1>1, <1>2, <1>3, <1>4 DEF Launchers
<1>7. Requeuers'
  <2>1. \A b \in Actor : /\ Refuses(script'[b]) => Refuses(script[b])
                         /\ Requeues(script'[b]) => Requeues(script[b])
    BY <1>2, LaunchScriptShape DEF Requeues
  <2>2. QED
    BY <1>1, <1>2, <1>3, <1>4, <2>1, LaunchScriptShape DEF RunInv, Control, Requeuers
<1>8. Handles'
  <2>1. Planned => \A q \in Executor : After("writeHandle", script'[q])
    BY <1>1, <1>2, <1>4, LaunchScriptShape, QuietAfter
  <2>2. QED
    BY <1>3, <2>1 DEF RunInv, Control, Handles
<1>9. Sessions'
  <2>1. \A q \in Executor : After("createSession", script'[q])
    BY <1>1, <1>2, <1>4, LaunchScriptShape, QuietAfter
  <2>2. QED
    BY <1>3, <2>1 DEF RunInv, Control, Sessions
<1>10. QED
  BY <1>5, <1>6, <1>7, <1>8, <1>9 DEF Control

LEMMA PrepareStep ==
    ASSUME RunInv, ~Stalls, NEW p \in Executor, Prepare(p)
    PROVE  Control'
<1>1. p \in Actor
  BY DEF Actor
<1>2. Frame /\ At(p, "prepare") /\ ~IsRequeuing
  BY DEF Prepare, Frame, runVars
<1>3. CASE Advance(p)
  <2>1. /\ After("createSession", script[p]) => After("createSession", Tail(script[p]))
        /\ After("writeHandle", script[p]) => After("writeHandle", Tail(script[p]))
    BY <1>1, <1>2, AtTail, TailAfter
  <2>2. script' = [script EXCEPT ![p] = Tail(script[p])]
    BY <1>3 DEF Advance
  <2>3. QED
    BY <1>1, <1>2, <2>1, <2>2, AtTail, ScriptStep
<1>4. CASE Turn(p, CatchScript)
  BY <1>1, <1>2, <1>4, TurnsQuiet, QuietScripts
<1>5. QED
  BY <1>3, <1>4 DEF Prepare, AdvanceIf

LEMMA CreateSessionStep ==
    ASSUME RunInv, NEW p \in Executor, CreateSession(p)
    PROVE  Control'
<1>1. p \in Actor
  BY DEF Actor
<1>2. Frame /\ At(p, "createSession")
  BY DEF CreateSession, Frame
<1>3. CASE session' = "active" /\ Advance(p)
  <2>1. After("writeHandle", script[p]) => After("writeHandle", Tail(script[p]))
    BY <1>1, <1>2, AtTail, TailAfter
  <2>2. script' = [script EXCEPT ![p] = Tail(script[p])]
    BY <1>3 DEF Advance
  <2>3. ~Starts(script[p], "prepare") /\ session' # "none"
    BY <1>2, <1>3 DEF At, Starts
  <2>4. QED
    BY <1>1, <1>2, <2>1, <2>2, <2>3, AtTail, ScriptStep
<1>4. CASE Turn(p, CatchScript)
  BY <1>1, <1>2, <1>4, TurnsQuiet, QuietScripts
<1>5. QED
  BY <1>3, <1>4 DEF CreateSession

LEMMA ReadRunStep ==
    ASSUME RunInv, NEW p \in Executor, ReadRun(p)
    PROVE  Control'
<1>1. p \in Actor
  BY DEF Actor
<1>2. Frame /\ At(p, "readRun")
  BY DEF ReadRun, Frame, runVars
<1>3. CASE Turn(p, Tail(script[p]))
  BY <1>1, <1>2, <1>3, Advances DEF Turn, Advance
<1>4. CASE hold = "handle" /\ Turn(p, SubSeq(script[p], 3, Len(script[p])))
  <2> DEFINE t == Tail(script[p])
  <2>1. SubSeq(script[p], 3, Len(script[p])) = Tail(t) /\ Starts(t, "writeHandle")
    BY <1>1, <1>2, AtTail, SkipIsTails
  <2>2. WellFormed(t) /\ t # <<>> /\ t \in Seq(Step) /\ Head(t) = "writeHandle"
    BY <1>1, <1>2, <2>1, AtTail DEF WellFormed, Starts
  <2>3. /\ WellFormed(Tail(t))
        /\ Launches(Tail(t)) => Launches(t)
        /\ ~Starts(Tail(t), "prepare")
        /\ Refuses(Tail(t)) => Refuses(t)
        /\ Requeues(Tail(t)) => Requeues(t)
    BY <2>2, TailIsWellFormed
  <2>4. After("createSession", script[p]) => After("createSession", Tail(t))
    <3>1. After("createSession", script[p]) => After("createSession", t)
      BY <1>1, <1>2, AtTail, TailAfter
    <3>2. After("createSession", t) => After("createSession", Tail(t))
      BY <2>2, TailAfter
    <3>3. QED
      BY <3>1, <3>2
  <2>5. ~Starts(script[p], "prepare")
    BY <1>2 DEF At, Starts
  <2>6. script' = [script EXCEPT ![p] = Tail(t)]
    BY <1>4, <2>1 DEF Turn
  <2>7. /\ Launches(t) => Launches(script[p])
        /\ Refuses(t) => Refuses(script[p])
        /\ Requeues(t) => Requeues(script[p])
    BY <1>1, <1>2, AtTail
  <2> HIDE DEF t
  <2>8. QED
    BY <1>1, <1>2, <1>4, <2>3, <2>4, <2>5, <2>6, <2>7, ScriptStep
<1>5. CASE Turn(p, CatchScript)
  BY <1>1, <1>2, <1>5, TurnsQuiet, QuietScripts
<1>6. QED
  BY <1>3, <1>4, <1>5 DEF ReadRun

LEMMA WriteHandleStep ==
    ASSUME RunInv, NEW p \in Executor, WriteHandle(p)
    PROVE  Control'
<1>1. p \in Actor /\ Executor \subseteq Actor /\ p # "handle"
  BY CodingRunAssumption DEF Actor
<1>2. At(p, "writeHandle")
  BY DEF WriteHandle
<1>3. CASE hold = p /\ hold' = "handle" /\ ~stale' /\ Advance(p)
  <2>1. \A b \in Actor : script'[b] = IF b = p THEN Tail(script[p]) ELSE script[b]
    BY <1>1, <1>3, TurnIs DEF RunInv, Advance
  <2>2. session' = session /\ job' = job
    BY DEF WriteHandle
  <2>3. Starts(script[p], "writeHandle") /\ ~Starts(script[p], "prepare")
    BY <1>2 DEF At, Starts
  <2>4. \A b \in Actor : /\ Launches(script'[b]) => Launches(script[b])
                         /\ Refuses(script'[b]) => Refuses(script[b])
                         /\ Requeues(script'[b]) => Requeues(script[b])
                         /\ WellFormed(script'[b])
    BY <1>1, <1>2, <2>1, AtTail DEF RunInv, Control, Shapes
  <2>5. \A q \in Executor : Launches(script[q]) => q = p
    BY <1>1, <1>3 DEF RunInv, Control, Launchers
  <2>6. ~Starts(Tail(script[p]), "prepare")
    BY <1>1, <1>2, AtTail
  <2>7. Shapes'
    BY <2>4 DEF Shapes
  <2>8. Launchers'
    BY <1>1, <1>3, <2>1, <2>4, <2>5, <2>6 DEF Launchers
  <2>9. Requeuers'
    BY <1>1, <2>1, <2>2, <2>3, <2>4, <2>5 DEF RunInv, Control, Requeuers
  <2>10. Handles'
    BY <1>3, <2>2 DEF Handles
  <2>11. Sessions'
    <3>1. After("createSession", script[p]) => After("createSession", Tail(script[p]))
      BY <1>1, <1>2, AtTail, TailAfter
    <3>2. QED
      BY <1>1, <2>1, <2>2, <3>1 DEF RunInv, Control, Sessions
  <2>12. QED
    BY <2>7, <2>8, <2>9, <2>10, <2>11 DEF Control
<1>4. CASE Turn(p, CatchScript) /\ UNCHANGED <<hold, status, stale>>
  <2>1. Frame
    BY <1>4 DEF WriteHandle, Frame
  <2>2. QED
    BY <1>1, <1>4, <2>1, TurnsQuiet, QuietScripts
<1>5. QED
  BY <1>3, <1>4 DEF WriteHandle

LEMMA FirstIsNotAfter ==
    ASSUME NEW s \in Seq(Step), s # <<>>, Head(s) \in ToLaunch, NEW step, step # Head(s)
    PROVE  ~After(step, s) /\ Launches(s)
<1>1. 1 \in DOMAIN s /\ s[1] = Head(s)
  OBVIOUS
<1>2. QED
  BY <1>1 DEF After, Launches

LEMMA LaunchStep ==
    ASSUME RunInv, NEW p \in Executor, Launch(p)
    PROVE  Control'
<1>1. p \in Actor /\ Executor \subseteq Actor
  BY DEF Actor
<1>2. At(p, "launch") /\ Advance(p) /\ hold' = hold /\ stale' = stale /\ session' = session
  BY DEF Launch, runVars
<1>3. \A b \in Actor : script'[b] = IF b = p THEN Tail(script[p]) ELSE script[b]
  BY <1>1, <1>2, TurnIs DEF RunInv, Advance
<1>4. \A b \in Actor : /\ Launches(script'[b]) => Launches(script[b])
                       /\ Refuses(script'[b]) => Refuses(script[b])
                       /\ Requeues(script'[b]) => Requeues(script[b])
                       /\ WellFormed(script'[b])
  BY <1>1, <1>2, <1>3, AtTail DEF RunInv, Control, Shapes
<1>5. /\ Launches(script[p]) /\ ~After("writeHandle", script[p])
      /\ ~After("createSession", script[p])
  <2>1. script[p] \in Seq(Step) /\ script[p] # <<>> /\ Head(script[p]) = "launch"
    BY <1>1, <1>2, AtTail
  <2>2. QED
    BY SMTT(30), <2>1, FirstIsNotAfter DEF ToLaunch
<1>6. ~Starts(Tail(script[p]), "prepare") /\ ~Starts(script[p], "prepare")
  BY <1>1, <1>2, AtTail DEF At, Starts
<1>7. \A b \in Actor : ~Requeues(script[b])
  BY <1>5, <1>6 DEF RunInv, Control, Requeuers
<1>8. session # "none" /\ (Planned => hold = "handle")
  BY <1>5 DEF RunInv, Control, Handles, Sessions
<1>9. Shapes'
  BY <1>4 DEF Shapes
<1>10. Launchers'
  BY <1>1, <1>2, <1>3, <1>4, <1>6 DEF RunInv, Control, Launchers
<1>11. Requeuers'
  BY <1>4, <1>7 DEF Requeuers, Requeues
<1>12. Handles'
  BY <1>2, <1>8 DEF Handles
<1>13. Sessions'
  BY <1>2, <1>8 DEF Sessions
<1>14. QED
  BY <1>9, <1>10, <1>11, <1>12, <1>13 DEF Control

\* The refused attempt was the only one on its way to a launch.
LEMMA LaunchRefusedStep ==
    ASSUME RunInv, NEW p \in Executor, LaunchRefused(p)
    PROVE  Control'
<1>1. p \in Actor /\ Executor \subseteq Actor
  BY DEF Actor
<1>2. /\ At(p, "awaitPod") /\ Turn(p, RefusedScript) /\ job' = "requeued"
      /\ hold' = hold /\ stale' = stale /\ session' = session
  BY DEF LaunchRefused, runVars
<1>3. \A b \in Actor : script'[b] = IF b = p THEN RefusedScript ELSE script[b]
  BY <1>1, <1>2, TurnIs DEF RunInv, Turn
<1>4. Launches(script[p])
  <2>1. script[p] \in Seq(Step) /\ script[p] # <<>> /\ Head(script[p]) = "awaitPod"
    BY <1>1, <1>2, AtTail
  <2>2. QED
    BY <2>1 DEF Launches, ToLaunch
<1>5. \A q \in Executor : ~Launches(script'[q])
  BY <1>1, <1>3, <1>4, RequeueScripts DEF RunInv, Control, Launchers
<1>6. job' \notin Open
  BY <1>2 DEF Open
<1>7. Shapes'
  BY <1>3, RequeueScripts DEF RunInv, Control, Shapes
<1>8. Launchers' /\ Requeuers'
  BY <1>5, <1>6 DEF Launchers, Requeuers
<1>9. Handles' /\ Sessions'
  BY <1>5, <1>6, QuietAfter DEF Handles, Sessions
<1>10. QED
  BY <1>7, <1>8, <1>9 DEF Control

LEMMA AtRequeueIs ==
    ASSUME RunInv, NEW a \in Actor, At(a, "requeue")
    PROVE  Requeues(script[a]) /\ Refuses(script[a]) /\ job \notin Open
BY DEF RunInv, Control, Requeuers, Requeues, Refuses, Starts, At

\* Whoever owns the run it requeues leaves no attempt that could launch.
LEMMA RequeueStep ==
    ASSUME RunInv, NEW a \in Actor, Requeue(a)
    PROVE  Control'
<1>1. /\ At(a, "requeue") /\ Owns(a) /\ Advance(a) /\ job' = job /\ hold' = "none"
      /\ ~stale'
  BY DEF Requeue
<1>2. Executor \subseteq Actor
  BY DEF Actor
<1>3. \A b \in Actor : script'[b] = IF b = a THEN Tail(script[a]) ELSE script[b]
  BY <1>1, TurnIs DEF RunInv, Advance
<1>4. Requeues(script[a]) /\ job \notin Open
  BY <1>1, AtRequeueIs
<1>5. \A b \in Actor : /\ Launches(script'[b]) => Launches(script[b])
                       /\ WellFormed(script'[b])
  BY <1>1, <1>3, AtTail DEF RunInv, Control, Shapes
<1>6. ~Starts(script[a], "prepare")
  BY <1>1 DEF At, Starts
<1>7. ASSUME NEW q \in Executor, Launches(script[q])
      PROVE  FALSE
  <2>1. Starts(script[q], "prepare") /\ hold = q
    BY <1>4, <1>7 DEF RunInv, Control, Launchers, Requeuers
  <2>2. hold = a
    BY <1>1, <2>1, CodingRunAssumption DEF Owns
  <2>3. QED
    BY <1>6, <2>1, <2>2
<1>8. \A q \in Executor : ~Launches(script'[q])
  BY <1>2, <1>5, <1>7
<1>9. Shapes'
  BY <1>5 DEF Shapes
<1>10. Launchers' /\ Requeuers'
  BY <1>1, <1>4, <1>8 DEF Launchers, Requeuers
<1>11. Handles' /\ Sessions'
  BY <1>1, <1>4, <1>8, QuietAfter DEF Handles, Sessions
<1>12. QED
  BY <1>9, <1>10, <1>11 DEF Control

LEMMA PickStaleStep ==
    ASSUME RunInv, PickStale
    PROVE  Control'
<1> USE DEF Actor
<1>1. Frame
  BY DEF PickStale, Frame, runVars
<1>2. CASE Turn(Reconciler, <<"sweep">>) \/ Turn(Reconciler, <<"recoverClaim">>)
  BY <1>1, <1>2, TurnsQuiet, QuietScripts
<1>3. CASE stale /\ hold = "handle" /\ Turn(Reconciler, <<"recoverHandle">>)
  <2>1. \A b \in Actor : script'[b] = IF b = Reconciler THEN <<"recoverHandle">> ELSE script[b]
    BY <1>3, TurnIs DEF RunInv, Turn
  <2>2. \A q \in Executor : ~Launches(script'[q])
    BY <1>3, <2>1, RequeueScripts DEF RunInv, Control, Launchers
  <2>3. \A b \in Actor : Refuses(script'[b]) => Refuses(script[b])
    BY <2>1, RequeueScripts
  <2>4. hold' = hold /\ stale' = stale /\ job' = job /\ session' = session
    BY DEF PickStale, runVars
  <2>5. Shapes'
    BY <2>1, RequeueScripts DEF RunInv, Control, Shapes
  <2>6. Launchers' /\ Requeuers'
    BY <2>2, <2>3, <2>4 DEF RunInv, Control, Launchers, Requeuers
  <2>7. Handles' /\ Sessions'
    BY <2>2, <2>4, QuietAfter DEF RunInv, Control, Handles, Sessions
  <2>8. QED
    BY <2>5, <2>6, <2>7 DEF Control
<1>4. QED
  BY <1>2, <1>3 DEF PickStale

LEMMA InspectStep ==
    ASSUME RunInv, Inspect
    PROVE  Control'
<1> USE DEF Actor
<1>1. Frame /\ At(Reconciler, "inspect")
  BY DEF Inspect, Frame, runVars
<1>2. CASE \/ Turn(Reconciler, AbandonScript) \/ Turn(Reconciler, <<"heartbeat">>)
           \/ Turn(Reconciler, FinishScript \o <<"sweep">>)
  BY <1>1, <1>2, TurnsQuiet, QuietScripts
<1>3. CASE job = "requeued" /\ Turn(Reconciler, <<"requeue", "heartbeat">>)
  <2> DEFINE s == <<"requeue", "heartbeat">>
  <2>1. \A b \in Actor : script'[b] = IF b = Reconciler THEN s ELSE script[b]
    BY <1>3, TurnIs DEF RunInv, Turn
  <2>2. Requeues(script[Reconciler])
    BY <1>1 DEF At, Starts, Requeues
  <2>3. WellFormed(s) /\ ~Launches(s)
    BY RequeueScripts
  <2> HIDE DEF s
  <2>4. \A b \in Actor : /\ Launches(script'[b]) => Launches(script[b])
                         /\ Requeues(script'[b]) => Requeues(script[b])
                         /\ WellFormed(script'[b])
    BY <2>1, <2>2, <2>3 DEF RunInv, Control, Shapes
  <2>5. \A q \in Executor : script'[q] = script[q]
    BY <2>1, CodingRunAssumption
  <2>6. hold' = hold /\ stale' = stale /\ job' = job /\ session' = session /\ job \notin Open
    BY <1>3 DEF Inspect, runVars, Open
  <2>7. Shapes'
    BY <2>4 DEF Shapes
  <2>8. Launchers' /\ Requeuers'
    BY <2>4, <2>5, <2>6 DEF RunInv, Control, Launchers, Requeuers
  <2>9. Handles' /\ Sessions'
    BY <2>5, <2>6 DEF RunInv, Control, Handles, Sessions
  <2>10. QED
    BY <2>7, <2>8, <2>9 DEF Control
<1>4. QED
  BY <1>2, <1>3 DEF Inspect

\* Every step of a launch but the preparation beats the heartbeat, and an attempt that
\* still prepares has no handle.
LEMMA HeartbeatExpiresStep ==
    ASSUME RunInv, ~Stalls, HeartbeatExpires
    PROVE  Control'
<1>1. Executor \subseteq Actor
  BY DEF Actor
<1>2. ASSUME hold = "handle", NEW q \in Executor, Launches(script[q])
      PROVE  FALSE
  <2>1. ~Starts(script[q], "prepare")
    BY <1>2, CodingRunAssumption DEF RunInv, Control, Launchers
  <2>2. WellFormed(script[q])
    BY <1>1 DEF RunInv, Control, Shapes
  <2>3. script[q] # <<>> /\ Head(script[q]) \in LaunchSteps
    <3>1. PICK i \in DOMAIN script[q] : script[q][i] \in ToLaunch
      BY <1>2 DEF Launches
    <3>2. script[q] \in Seq(Step) /\ i \in 1..Len(script[q]) /\ 1 <= i /\ 1 \in 1..Len(script[q])
      BY <2>2, <3>1 DEF WellFormed
    <3>3. script[q][1] \in LaunchSteps
      BY <2>2, <3>1, <3>2 DEF WellFormed
    <3>4. QED
      BY <3>2, <3>3
  <2>4. IsPrompt(q)
    BY <2>1, <2>3 DEF IsPrompt, LaunchSteps, ToLaunch, At, Starts
  <2>5. QED
    BY <2>4 DEF HeartbeatExpires
<1>3. hold' = hold /\ job' = job /\ session' = session /\ script' = script
  BY DEF HeartbeatExpires
<1>4. Launchers'
  BY <1>2, <1>3 DEF RunInv, Control, Launchers
<1>5. QED
  BY <1>3, <1>4 DEF RunInv, Control, Shapes, Requeuers, Handles, Sessions

-----------------------------------------------------------------------------
(* The other steps. *)

LEMMA AttemptKeepsControl ==
    ASSUME RunInv, ~Stalls, NEW p \in Executor, Start(p) \/ AttemptStep(p) \/ Heartbeat(p)
    PROVE  Control'
<1>1. p \in Actor
  BY DEF Actor
<1>2. CASE Start(p)
  BY <1>1, <1>2, TurnsQuiet, QuietScripts DEF Start, Frame, runVars
<1>3. CASE LoadRun(p)
  <2>1. Frame
    BY <1>3 DEF LoadRun, Frame, runVars
  <2>2. \E s \in {CleanupScript, <<>>, <<"prepare", "follow">>, <<"claim">>, CatchScript} : Turn(p, s)
    BY <1>3 DEF LoadRun
  <2>3. QED
    BY <1>1, <2>1, <2>2, TurnsQuiet, QuietScripts
<1>4. CASE ClaimRefused(p)
  BY <1>1, <1>4, Advances DEF ClaimRefused, Frame
<1>5. CASE CheckRun(p)
  <2>1. Frame /\ At(p, "checkRun")
    BY <1>5 DEF CheckRun, Frame, runVars
  <2>2. Advance(p) \/ Turn(p, CatchScript)
    BY <1>5 DEF CheckRun, AdvanceIf
  <2>3. QED
    BY <1>1, <2>1, <2>2, Advances, TurnsQuiet, QuietScripts
<1>6. CASE Launched(p)
  BY <1>1, <1>6, Advances DEF Launched, Frame, runVars, Open
<1>7. CASE LaunchFailed(p)
  BY <1>1, <1>7, TurnsQuiet, QuietScripts DEF LaunchFailed, Frame, runVars, Open
<1>8. CASE JobSeenAlive(p)
  BY <1>1, <1>8, TurnsQuiet, QuietScripts DEF JobSeenAlive, Frame
<1>9. CASE JobSeenEnded(p)
  BY <1>1, <1>9, TurnsQuiet, QuietScripts DEF JobSeenEnded, Frame, runVars
<1>10. CASE Reload(p)
  <2>1. Frame /\ At(p, "reload")
    BY <1>10 DEF Reload, Frame, runVars
  <2>2. Advance(p) \/ Turn(p, <<>>)
    BY <1>10 DEF Reload, AdvanceIf
  <2>3. QED
    BY <1>1, <2>1, <2>2, Advances, TurnsQuiet, QuietScripts
<1>11. CASE Heartbeat(p)
  BY <1>11 DEF Heartbeat, RunInv, Control, Shapes, Launchers, Requeuers, Handles, Sessions
<1>12. QED
  BY <1>2, <1>3, <1>4, <1>5, <1>6, <1>7, <1>8, <1>9, <1>10, <1>11, ClaimStep, PrepareStep,
     CreateSessionStep, ReadRunStep, WriteHandleStep, LaunchStep, LaunchRefusedStep
     DEF AttemptStep

LEMMA SharedKeepsControl ==
    ASSUME RunInv, NEW a \in Actor, SharedStep(a) \/ Crash(a)
    PROVE  Control'
<1>1. CASE CancelSession(a) \/ StopJob(a) \/ RemoveJob(a)
  <2>1. Frame
    BY <1>1 DEF CancelSession, StopJob, RemoveJob, Frame, runVars, Open
  <2>2. Advance(a) /\ \E step \in {"cancelSession", "stopJob", "removeJob"} : At(a, step)
    BY <1>1 DEF CancelSession, StopJob, RemoveJob
  <2>3. QED
    BY <2>1, <2>2, Advances
<1>2. CASE Fail(a)
  <2>1. Frame
    BY <1>2 DEF Fail, Terminate, Frame
  <2>2. Advance(a) /\ At(a, "fail")
    BY <1>2 DEF Fail, Terminate
  <2>3. QED
    BY <2>1, <2>2, Advances
<1>3. CASE RequeueNotOwned(a)
  <2>1. Frame /\ At(a, "requeue")
    BY <1>3 DEF RequeueNotOwned, Frame, runVars
  <2>2. Advance(a) \/ Turn(a, <<"heartbeat">>) \/ Turn(a, CleanupScript)
    BY <1>3 DEF RequeueNotOwned
  <2>3. QED
    BY <2>1, <2>2, Advances, TurnsQuiet, QuietScripts
<1>4. CASE RequeueSpent(a)
  <2>1. Frame
    BY <1>4 DEF RequeueSpent, Frame, runVars
  <2>2. Turn(a, AbandonScript) \/ Turn(a, CatchScript)
    BY <1>4 DEF RequeueSpent
  <2>3. QED
    BY <2>1, <2>2, TurnsQuiet, QuietScripts
<1>5. CASE Collect(a)
  <2>1. Frame /\ At(a, "collect")
    BY <1>5 DEF Collect, Frame, runVars
  <2>2. Advance(a) \/ Turn(a, FinishErrorScript) \/ Turn(a, WithoutPush)
    BY <1>5 DEF Collect, AdvanceIf
  <2>3. QED
    BY <2>1, <2>2, Advances, TurnsQuiet, QuietScripts
<1>6. CASE CheckActive(a) \/ NoChanges(a)
  <2>1. Frame /\ At(a, "checkActive")
    BY <1>6 DEF CheckActive, NoChanges, Frame, runVars
  <2>2. Advance(a) \/ Turn(a, <<"removeJob">>) \/ Turn(a, WithoutPush)
    BY <1>6 DEF CheckActive, NoChanges, AdvanceIf
  <2>3. QED
    BY <2>1, <2>2, Advances, TurnsQuiet, QuietScripts
<1>7. CASE Push(a)
  <2>1. Frame /\ At(a, "push")
    BY <1>7 DEF Push, Frame, runVars
  <2>2. Advance(a) \/ Turn(a, FinishErrorScript) \/ Turn(a, WithoutPush)
    BY <1>7 DEF Push
  <2>3. QED
    BY <2>1, <2>2, Advances, TurnsQuiet, QuietScripts
<1>8. CASE ReadResult(a)
  <2>1. Frame /\ At(a, "readResult")
    BY <1>8 DEF ReadResult, Frame, runVars
  <2>2. Advance(a) \/ Turn(a, <<"removeJob">>) \/ Turn(a, FinishErrorScript)
    <3>1. Turn(a, Tail(script[a])) \/ Turn(a, <<"removeJob">>) \/ Turn(a, FinishErrorScript)
      BY <1>8 DEF ReadResult
    <3>2. QED
      BY <3>1 DEF Turn, Advance
  <2>3. QED
    BY <2>1, <2>2, Advances, TurnsQuiet, QuietScripts
<1>9. CASE WriteResult(a)
  BY <1>9, Advances DEF WriteResult, Frame
<1>10. CASE Crash(a)
  BY <1>10, TurnsQuiet, QuietScripts DEF Crash, Frame, runVars
<1>11. QED
  BY <1>1, <1>2, <1>3, <1>4, <1>5, <1>6, <1>7, <1>8, <1>9, <1>10, RequeueStep DEF SharedStep

LEMMA StopKeepsControl ==
    ASSUME RunInv, RequestStop \/ LoadStop \/ Cancel \/ CancelPending
    PROVE  Control'
<1> USE DEF Actor
<1>1. Frame
  BY DEF RequestStop, LoadStop, Cancel, CancelPending, Terminate, Frame, runVars
<1>2. \/ \E s \in {<<"stop">>, StopScript \o <<"cancelPending">>,
                   CleanupScript \o <<"cancelPending">>, <<"cancelPending">>} : Turn(Stopper, s)
      \/ Advance(Stopper) /\ (At(Stopper, "cancel") \/ At(Stopper, "cancelPending"))
  BY DEF RequestStop, LoadStop, Cancel, CancelPending, Terminate
<1>3. QED
  BY <1>1, <1>2, Advances, TurnsQuiet, QuietScripts

LEMMA RecoveryKeepsControl ==
    ASSUME RunInv, RecoverClaim \/ RecoverHandle \/ KeepAlive \/ Lose \/ Sweep
    PROVE  Control'
<1> USE DEF Actor
<1>1. Frame
  BY DEF RecoverClaim, RecoverHandle, KeepAlive, Lose, Sweep, Terminate, Frame, runVars
<1>2. CASE At(Reconciler, "recoverHandle") /\ Turn(Reconciler, <<"inspect">>)
  <2> DEFINE s == <<"inspect">>
  <2>1. Requeues(script[Reconciler])
    BY <1>2 DEF At, Starts, Requeues
  <2>2. WellFormed(s) /\ ~Launches(s) /\ ~Refuses(s)
    BY RequeueScripts
  <2>3. After("createSession", s) /\ After("writeHandle", s)
    BY <2>2, QuietAfter
  <2>4. script' = [script EXCEPT ![Reconciler] = s]
    BY <1>2 DEF Turn
  <2> HIDE DEF s
  <2>5. QED
    BY <1>1, <2>1, <2>2, <2>3, <2>4, ScriptStep
<1>3. CASE \/ Turn(Reconciler, AbandonScript) \/ Turn(Reconciler, CleanupScript)
           \/ /\ Advance(Reconciler)
              /\ \E step \in {"heartbeat", "lose", "sweep"} : At(Reconciler, step)
  BY <1>1, <1>3, Advances, TurnsQuiet, QuietScripts
<1>4. QED
  BY <1>2, <1>3 DEF RecoverClaim, RecoverHandle, KeepAlive, Lose, Sweep, Terminate

LEMMA ControlStep ==
    ASSUME RunInv, ~Stalls, Next
    PROVE  Control'
<1>1. CASE JobEnds
  <2>1. /\ hold' = hold /\ stale' = stale /\ session' = session /\ script' = script
        /\ job' \in Open => job \in Open
    BY <1>1 DEF JobEnds, runVars, Open
  <2>2. QED
    BY <2>1 DEF RunInv, Control, Shapes, Launchers, Requeuers, Handles, Sessions
<1>2. CASE Finished
  BY <1>2 DEF Finished, vars, runVars, RunInv, Control, Shapes, Launchers, Requeuers, Handles, Sessions
<1>3. QED
  BY <1>1, <1>2, AttemptKeepsControl, SharedKeepsControl, StopKeepsControl, RecoveryKeepsControl,
     PickStaleStep, InspectStep, HeartbeatExpiresStep DEF Next, RecoveryStep

-----------------------------------------------------------------------------
(* Types. *)


\* A method's script, or what is left of one.
IsScript(s) == s \in Seq(Step)

LEMMA ScriptTypes ==
    /\ IsScript(<<>>) /\ IsScript(<<"load">>) /\ IsScript(<<"claim">>)
    /\ IsScript(<<"prepare", "follow">>) /\ IsScript(CatchScript) /\ IsScript(CleanupScript)
    /\ IsScript(AbandonScript) /\ IsScript(FinishErrorScript) /\ IsScript(WithoutPush)
    /\ IsScript(<<"removeJob">>) /\ IsScript(<<"reload", "follow">>) /\ IsScript(FinishScript)
    /\ IsScript(FinishScript \o <<"sweep">>) /\ IsScript(<<"stop">>) /\ IsScript(<<"cancelPending">>)
    /\ IsScript(<<"sweep">>) /\ IsScript(<<"heartbeat">>) /\ IsScript(<<"recoverClaim">>)
    /\ IsScript(StopScript \o <<"cancelPending">>) /\ IsScript(CleanupScript \o <<"cancelPending">>)
    /\ IsScript(LaunchScript) /\ IsScript(RefusedScript) /\ IsScript(<<"requeue", "heartbeat">>)
    /\ IsScript(<<"recoverHandle">>) /\ IsScript(<<"inspect">>)
BY QuietScripts, LaunchScriptShape, RequeueScripts DEF Quiet, WellFormed, IsScript

LEMMA TurnIsTyped ==
    ASSUME TypeOK, NEW a \in Actor
    PROVE  /\ \A s : IsScript(s) /\ Turn(a, s) => script' \in [Actor -> Seq(Step)]
           /\ \A step : At(a, step) /\ Advance(a) => script' \in [Actor -> Seq(Step)]
           /\ \A step : At(a, step) => IsScript(Tail(script[a]))
<1>1. script[a] \in Seq(Step)
  BY DEF TypeOK
<1>2. script[a] # <<>> => Tail(script[a]) \in Seq(Step)
  BY <1>1
<1>3. QED
  BY <1>2 DEF TypeOK, Turn, Advance, IsScript, At

ScriptsTyped == script \in [Actor -> Seq(Step)]

\* The rest of the state.
ValuesTyped ==
    /\ status \in Status /\ queued \in BOOLEAN /\ hold \in {"none", "handle"} \cup Executor
    /\ session \in {"none", "active", "cancelled"} /\ stale \in BOOLEAN
    /\ job \in Job /\ pushed \in BOOLEAN

LEMMA TypeParts ==
    /\ TypeOK => ValuesTyped
    /\ /\ ValuesTyped' /\ ScriptsTyped'
       /\ knows' \in [Actor -> [session : BOOLEAN, handle : BOOLEAN]]
       => TypeOK'
BY DEF TypeOK, ValuesTyped, ScriptsTyped

LEMMA LoadIsTyped ==
    ASSUME TypeOK, NEW a \in Actor, Load(a)
    PROVE  knows' \in [Actor -> [session : BOOLEAN, handle : BOOLEAN]]
BY DEF TypeOK, Load

LEMMA AttemptTypes ==
    ASSUME TypeOK, NEW p \in Executor, Start(p) \/ AttemptStep(p) \/ Heartbeat(p)
    PROVE  TypeOK'
<1>1. p \in Actor
  BY DEF Actor
<1> USE DEF Status, Job, EndedJob, Terminal
<1>2. ScriptsTyped'
  <2>1. CASE ReadRun(p)
    <3>1. script[p] # <<>> /\ script[p] \in Seq(Step)
      BY <1>1, <2>1 DEF ReadRun, At, TypeOK
    <3>2. SubSeq(script[p], 3, Len(script[p])) \in Seq(Step)
      BY <3>1
    <3>3. \E s \in Seq(Step) : Turn(p, s)
      BY <1>1, <2>1, <3>2, ScriptTypes, TurnIsTyped DEF ReadRun, IsScript
    <3>4. QED
      BY <1>1, <3>3, TurnIsTyped DEF IsScript, ScriptsTyped
  <2>2. CASE Start(p) \/ LoadRun(p) \/ Claim(p) \/ ClaimRefused(p)
    <3>1. \/ Advance(p) /\ At(p, "claim")
          \/ \E s \in {<<"load">>, CleanupScript, <<>>, <<"prepare", "follow">>, <<"claim">>,
                       CatchScript, LaunchScript} : Turn(p, s)
      BY <2>2 DEF Start, LoadRun, Claim, ClaimRefused
    <3>2. QED
      BY <1>1, <3>1, ScriptTypes, TurnIsTyped DEF ScriptsTyped
  <2>3. CASE Prepare(p) \/ CheckRun(p) \/ CreateSession(p) \/ WriteHandle(p)
    <3>1. \/ /\ Advance(p)
             /\ \E step \in {"prepare", "checkRun", "createSession", "writeHandle"} : At(p, step)
          \/ Turn(p, CatchScript)
      BY <2>3 DEF Prepare, CheckRun, CreateSession, WriteHandle, AdvanceIf
    <3>2. QED
      BY <1>1, <3>1, ScriptTypes, TurnIsTyped DEF ScriptsTyped
  <2>4. CASE Launch(p) \/ Launched(p) \/ LaunchFailed(p) \/ LaunchRefused(p)
    <3>1. \/ Advance(p) /\ (At(p, "launch") \/ At(p, "awaitPod"))
          \/ Turn(p, CatchScript) \/ Turn(p, RefusedScript)
      BY <2>4 DEF Launch, Launched, LaunchFailed, LaunchRefused
    <3>2. QED
      BY <1>1, <3>1, ScriptTypes, TurnIsTyped DEF ScriptsTyped
  <2>5. CASE JobSeenAlive(p) \/ JobSeenEnded(p) \/ Reload(p)
    <3>1. \/ Advance(p) /\ At(p, "reload")
          \/ \E s \in {<<"reload", "follow">>, CatchScript, FinishScript, <<>>} : Turn(p, s)
      BY <2>5 DEF JobSeenAlive, JobSeenEnded, Reload, AdvanceIf
    <3>2. QED
      BY <1>1, <3>1, ScriptTypes, TurnIsTyped DEF ScriptsTyped
  <2>6. CASE Heartbeat(p)
    BY <2>6 DEF Heartbeat, TypeOK, ScriptsTyped
  <2>7. QED
    BY <2>1, <2>2, <2>3, <2>4, <2>5, <2>6 DEF AttemptStep
<1>3. knows' \in [Actor -> [session : BOOLEAN, handle : BOOLEAN]]
  <2>1. knows' = knows \/ Load(p) \/ \E f \in {"session", "handle"} : knows' = [knows EXCEPT ![p][f] = TRUE]
    BY DEF Start, AttemptStep, Heartbeat, LoadRun, Claim, ClaimRefused, Prepare, CheckRun,
           CreateSession, ReadRun, WriteHandle, Launch, Launched, LaunchFailed, LaunchRefused,
           JobSeenAlive, JobSeenEnded, Reload
  <2>2. QED
    BY <1>1, <2>1, LoadIsTyped DEF TypeOK
<1>4. ValuesTyped
  BY TypeParts
<1>5. ValuesTyped'
  <2>1. CASE Start(p) \/ LoadRun(p) \/ Prepare(p) \/ CheckRun(p) \/ ReadRun(p) \/ JobSeenEnded(p)
             \/ Reload(p) \/ Heartbeat(p) \/ JobSeenAlive(p)
    BY <1>4, <2>1 DEF ValuesTyped, Start, LoadRun, Prepare, CheckRun, ReadRun, JobSeenEnded, Reload,
       Heartbeat, JobSeenAlive, runVars
  <2>2. CASE Claim(p) \/ ClaimRefused(p) \/ WriteHandle(p) \/ CreateSession(p)
    BY <1>4, <2>2 DEF ValuesTyped, Claim, ClaimRefused, WriteHandle, CreateSession
  <2>3. CASE Launch(p) \/ Launched(p) \/ LaunchFailed(p) \/ LaunchRefused(p)
    BY <1>4, <2>3 DEF ValuesTyped, Launch, Launched, LaunchFailed, LaunchRefused, runVars
  <2>4. QED
    BY <2>1, <2>2, <2>3 DEF AttemptStep
<1>6. QED
  BY <1>2, <1>3, <1>5, TypeParts

LEMMA SharedTypes ==
    ASSUME TypeOK, NEW a \in Actor, SharedStep(a) \/ Crash(a)
    PROVE  TypeOK'
<1> USE DEF Status, Job, EndedJob, Terminal
<1>1. ScriptsTyped'
  <2>1. \/ Advance(a) /\ \E step \in Step : At(a, step)
        \/ \E s \in {<<"heartbeat">>, CleanupScript, AbandonScript, CatchScript, FinishErrorScript,
                     WithoutPush, <<"removeJob">>, <<>>} : Turn(a, s)
        \/ Turn(a, Tail(script[a])) /\ At(a, "readResult")
    <3>1. CASE CancelSession(a) \/ StopJob(a) \/ RemoveJob(a) \/ Fail(a) \/ WriteResult(a)
      BY <3>1 DEF CancelSession, StopJob, RemoveJob, Fail, WriteResult, Terminate, Step
    <3>2. CASE Requeue(a) \/ RequeueNotOwned(a) \/ RequeueSpent(a)
      BY <3>2 DEF Requeue, RequeueNotOwned, RequeueSpent, Step
    <3>3. CASE Collect(a) \/ CheckActive(a) \/ NoChanges(a)
      BY <3>3 DEF Collect, CheckActive, NoChanges, AdvanceIf, Step
    <3>4. CASE Push(a) \/ ReadResult(a) \/ Crash(a)
      BY <3>4 DEF Push, ReadResult, Crash, Step
    <3>5. QED
      BY <3>1, <3>2, <3>3, <3>4 DEF SharedStep
  <2>2. QED
    BY <2>1, ScriptTypes, TurnIsTyped DEF ScriptsTyped
<1>2. knows' \in [Actor -> [session : BOOLEAN, handle : BOOLEAN]]
  <2>1. knows' = knows \/ Load(a) \/ knows' = [knows EXCEPT ![a].handle = TRUE]
            \/ knows' = [knows EXCEPT ![a] = KnowsNothing]
    BY DEF SharedStep, Crash, CancelSession, StopJob, RemoveJob, Fail, WriteResult, Requeue,
           RequeueNotOwned, RequeueSpent, Collect, CheckActive, NoChanges, Push, ReadResult
  <2>2. QED
    <3>1. CASE knows' = [knows EXCEPT ![a].handle = TRUE]
      BY <3>1 DEF TypeOK
    <3>2. CASE knows' = [knows EXCEPT ![a] = KnowsNothing]
      <4>1. KnowsNothing \in [session : BOOLEAN, handle : BOOLEAN]
        BY DEF KnowsNothing
      <4>2. QED
        BY <3>2, <4>1 DEF TypeOK
    <3>3. QED
      BY <2>1, <3>1, <3>2, LoadIsTyped DEF TypeOK
<1>3. ValuesTyped
  BY TypeParts
<1>4. ValuesTyped'
  <2>1. CASE StopJob(a) \/ RemoveJob(a) \/ CancelSession(a)
    BY <1>3, <2>1 DEF ValuesTyped, CancelSession, StopJob, RemoveJob, runVars
  <2>2. CASE Fail(a) \/ WriteResult(a) \/ Requeue(a) \/ Push(a)
    BY <1>3, <2>2 DEF ValuesTyped, Fail, Terminate, WriteResult, Requeue, Push, runVars
  <2>3. CASE \/ RequeueNotOwned(a) \/ RequeueSpent(a) \/ Collect(a) \/ CheckActive(a) \/ NoChanges(a)
             \/ ReadResult(a) \/ Crash(a)
    BY <1>3, <2>3 DEF ValuesTyped, RequeueNotOwned, RequeueSpent, Collect, CheckActive, NoChanges,
       ReadResult, Crash, runVars
  <2>4. QED
    BY <2>1, <2>2, <2>3 DEF SharedStep
<1>5. QED
  BY <1>1, <1>2, <1>4, TypeParts

LEMMA OtherTypes ==
    ASSUME TypeOK, \/ RequestStop \/ LoadStop \/ Cancel \/ CancelPending
                   \/ PickStale \/ RecoveryStep \/ HeartbeatExpires \/ JobEnds \/ Finished
    PROVE  TypeOK'
<1> USE DEF Status, Job, EndedJob, Terminal, Actor
<1>1. ScriptsTyped'
  <2>1. CASE RequestStop \/ LoadStop \/ Cancel \/ CancelPending
    <3>1. \/ Advance(Stopper) /\ \E step \in Step : At(Stopper, step)
          \/ \E s \in {<<"stop">>, StopScript \o <<"cancelPending">>,
                       CleanupScript \o <<"cancelPending">>, <<"cancelPending">>} : Turn(Stopper, s)
      BY <2>1 DEF RequestStop, LoadStop, Cancel, CancelPending, Terminate, Step
    <3>2. QED
      BY <3>1, ScriptTypes, TurnIsTyped DEF ScriptsTyped
  <2>2. CASE PickStale \/ RecoveryStep
    <3>1. \/ Advance(Reconciler) /\ \E step \in Step : At(Reconciler, step)
          \/ \E s \in {<<"sweep">>, <<"recoverHandle">>, <<"recoverClaim">>, AbandonScript,
                       CleanupScript, <<"inspect">>, <<"requeue", "heartbeat">>, <<"heartbeat">>,
                       FinishScript \o <<"sweep">>} : Turn(Reconciler, s)
      BY <2>2 DEF PickStale, RecoveryStep, RecoverClaim, RecoverHandle, Inspect, KeepAlive, Lose,
                  Sweep, Terminate, Step
    <3>2. QED
      BY <3>1, ScriptTypes, TurnIsTyped DEF ScriptsTyped
  <2>3. CASE HeartbeatExpires \/ JobEnds \/ Finished
    BY <2>3 DEF HeartbeatExpires, JobEnds, Finished, vars, TypeOK, ScriptsTyped
  <2>4. QED
    BY <2>1, <2>2, <2>3
<1>2. knows' \in [Actor -> [session : BOOLEAN, handle : BOOLEAN]]
  <2>1. knows' = knows \/ Load(Stopper) \/ Load(Reconciler)
    BY DEF RequestStop, LoadStop, Cancel, CancelPending, PickStale, RecoveryStep, RecoverClaim,
           RecoverHandle, Inspect, KeepAlive, Lose, Sweep, HeartbeatExpires, JobEnds, Finished, vars
  <2>2. QED
    BY <2>1, LoadIsTyped DEF TypeOK
<1>3. ValuesTyped
  BY TypeParts
<1>4. ValuesTyped'
  <2>1. CASE RequestStop \/ LoadStop \/ Cancel \/ CancelPending
    <3>1. /\ queued' = queued /\ hold' = hold /\ session' = session /\ job' = job
          /\ pushed' = pushed /\ stale' \in {stale, FALSE}
      BY <2>1 DEF RequestStop, LoadStop, Cancel, CancelPending, Terminate, runVars
    <3>2. status' \in {status, "cancelled"}
      BY <2>1 DEF RequestStop, LoadStop, Cancel, CancelPending, Terminate, runVars
    <3>3. status' \in Status /\ stale' \in BOOLEAN
      BY <1>3, <3>1, <3>2 DEF ValuesTyped
    <3>4. QED
      BY <1>3, <3>1, <3>3, Zenon DEF ValuesTyped
  <2>2. CASE PickStale \/ RecoveryStep
    <3>1. /\ queued' = queued /\ hold' = hold /\ session' = session /\ job' = job
          /\ pushed' = pushed
          /\ stale' \in {stale, FALSE}
          /\ status' \in {status, "lost"}
      BY <2>2 DEF PickStale, RecoveryStep, RecoverClaim, RecoverHandle, Inspect, KeepAlive, Lose,
                  Sweep, Terminate, runVars
    <3>2. status' \in Status /\ stale' \in BOOLEAN
      BY <1>3, <3>1 DEF ValuesTyped
    <3>3. QED
      BY <1>3, <3>1, <3>2, Zenon DEF ValuesTyped
  <2>3. CASE HeartbeatExpires \/ JobEnds \/ Finished
    BY <1>3, <2>3 DEF ValuesTyped, HeartbeatExpires, JobEnds, Finished, vars, runVars
  <2>4. QED
    BY <2>1, <2>2, <2>3
<1>5. QED
  BY <1>1, <1>2, <1>4, TypeParts

LEMMA TypeStep ==
    ASSUME TypeOK, [Next]_vars
    PROVE  TypeOK'
BY AttemptTypes, SharedTypes, OtherTypes DEF Next, vars, runVars, TypeOK
-----------------------------------------------------------------------------
(* Theorems. *)

LEMMA InitialTypes ==
    ASSUME Init
    PROVE  TypeOK
BY ScriptTypes DEF Init, TypeOK, Status, Job, KnowsNothing, IsScript

\* Every variable of a run keeps its type; what is left of a script is a sequence of the
\* awaited calls of container.ts.
THEOREM RunTypeCorrect == Spec => []TypeOK
<1>1. Init => TypeOK
  BY InitialTypes
<1>2. TypeOK /\ [Next]_vars => TypeOK'
  BY TypeStep
<1>3. QED
  BY <1>1, <1>2, PTL DEF Spec

LEMMA InitialRunInv == Init => RunInv
<1> SUFFICES ASSUME Init PROVE RunInv
  OBVIOUS
<1>1. TypeOK
  BY InitialTypes
<1>2. \A a \in Actor : Quiet(script[a])
  BY QuietScripts DEF Init
<1>3. \A p \in Executor : Quiet(script[p])
  BY <1>2 DEF Actor
<1>4. \A a \in Actor : ~Requeues(script[a]) /\ ~Refuses(script[a])
  BY <1>2 DEF Quiet, Requeues
<1>5. job \notin Open /\ hold = "none"
  BY DEF Init, Open
<1>6. Shapes /\ Launchers /\ Requeuers
  BY <1>2, <1>3, <1>4, <1>5 DEF Shapes, Launchers, Requeuers, Quiet
<1>7. Handles /\ Sessions
  BY <1>3, <1>5, QuietAfter DEF Handles, Sessions, Quiet
<1>8. QED
  BY <1>1, <1>6, <1>7 DEF RunInv, Control

LEMMA RunInvStep == ~Stalls /\ RunInv /\ [Next]_vars => RunInv'
<1>1. CASE UNCHANGED vars
  BY <1>1 DEF vars, runVars, RunInv, TypeOK, Control, Shapes, Launchers, Requeuers, Handles, Sessions
<1>2. QED
  BY <1>1, ControlStep, TypeStep DEF RunInv

LEMMA RunInvariant ==
    ASSUME ~Stalls
    PROVE  Spec => []RunInv
<1>1. RunInv /\ [Next]_vars => RunInv'
  BY RunInvStep
<1>2. QED
  BY <1>1, InitialRunInv, PTL DEF Spec

\* At most one attempt is between its claim and its launch, however many processes claim,
\* requeue and recover the run, and whichever of them die: a run never has two workers.
THEOREM LaunchesAreAlone ==
    ASSUME ~Stalls
    PROVE  Spec => []OneLauncher
<1>1. RunInv => OneLauncher
  BY DEF RunInv, Control, Launchers, OneLauncher, IsLaunching, Launches, ToLaunch
<1>2. QED
  BY <1>1, RunInvariant, PTL

\* A planned job that awaits its pod, or runs, is found through the run's handle: persistHandle
\* comes before the launch, and only a run whose job never started loses its handle.
THEOREM PodsAreReachable ==
    ASSUME ~Stalls
    PROVE  Spec => []PodIsReachable
<1>1. RunInv => PodIsReachable
  BY DEF RunInv, Control, Handles, PodIsReachable, Open
<1>2. QED
  BY <1>1, RunInvariant, PTL

\* A worker has a proxy session as long as its pod may run: a requeue drops the session of a
\* run whose pod never started, and of no other.
THEOREM WorkersHaveSessions ==
    ASSUME ~Stalls
    PROVE  Spec => []WorkerHasSession
<1>1. RunInv => WorkerHasSession
  BY DEF RunInv, Control, Sessions, WorkerHasSession, Open
<1>2. QED
  BY <1>1, RunInvariant, PTL

\* Only the requeue clears a claim or a handle.
LEMMA OnlyRequeueReleases ==
    ASSUME [Next]_vars, hold # "none", hold' = "none"
    PROVE  \E a \in Actor : Requeue(a)
<1>1. ASSUME NEW p \in Executor, Start(p) \/ AttemptStep(p) \/ Heartbeat(p)
      PROVE  FALSE
  <2>1. hold' \in {hold, p, "handle"}
    BY <1>1 DEF Start, AttemptStep, Heartbeat, LoadRun, Claim, ClaimRefused, Prepare, CheckRun,
                CreateSession, ReadRun, WriteHandle, Launch, Launched, LaunchFailed, LaunchRefused,
                JobSeenAlive, JobSeenEnded, Reload, runVars
  <2>2. QED
    BY <2>1, CodingRunAssumption
<1>2. ASSUME NEW a \in Actor, SharedStep(a) \/ Crash(a)
      PROVE  Requeue(a)
  BY <1>2 DEF SharedStep, Crash, CancelSession, StopJob, RemoveJob, Fail, WriteResult,
              RequeueNotOwned, RequeueSpent, Collect, CheckActive, NoChanges, Push, ReadResult, runVars
<1>3. CASE RequestStop \/ LoadStop \/ Cancel \/ CancelPending \/ PickStale \/ RecoveryStep
  BY <1>3 DEF RequestStop, LoadStop, Cancel, CancelPending, PickStale, RecoveryStep, RecoverClaim,
              RecoverHandle, Inspect, KeepAlive, Lose, Sweep, runVars
<1>4. CASE HeartbeatExpires \/ JobEnds \/ Finished \/ UNCHANGED vars
  BY <1>4 DEF HeartbeatExpires, JobEnds, Finished, vars, runVars
<1>5. QED
  BY <1>1, <1>2, <1>3, <1>4 DEF Next

\* requeueAfterCapacityRefusal never sends a run back to the queue whose pod was started or
\* is still awaited, by whichever attempt or recovery, at whatever time, it is called.
THEOREM RequeuedRunsNeverStarted ==
    ASSUME ~Stalls
    PROVE  Spec => OnlyUnstartedIsRequeued
<1>1. RunInv /\ [Next]_vars =>
          [hold # "none" /\ hold' = "none" => job \notin {"provisioning", "running"}]_vars
  <2>1. ASSUME RunInv, [Next]_vars, hold # "none", hold' = "none"
        PROVE  job \notin {"provisioning", "running"}
    BY <2>1, OnlyRequeueReleases, AtRequeueIs DEF Requeue, Open
  <2>2. QED
    BY <2>1
<1>2. QED
  BY <1>1, RunInvariant, PTL DEF Spec, OnlyUnstartedIsRequeued

\* The two writes that carry no status condition.
IsOpenWrite == \E a \in Actor : At(a, "writeResult") \/ At(a, "writeHandle")

\* The actors' steps: a conditional update needs an active run.
LEMMA StatusStep ==
    ASSUME ~IsActive, Next, status' # status
    PROVE  IsOpenWrite
<1> USE DEF IsOpenWrite, Actor, runVars
<1>1. ASSUME NEW p \in Executor, Start(p) \/ AttemptStep(p) \/ Heartbeat(p)
      PROVE  IsOpenWrite
  <2>1. WriteHandle(p)
    BY <1>1 DEF Start, AttemptStep, LoadRun, Claim, ClaimRefused, Prepare, CheckRun, CreateSession,
                ReadRun, Launch, Launched, LaunchFailed, LaunchRefused, Heartbeat, JobSeenAlive,
                JobSeenEnded, Reload
  <2>2. QED
    BY <2>1 DEF WriteHandle
<1>2. ASSUME NEW a \in Actor, SharedStep(a) \/ Crash(a)
      PROVE  IsOpenWrite
  <2>1. ~Fail(a) /\ ~Requeue(a)
    BY DEF Fail, Requeue, Owns, Terminate
  <2>2. WriteResult(a)
    BY <1>2, <2>1 DEF SharedStep, Crash, CancelSession, StopJob, RemoveJob, RequeueNotOwned,
                      RequeueSpent, Collect, CheckActive, NoChanges, Push, ReadResult
  <2>3. QED
    BY <2>2 DEF WriteResult
<1>3. CASE RequestStop \/ LoadStop \/ Cancel \/ CancelPending
  BY <1>3 DEF RequestStop, LoadStop, Cancel, CancelPending, Terminate, IsActive, Terminal
<1>4. CASE PickStale \/ RecoveryStep
  BY <1>4 DEF PickStale, RecoveryStep, RecoverClaim, RecoverHandle, Inspect, KeepAlive, Lose,
              Sweep, Terminate
<1>5. CASE HeartbeatExpires \/ JobEnds \/ Finished
  BY <1>5 DEF HeartbeatExpires, JobEnds, Finished, vars
<1>6. QED
  BY <1>1, <1>2, <1>3, <1>4, <1>5 DEF Next

\* A terminal status is rewritten only by complete or persistHandle, whose transaction had
\* read the run active: terminate, the requeue, the stop and the reconciler's updates carry
\* the condition, in any interleaving of any number of processes.
THEOREM OnlyOpenWrites == Spec => OnlyOpenWritesRewrite
<1>1. [Next]_vars =>
          [~IsActive /\ status' # status =>
               \E a \in Actor : At(a, "writeResult") \/ At(a, "writeHandle")]_vars
  BY StatusStep DEF IsOpenWrite
<1>2. QED
  BY <1>1, PTL DEF Spec, OnlyOpenWritesRewrite
=============================================================================
