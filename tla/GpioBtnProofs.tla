-------------------------- MODULE GpioBtnProofs --------------------------
(***************************************************************************)
(* Proofs about GpioBtn: its types, what a key left pressed tells of the   *)
(* last hold, and that nothing but two races can make the handler use what *)
(* is not there, although nothing is locked.                               *)
(***************************************************************************)
EXTENDS GpioBtn, TLAPS

\* The sample on which the handler works belongs to a button.
IndexOK == at \in {"read", "report"} => hbtn \in Buttons

LEMMA TypeInit == Init => TypeOK /\ IndexOK
  <1>1. 1 \in 1 .. N + 1 /\ 0 \in 0 .. SeenMax /\ 0 \in 0 .. SeenMax + 1
    BY ButtonAssumption
  <1> QED
    BY <1>1 DEF Init, TypeOK, IndexOK, Phases

LEMMA TypeStep == TypeOK /\ IndexOK /\ [Next]_vars => TypeOK' /\ IndexOK'
  <1> SUFFICES ASSUME TypeOK, IndexOK, [Next]_vars PROVE TypeOK' /\ IndexOK'
    OBVIOUS
  <1> USE DEF btnvars, hvars
  <1>1. CASE Fire
    <2>1. 1 \in 1 .. N + 1
      BY ButtonAssumption
    <2> QED
      BY <1>1, <2>1 DEF TypeOK, IndexOK, Fire
  <1>2. CASE Check
    <2>1. hbtn \in 1 .. N + 1 /\ (hbtn \in Buttons => hbtn + 1 \in 1 .. N + 1)
      BY ButtonAssumption DEF TypeOK, Buttons
    <2>2. hbtn' \in 1 .. N + 1 /\ at' \in {"check", "read"}
      BY <1>2, <2>1 DEF Check
    <2> QED
      BY <1>2, <2>2 DEF TypeOK, IndexOK, Check
  <1>3. CASE Read
    BY <1>3 DEF TypeOK, IndexOK, Read
  <1>4. CASE Report
    <2>1. hbtn \in Buttons /\ hbtn + 1 \in 1 .. N + 1
      BY <1>4, ButtonAssumption DEF Report, IndexOK, Buttons
    <2>2. SeenAfter(hbtn) \in 0 .. SeenMax
      BY <2>1, ButtonAssumption DEF TypeOK, SeenAfter
    <2>3. PressAt[hbtn] \in 0 .. SeenMax + 1
      BY <2>1, ButtonAssumption
    <2>4. last[hbtn] \leq SeenMax => last[hbtn] + 1 \in 0 .. SeenMax + 1
      BY <2>1, ButtonAssumption DEF TypeOK
    <2>5. seen' \in [Buttons -> 0 .. SeenMax] /\ prestate' \in [Buttons -> BOOLEAN]
      BY <1>4, <2>2 DEF TypeOK, Report
    <2>6. down' \in [Buttons -> BOOLEAN] /\ last_report' \in [Buttons -> BOOLEAN]
      <3>1. (Presses(hbtn) \/ (down[hbtn] /\ ~Releases(hbtn))) \in BOOLEAN
        OBVIOUS
      <3>2. (Presses(hbtn) \/ (last_report[hbtn] /\ ~Releases(hbtn))) \in BOOLEAN
        OBVIOUS
      <3> QED
        BY <1>4, <3>1, <3>2 DEF TypeOK, Report
    <2>7. last' \in [Buttons -> 0 .. SeenMax + 1]
      <3> DEFINE l == IF Presses(hbtn) THEN PressAt[hbtn]
                      ELSE IF val /\ seen[hbtn] \geq PressAt[hbtn] /\ last[hbtn] \leq SeenMax
                           THEN last[hbtn] + 1 ELSE last[hbtn]
      <3>1. l \in 0 .. SeenMax + 1
        BY <2>1, <2>3, <2>4 DEF TypeOK
      <3>2. last' = [last EXCEPT ![hbtn] = l]
        BY <1>4 DEF Report
      <3> HIDE DEF l
      <3> QED
        BY <3>1, <3>2 DEF TypeOK
    <2> QED
      BY <1>4, <2>1, <2>5, <2>6, <2>7 DEF TypeOK, IndexOK, Report
  <1>5. CASE Rearm
    BY <1>5 DEF TypeOK, IndexOK, Rearm
  <1>6. ASSUME NEW b \in Buttons, Toggle(b) PROVE TypeOK' /\ IndexOK'
    BY <1>6 DEF TypeOK, IndexOK, Toggle
  <1>7. CASE Probe
    BY <1>7 DEF TypeOK, IndexOK, Probe, ProbeMap, ProbeTimer, ProbeInput, ProbeFail, Phases
  <1>8. CASE Remove
    BY <1>8 DEF TypeOK, IndexOK, Remove, RemoveUnmap, RemoveTimer, RemoveInput, Phases
  <1>9. CASE UNCHANGED vars
    BY <1>9 DEF TypeOK, IndexOK, vars
  <1> QED
    BY <1>1, <1>2, <1>3, <1>4, <1>5, <1>6, <1>7, <1>8, <1>9 DEF Next, HandlerStep

\* The variables keep their types, the counts their limits.
THEOREM TypeCorrect == Spec => []TypeOK
  <1> QED
    BY TypeInit, TypeStep, PTL DEF Spec

----------------------------------------------------------------------------
(* A key left pressed.                                                     *)

\* What is known of one button: its last sample, the length of the hold that
\* is going on, and what a pressed key tells of the hold before.
Standing(b) ==
  /\ seen[b] > 0 => prestate[b]
  /\ seen[b] \geq PressAt[b] =>
       last[b] \geq seen[b] /\ (seen[b] < SeenMax => last[b] = seen[b])
  /\ down[b] /\ seen[b] < PressAt[b] =>
       PressAt[b] \leq last[b] /\ last[b] < ReleaseFrom[b]

\* A step that leaves the samples of a button and its history alone and
\* presses no key.
LEMMA StandingKept ==
  ASSUME NEW b \in Buttons, Standing(b),
         seen'[b] = seen[b], prestate'[b] = prestate[b], last'[b] = last[b],
         down'[b] => down[b]
  PROVE  Standing(b)'
  BY DEF Standing

LEMMA StandingReport ==
  ASSUME TypeOK, Report, NEW b \in Buttons, b = hbtn, Standing(b)
  PROVE  Standing(b)'
  <1>2. /\ seen[b] \in Nat /\ last[b] \in Nat /\ SeenMax \in Nat /\ seen[b] \leq SeenMax
        /\ PressAt[b] \in Nat /\ ReleaseFrom[b] \in Nat
        /\ 1 \leq PressAt[b] /\ PressAt[b] \leq SeenMax /\ ReleaseFrom[b] \leq SeenMax
        /\ last[b] \leq SeenMax + 1
    BY ButtonAssumption DEF TypeOK
  <1>3. /\ seen'[b] = SeenAfter(b) /\ prestate'[b] = val
        /\ down'[b] = (Presses(b) \/ (down[b] /\ ~Releases(b)))
        /\ last'[b] = IF Presses(b) THEN PressAt[b]
                      ELSE IF val /\ seen[b] \geq PressAt[b] /\ last[b] \leq SeenMax
                           THEN last[b] + 1 ELSE last[b]
    BY DEF Report, TypeOK
  <1>4. CASE ~val
    <2>1. seen'[b] = 0 /\ ~Presses(b) /\ last'[b] = last[b]
      BY <1>3, <1>4 DEF SeenAfter, Presses
    <2>2. ASSUME down'[b] PROVE PressAt[b] \leq last[b] /\ last[b] < ReleaseFrom[b]
      <3>1. down[b] /\ ~Releases(b)
        BY <1>3, <2>1, <2>2
      <3>2. CASE seen[b] < PressAt[b]
        BY <3>1, <3>2 DEF Standing
      <3>3. CASE seen[b] \geq PressAt[b]
        <4>1. prestate[b] = TRUE
          BY <1>2, <3>3 DEF Standing, TypeOK
        <4>2. seen[b] < ReleaseFrom[b]
          BY <1>2, <1>4, <3>1, <4>1 DEF Releases
        <4> QED
          BY <1>2, <3>3, <4>2 DEF Standing
      <3> QED
        BY <1>2, <3>2, <3>3
    <2> QED
      BY <1>2, <2>1, <2>2, <1>3 DEF Standing
  <1>5. CASE val
    <2>1. prestate'[b] /\ ~Releases(b)
      BY <1>3, <1>5 DEF Releases
    <2>2. CASE seen[b] < SeenMax
      <3>1. seen'[b] = seen[b] + 1
        BY <1>3, <1>5, <2>2 DEF SeenAfter
      <3>2. CASE seen[b] + 1 = PressAt[b]
        <4>1. last'[b] = PressAt[b]
          BY <1>3, <1>5, <2>2, <3>2 DEF Presses
        <4> QED
          BY <1>2, <2>1, <3>1, <3>2, <4>1 DEF Standing
      <3>3. CASE seen[b] + 1 # PressAt[b]
        <4>1. ~Presses(b) /\ (down'[b] => down[b])
          BY <1>3, <3>3 DEF Presses
        <4>2. CASE seen[b] < PressAt[b]
          <5>1. last'[b] = last[b] /\ seen'[b] < PressAt[b]
            BY <1>2, <1>3, <3>1, <3>3, <4>1, <4>2
          <5>2. down'[b] => PressAt[b] \leq last'[b] /\ last'[b] < ReleaseFrom[b]
            BY <4>1, <4>2, <5>1 DEF Standing
          <5>3. ~(seen'[b] \geq PressAt[b])
            BY <1>2, <3>1, <5>1
          <5> QED
            BY <2>1, <5>2, <5>3 DEF Standing
        <4>3. CASE seen[b] \geq PressAt[b]
          <5>1. last[b] = seen[b]
            BY <2>2, <4>3 DEF Standing
          <5>2. last'[b] = last[b] + 1
            BY <1>2, <1>3, <1>5, <4>1, <4>3, <5>1
          <5> QED
            BY <1>2, <2>1, <3>1, <4>3, <5>1, <5>2 DEF Standing
        <4> QED
          BY <1>2, <4>2, <4>3
      <3> QED
        BY <3>2, <3>3
    <2>3. CASE seen[b] = SeenMax
      <3>1. seen'[b] = seen[b] /\ ~Presses(b)
        BY <1>2, <1>3, <1>5, <2>3 DEF SeenAfter, Presses
      <3>2. last[b] \geq SeenMax
        BY <1>2, <2>3 DEF Standing
      <3>3. last'[b] \geq SeenMax
        BY <1>2, <1>3, <3>1, <3>2
      <3> QED
        BY <1>2, <2>1, <2>3, <3>1, <3>3 DEF Standing
    <2> QED
      BY <1>2, <2>2, <2>3
  <1> QED
    BY <1>4, <1>5

LEMMA StandingStep ==
  ASSUME TypeOK, IndexOK, [Next]_vars, \A b \in Buttons : Standing(b)
  PROVE  \A b \in Buttons : Standing(b)'
  <1> SUFFICES ASSUME NEW b \in Buttons PROVE Standing(b)'
    OBVIOUS
  <1> USE DEF btnvars, hvars
  <1>1. CASE Report
    <2>1. CASE b = hbtn
      BY <1>1, <2>1, StandingReport
    <2>2. CASE b # hbtn
      <3>1. /\ seen'[b] = seen[b] /\ prestate'[b] = prestate[b]
            /\ last'[b] = last[b] /\ down'[b] = down[b]
        BY <1>1, <2>2 DEF Report, TypeOK
      <3> QED
        BY <3>1, StandingKept
    <2> QED
      BY <2>1, <2>2
  <1>2. CASE ProbeInput
    BY <1>2, StandingKept DEF ProbeInput
  <1>3. CASE Fire \/ Check \/ Read \/ Rearm
    BY <1>3, StandingKept DEF Fire, Check, Read, Rearm
  <1>4. CASE \E c \in Buttons : Toggle(c)
    BY <1>4, StandingKept DEF Toggle
  <1>5. CASE ProbeMap \/ ProbeTimer \/ ProbeFail \/ Remove
    BY <1>5, StandingKept
       DEF ProbeMap, ProbeTimer, ProbeFail, Remove, RemoveUnmap, RemoveTimer, RemoveInput
  <1>6. CASE UNCHANGED vars
    BY <1>6, StandingKept DEF vars
  <1> QED
    BY <1>1, <1>2, <1>3, <1>4, <1>5, <1>6 DEF Next, HandlerStep, Probe

\* With any buttons and thresholds, any number of CPUs, and however often the
\* driver is bound: a key is left pressed only by a hold of PressAt to
\* ReleaseFrom - 1 samples, so never where ReleaseFrom is not above PressAt.
THEOREM StuckKeyWindow == Spec => []StuckOnlyByWindow
  <1> DEFINE Inv == TypeOK /\ IndexOK /\ \A b \in Buttons : Standing(b)
  <1>1. Init => \A b \in Buttons : Standing(b)
    BY ButtonAssumption DEF Init, Standing
  <1>2. Inv /\ [Next]_vars => Inv'
    BY TypeStep, StandingStep
  <1>3. Inv => StuckOnlyByWindow
    BY ButtonAssumption DEF TypeOK, Standing, StuckOnlyByWindow
  <1> QED
    BY <1>1, <1>2, <1>3, TypeInit, PTL DEF Spec

----------------------------------------------------------------------------
(* The handler against probe and remove.                                   *)

\* What holds in each phase of probe and remove while the handler is between
\* any two of its steps, as long as nothing has raced.
PhaseOK ==
  /\ phase = "bound" => ukey = "live"
  /\ \/ raced
     \/ /\ phase \in {"unbound", "mapped", "stopped"} => ~pending /\ at = "idle"
        /\ phase = "timed" => at = "idle"
        /\ phase = "unmapped" => at \notin {"read", "report"} /\ \A b \in Buttons : ~mapped[b]
        /\ at = "read" => mapped[hbtn]

LEMMA PhaseStep ==
  ASSUME TypeOK, IndexOK, PhaseOK, [Next]_vars
  PROVE  PhaseOK'
  <1> USE DEF btnvars, hvars
  <1>1. CASE Fire
    BY <1>1 DEF PhaseOK, Fire
  <1>2. CASE Check
    BY <1>2 DEF PhaseOK, Check
  <1>3. CASE Read \/ Report \/ Rearm
    BY <1>3 DEF PhaseOK, Read, Report, Rearm
  <1>4. CASE \E b \in Buttons : Toggle(b)
    BY <1>4 DEF PhaseOK, Toggle
  <1>5. CASE ProbeMap
    BY <1>5 DEF PhaseOK, ProbeMap
  <1>6. CASE ProbeTimer \/ ProbeInput \/ ProbeFail
    BY <1>6 DEF PhaseOK, ProbeTimer, ProbeInput, ProbeFail
  <1>7. CASE RemoveUnmap
    <2>1. CASE raced \/ at # "idle"
      BY <1>7, <2>1 DEF PhaseOK, RemoveUnmap
    <2>2. CASE at = "idle"
      BY <1>7, <2>2 DEF PhaseOK, RemoveUnmap
    <2> QED
      BY <2>1, <2>2
  <1>8. CASE RemoveTimer
    <2>1. CASE at # "idle"
      BY <1>8, <2>1 DEF PhaseOK, RemoveTimer
    <2>2. CASE at = "idle"
      BY <1>8, <2>2 DEF PhaseOK, RemoveTimer
    <2> QED
      BY <2>1, <2>2
  <1>9. CASE RemoveInput
    BY <1>9 DEF PhaseOK, RemoveInput
  <1>10. CASE UNCHANGED vars
    BY <1>10 DEF PhaseOK, vars
  <1> QED
    BY <1>1, <1>2, <1>3, <1>4, <1>5, <1>6, <1>7, <1>8, <1>9, <1>10
       DEF Next, HandlerStep, Probe, Remove

\* On any number of CPUs, with any buttons, and however often the driver is
\* bound and removed: the handler reads no register that was unmapped and
\* reports to no device that is not there, and no timer is left behind, unless
\* remove has found the handler running or a tick has come before the end of
\* probe.
THEOREM HandlerIsSafe == Spec => []HandlerSafe
  <1>1. Init => PhaseOK
    BY DEF Init, PhaseOK
  <1>2. TypeOK /\ IndexOK /\ PhaseOK /\ [Next]_vars => PhaseOK'
    BY PhaseStep
  <1>3. TypeOK /\ PhaseOK => HandlerSafe
    BY DEF TypeOK, Phases, PhaseOK, HandlerSafe, MapAlive, KeyAlive, TimerGone
  <1> QED
    BY <1>1, <1>2, <1>3, TypeInit, TypeStep, PTL DEF Spec

=============================================================================
