--------------------------- MODULE LedRegisters ---------------------------
(***************************************************************************)
(* What the LED driver promises those who store brightnesses, without      *)
(* i2cmutex, acknowledges or steps: registers that the controller shows,   *)
(* what the driver believes of them, and whose command is settled, that    *)
(* is, stands on a register and is believed.  A settled register is not    *)
(* touched but by a command of somebody, which unsettles it first; and     *)
(* once the brightness asked for last is not due any more, the LED shows   *)
(* it if the command settled on that register is still one of the LED's    *)
(* own work.                                                               *)
(***************************************************************************)
CONSTANTS
  Leds, Regs,
  Agents,      \* who sends commands; the work of LED l is called l
  NoOne,
  Wants        \* what may be asked of an LED: [reg, val]

VARIABLES
  shown,       \* what the controller shows in each register of each LED
  known,       \* what the driver believes that it shows
  settled,     \* whose command is settled on the register
  asked,       \* what was asked of each LED last
  due,         \* the LEDs whose work has yet to see to it
  serving      \* the driver has taken up its work
regVars == <<shown, known, settled, asked, due, serving>>

\* f changes at most at register r of LED l.
OnlyAt(f, l, r) == f' = [f EXCEPT ![l][r] = f'[l][r]]

RegInit ==
  /\ settled = [l \in Leds |-> [r \in Regs |-> NoOne]]
  /\ due = {} /\ serving = FALSE

\* A brightness is asked for.
Ask(l) ==
  /\ asked' = [asked EXCEPT ![l] = asked'[l]] /\ asked'[l] \in Wants
  /\ due' = due \cup {l}
  /\ UNCHANGED <<shown, known, settled, serving>>

\* A command is on the wire.
Send(l, r) ==
  /\ settled' = [settled EXCEPT ![l][r] = NoOne]
  /\ UNCHANGED known
  /\ OnlyAt(shown, l, r)

\* The driver believes something of a register that is not settled: a call stores
\* what it has sent after another command came in between (do_brightness_set and
\* its like, which store after i2cmutex is released), or init_leds_stats stores
\* what nobody has read.
Suppose(l, r) ==
  /\ settled' = [settled EXCEPT ![l][r] = NoOne]
  /\ UNCHANGED shown
  /\ OnlyAt(known, l, r)

\* The driver believes what the controller shows: somebody's command is settled.
Settle(l, r) ==
  /\ settled[l][r] = NoOne /\ settled'[l][r] \in Agents
  /\ settled'[l][r] = l => l \in due
  /\ OnlyAt(settled, l, r)
  /\ known' = [known EXCEPT ![l][r] = shown[l][r]]
  /\ UNCHANGED shown

\* Probe has read an LED's registers.
Learn(l) ==
  /\ known' = [known EXCEPT ![l] = known'[l]]
  /\ settled' = [settled EXCEPT ![l] = [r \in Regs |-> NoOne]]
  /\ UNCHANGED shown

Command(l) ==
  \/ \E r \in Regs : Send(l, r) \/ Suppose(l, r) \/ Settle(l, r)
  \/ Learn(l)

\* As far as the work of l can tell, l shows what was asked for.
Met(l) ==
  settled[l][asked[l].reg] = l => shown[l][asked[l].reg] = asked[l].val

\* The work of l has seen to it, with its last command or without one.
Finish(l) ==
  /\ l \in due /\ due' = due \ {l}
  /\ serving => Met(l)'

Serve(l) ==
  /\ UNCHANGED <<asked, serving>>
  /\ UNCHANGED due \/ Finish(l)
  /\ UNCHANGED <<shown, known, settled>> \/ Command(l)

\* The driver starts to serve with what it supposes of all LEDs.
Open ==
  /\ ~serving /\ serving' = TRUE
  /\ settled' = [l \in Leds |-> [r \in Regs |-> NoOne]]
  /\ UNCHANGED <<shown, asked, due>>

Close ==
  /\ serving' = FALSE
  /\ UNCHANGED <<shown, known, settled, asked, due>>

RegNext == (\E l \in Leds : Serve(l) \/ Ask(l)) \/ Open \/ Close

RegSpec == RegInit /\ [][RegNext]_regVars

\* What is settled is known, and who asks is served.
Promise ==
  /\ \A l \in Leds, r \in Regs : settled[l][r] # NoOne => known[l][r] = shown[l][r]
  /\ serving => \A l \in Leds \ due : Met(l)
=============================================================================
