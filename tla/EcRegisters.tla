---------------------------- MODULE EcRegisters ----------------------------
(***************************************************************************)
(* What ec_read_memory and ec_write_memory promise the calls made of them, *)
(* without commands, ports' status bits or time: registers that the holder *)
(* of the ports reads and writes one at a time, in the order of its call.  *)
(* Two things may go wrong.  An operation may be given up; and once a read *)
(* has been given up, its answer may be taken for a later one's.           *)
(***************************************************************************)
EXTENDS Integers, Sequences

CONSTANTS
  Regs, Values,   \* the registers and what they may hold
  OpLists,        \* the calls: sequences of operations
  READ_MEM, WRITE_MEM,
  Zero            \* what every register holds at first

VARIABLES
  mem,            \* the registers
  ops, at,        \* the call that holds the ports, the operation it has reached
  got,            \* what the call has read last
  gaveUp,         \* an operation has been given up
  late,           \* an answer may still come that nobody waits for
  broken          \* somebody used the ports without holding them
regVars == <<mem, ops, at, got, gaveUp, late, broken>>

RegInit ==
  /\ mem = [r \in Regs |-> Zero] /\ ops = <<>> /\ at = 1 /\ got = Zero
  /\ gaveUp = FALSE /\ late = FALSE /\ broken = FALSE

Enter ==
  /\ ops = <<>> /\ ops' \in OpLists /\ at' = 1
  /\ UNCHANGED <<mem, got, gaveUp, late, broken>>

Due(o) == at \in 1 .. Len(ops) /\ ops[at].op = o

Write ==
  /\ Due(WRITE_MEM) /\ mem' = [mem EXCEPT ![ops[at].reg] = ops[at].val]
  /\ at' = at + 1
  /\ UNCHANGED <<ops, got, gaveUp, late, broken>>

Read ==
  /\ Due(READ_MEM)
  /\ \/ got' = mem[ops[at].reg]
     \/ late /\ got' \in Values
  /\ at' = at + 1
  /\ UNCHANGED <<mem, ops, gaveUp, late, broken>>

\* A read that is given up may leave an answer behind, a write does not.
GiveUp ==
  /\ \/ Due(WRITE_MEM) /\ UNCHANGED late
     \/ Due(READ_MEM) /\ late' \in {late, TRUE}
  /\ at' = at + 1 /\ gaveUp' = TRUE
  /\ UNCHANGED <<mem, ops, got, broken>>

Return ==
  /\ ops # <<>> /\ at = Len(ops) + 1
  /\ ops' = <<>> /\ at' = 1 /\ got' = Zero
  /\ UNCHANGED <<mem, gaveUp, late, broken>>

\* Without the ports being held nothing is promised any more.
Broken == broken'

RegNext == Enter \/ Write \/ Read \/ GiveUp \/ Return \/ Broken

RegSpec == RegInit /\ [][RegNext]_regVars
=============================================================================
