---------------------------- MODULE MCEcMemory ----------------------------
(* Model-checking instances of EcMemory: the calls keep the operations on *)
(* a few of their registers.                                              *)
EXTENDS EcMemory
CONSTANTS u1, u2

Only(regs, ops) == SelectSeq(ops, LAMBDA o : o.reg \in regs)
Fan(c, regs) == CallOf(1, Only(regs, c.ops))

\* The speeds of both fans, and the files of one register.
Pwms == {FAN1_PWM, FAN2_PWM}
FileRegs == Pwms \cup {G3_WAKEUP, LAN_WAKEUP, BKLT_PWM}
FileCalls == {Fan(SetSysFan(0), Pwms), Fan(SetSysFan(255), Pwms),
              G3Write(1), LanWrite(1), LanRead, UpdateStatus(80)}

ASSUME SpeedsAssumption == SpeedsTogether

NoExit == <<>>

\* A read, which waits for both of the controller's buffers.
ReadRegs == {PWR_VALUE, FAN1_MODE}
ReadCalls == {PwrRead}
ReadExit == Only(ReadRegs, FunctionsExit)

\* The modes of both fans.
FanRegs == {FAN1_MODE, FAN2_MODE}
FanCalls == {Fan(SetSysFan(127), FanRegs)}
FanExit == Only(FanRegs, FunctionsExit)
===========================================================================
