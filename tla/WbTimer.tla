------------------------------- MODULE WbTimer -------------------------------
(***************************************************************************)
(* The machine timer (rtl/timer/wb_timer.v): 64-bit registers reached by   *)
(* 32-bit accesses, a clock divider and a registered comparison.  A 64-bit *)
(* value is a number below HiSize * LoSize.  mtime_alw_en, a second mtime  *)
(* that counts every tick, cannot be stopped or written and is read in the *)
(* same way, is left out.                                                  *)
(***************************************************************************)
EXTENDS Integers

CONSTANTS
  LoSize, HiSize,  \* values of the two halves; 2^32 in the code
  MaxTime          \* bound: mtime stands still when it gets there

ASSUME TimerAssumption ==
  /\ LoSize \in Nat \ {0} /\ HiSize \in Nat /\ HiSize >= 2
  /\ MaxTime \in 0 .. LoSize * (HiSize - 1) - 1

VARIABLES mtime, mtimecmp,
          tgtClk, clkCnt,      \* clock ticks per step of mtime; ticks so far
          timerIrq, timerAck

timerVars == <<mtime, mtimecmp, tgtClk, clkCnt, timerIrq, timerAck>>

Long == 0 .. LoSize * HiSize - 1
Half == {"LO", "HI"}
TimerReg == {"MTIME", "MTIMECMP", "TGT_CLK"}

Add64(a, b) == (a + b) % (LoSize * HiSize)

\* `LO and `HI.
Part(v, half) == IF half = "LO" THEN v % LoSize ELSE v \div LoSize

Put(v, half, d) == IF half = "LO" THEN ((v \div LoSize) * LoSize) + d
                   ELSE (d * LoSize) + (v % LoSize)

\* wb_data_o
TimerDataOut(i) ==
  Part(CASE i.reg = "MTIME" -> mtime
         [] i.reg = "MTIMECMP" -> mtimecmp
         [] i.reg = "TGT_CLK" -> tgtClk, i.half)

Written(i, reg, old) ==
  IF i.cyc /\ i.we /\ i.reg = reg THEN Put(old, i.half, i.data) ELSE old

\* One clock edge with the bus pins i.  A write to mtime takes the place of
\* its step; every other access leaves the divider running.
TimerTick(i) ==
  LET toMtime == i.cyc /\ i.we /\ i.reg = "MTIME"
      enabled == tgtClk # 0
      step == clkCnt >= tgtClk
  IN  /\ mtime' = IF toMtime THEN Written(i, "MTIME", mtime)
                  ELSE IF enabled /\ step /\ mtime < MaxTime
                  THEN mtime + 1 ELSE mtime
      /\ clkCnt' = IF ~enabled THEN clkCnt
                   ELSE IF step /\ ~toMtime THEN 1 ELSE Add64(clkCnt, 1)
      /\ mtimecmp' = Written(i, "MTIMECMP", mtimecmp)
      /\ tgtClk' = Written(i, "TGT_CLK", tgtClk)
      /\ timerIrq' = (mtime >= mtimecmp)
      /\ timerAck' = (i.cyc /\ ~timerAck)

TimerReset ==
  /\ mtime' = 0 /\ mtimecmp' = 0 /\ tgtClk' = 0 /\ clkCnt' = 1
  /\ timerIrq' = FALSE /\ timerAck' = FALSE

TimerTypeOK ==
  /\ {mtime, mtimecmp, tgtClk, clkCnt} \subseteq Long
  /\ timerIrq \in BOOLEAN /\ timerAck \in BOOLEAN

=============================================================================
