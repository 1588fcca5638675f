---------------------------- MODULE TimeServices ----------------------------
(***************************************************************************)
(* The timer services of the libc (os.c) running on the timer: __mtime,    *)
(* alarm_soc_timer and alarm_soc_timer_stop read and write the 64-bit      *)
(* registers in halves, over the CPU's bus, while the timer counts.  The   *)
(* main program and the handler of the timer interrupt each have a frame.  *)
(* Every action is one clock tick.                                         *)
(***************************************************************************)
EXTENDS WbTimer

CONSTANTS Intervals,  \* arguments of alarm_soc_timer
          Rates       \* values the program stores in TGT_CLK itself

ASSUME ServicesAssumption == Intervals \subseteq Nat /\ Rates \subseteq 0 .. LoSize - 1

VARIABLES
  bus,        \* the bus master's registers: cyc, we, reg, half, data
  mtie,       \* mie.MTIE
  inIsr,      \* the handler runs, with mstatus.MIE clear
  frame,      \* the service each of the two is executing
  deadlines   \* what alarm_soc_timer was asked for: the alarm in force and,
              \* while mtimecmp is being written, the one that replaces it

vars == <<timerVars, bus, mtie, inIsr, frame, deadlines>>

\* A frame: the service (op), the access or csr instruction it is at, the
\* locals of __mtime, the time to set, the argument, and mtime at the call.
Idle == [op |-> "none", at |-> "idle", hi |-> 0, lo |-> 0, time |-> 0,
         arg |-> 0, start |-> 0]
Active == IF inIsr THEN "isr" ELSE "main"
me == frame[Active]
Goto(f) == frame' = [frame EXCEPT ![Active] = f]

\* The frame has begun to change the alarm.
Setting(f) == f.op \in {"alarm", "stop"}

-----------------------------------------------------------------------------
(* The bus. *)

Quiet == [cyc |-> FALSE, we |-> FALSE, reg |-> "MTIME", half |-> "LO", data |-> 0]
Read(reg, half) == [cyc |-> TRUE, we |-> FALSE, reg |-> reg, half |-> half, data |-> 0]
Write(reg, half, d) == [cyc |-> TRUE, we |-> TRUE, reg |-> reg, half |-> half, data |-> d]

\* wb_cpu_bus.v holds an access until it sees the acknowledgement.
Clock(request) ==
  /\ TimerTick(bus)
  /\ bus' = IF bus.cyc THEN (IF timerAck THEN Quiet ELSE bus) ELSE request

-----------------------------------------------------------------------------
(* The services, access by access. *)

\* Mutation: __set_mtimecmp does not park the upper half.
Request_NotParked(f) ==
  CASE f.at = "hi"    -> Read("MTIME", "HI")
    [] f.at = "lo"    -> Read("MTIME", "LO")
    [] f.at = "again" -> Read("MTIME", "HI")
    [] f.at = "park"  -> Read("MTIMECMP", "HI")
    [] f.at = "low"   -> Write("MTIMECMP", "LO", Part(f.time, "LO"))
    [] f.at = "high"  -> Write("MTIMECMP", "HI", Part(f.time, "HI"))
    [] f.at = "frqHi" -> Write("TGT_CLK", "HI", 0)
    [] f.at = "frqLo" -> Write("TGT_CLK", "LO", 1)
    [] f.at = "rate"  -> Write("TGT_CLK", "LO", f.arg)
    [] f.at = "clear" -> Write("MTIME", "LO", 0)

\* The access of each place; "rate" and "clear" are the program's own stores.
Request(f) ==
  CASE f.at = "hi"    -> Read("MTIME", "HI")
    [] f.at = "lo"    -> Read("MTIME", "LO")
    [] f.at = "again" -> Read("MTIME", "HI")
    [] f.at = "park"  -> Write("MTIMECMP", "HI", HiSize - 1)
    [] f.at = "low"   -> Write("MTIMECMP", "LO", Part(f.time, "LO"))
    [] f.at = "high"  -> Write("MTIMECMP", "HI", Part(f.time, "HI"))
    [] f.at = "frqHi" -> Write("TGT_CLK", "HI", 0)
    [] f.at = "frqLo" -> Write("TGT_CLK", "LO", 1)
    [] f.at = "rate"  -> Write("TGT_CLK", "LO", f.arg)
    [] f.at = "clear" -> Write("MTIME", "LO", 0)

\* What __mtime returns if the last read of the upper half agrees.
Value(f) == f.hi * LoSize + f.lo

\* Mutation: the upper half is not read again.
After_NoGuard(f, d) ==
  CASE f.at = "hi"    -> [f EXCEPT !.at = "lo", !.hi = d]
    [] f.at = "lo"    -> [f EXCEPT !.at = "again", !.lo = d]
    [] f.at = "again" -> IF f.op = "mtime" THEN Idle
                         ELSE [f EXCEPT !.at = "park", !.time = Add64(Value(f), f.arg)]
    [] f.at = "park"  -> [f EXCEPT !.at = "low"]
    [] f.at = "low"   -> [f EXCEPT !.at = "high"]
    [] f.at = "high"  -> IF f.op = "stop" THEN Idle ELSE [f EXCEPT !.at = "frqHi"]
    [] f.at = "frqHi" -> [f EXCEPT !.at = "frqLo"]
    [] f.at = "frqLo" -> [f EXCEPT !.at = "enable"]
    [] OTHER          -> Idle

\* Mutation: alarm_soc_timer does not start the clock divider.
After_NoFreq(f, d) ==
  CASE f.at = "hi"    -> [f EXCEPT !.at = "lo", !.hi = d]
    [] f.at = "lo"    -> [f EXCEPT !.at = "again", !.lo = d]
    [] f.at = "again" -> IF d # f.hi THEN [f EXCEPT !.at = "hi"]
                         ELSE IF f.op = "mtime" THEN Idle
                         ELSE [f EXCEPT !.at = "park", !.time = Add64(Value(f), f.arg)]
    [] f.at = "park"  -> [f EXCEPT !.at = "low"]
    [] f.at = "low"   -> [f EXCEPT !.at = "high"]
    [] f.at = "high"  -> IF f.op = "stop" THEN Idle ELSE [f EXCEPT !.at = "enable"]
    [] OTHER          -> Idle

\* Where a frame goes when its access is answered with d.
After(f, d) ==
  CASE f.at = "hi"    -> [f EXCEPT !.at = "lo", !.hi = d]
    [] f.at = "lo"    -> [f EXCEPT !.at = "again", !.lo = d]
    [] f.at = "again" -> IF d # f.hi THEN [f EXCEPT !.at = "hi"]
                         ELSE IF f.op = "mtime" THEN Idle
                         ELSE [f EXCEPT !.at = "park", !.time = Add64(Value(f), f.arg)]
    [] f.at = "park"  -> [f EXCEPT !.at = "low"]
    [] f.at = "low"   -> [f EXCEPT !.at = "high"]
    [] f.at = "high"  -> IF f.op = "stop" THEN Idle ELSE [f EXCEPT !.at = "frqHi"]
    [] f.at = "frqHi" -> [f EXCEPT !.at = "frqLo"]
    [] f.at = "frqLo" -> [f EXCEPT !.at = "enable"]
    [] OTHER          -> Idle

\* The alarm is replaced between the first and the last write of mtimecmp.
NewDeadlines ==
  CASE me.op = "alarm" /\ me.at = "again" /\ After(me, TimerDataOut(bus)).at = "park" ->
         deadlines \cup {After(me, TimerDataOut(bus)).time}
    [] me.op = "alarm" /\ me.at = "high" -> {me.time}
    [] OTHER -> deadlines

-----------------------------------------------------------------------------
(* The CPU. *)

Accessing == me.at \notin {"idle", "enable", "disable"}

\* An instruction of a service starts its access.
Issue ==
  /\ ~bus.cyc /\ Accessing
  /\ Clock(Request(me))
  /\ UNCHANGED <<mtie, inIsr, frame, deadlines>>

\* The access ends and the service goes on.
Complete ==
  /\ bus.cyc /\ timerAck
  /\ Clock(Quiet)
  /\ Goto(After(me, TimerDataOut(bus)))
  /\ deadlines' = NewDeadlines
  /\ UNCHANGED <<mtie, inIsr>>

\* The CPU waits for the bus or does something else.
Wait ==
  /\ ~(bus.cyc /\ timerAck)
  /\ Clock(Quiet)
  /\ UNCHANGED <<mtie, inIsr, frame, deadlines>>

\* A call of __mtime, alarm_soc_timer or alarm_soc_timer_stop.  The services
\* are not re-entrant: a handler that interrupted one that changes the alarm
\* does not call another.  alarm_soc_timer refuses a negative interval.
Call(op, arg) ==
  /\ ~bus.cyc /\ me.at = "idle"
  /\ inIsr => ~Setting(frame["main"])
  /\ Clock(Quiet)
  /\ Goto([Idle EXCEPT !.op = op, !.arg = arg, !.start = mtime,
                       !.at = IF op = "stop" THEN "disable" ELSE "hi"])
  /\ UNCHANGED <<mtie, inIsr, deadlines>>

\* The main program sets the rate or the time itself, with no alarm pending, by
\* stores as in tests/asm/timer.s.
CallOwn(at, arg) ==
  /\ ~bus.cyc /\ ~inIsr /\ me.at = "idle" /\ deadlines = {}
  /\ Clock(Quiet)
  /\ Goto([Idle EXCEPT !.op = "own", !.at = at, !.arg = arg])
  /\ UNCHANGED <<mtie, inIsr, deadlines>>

\* csrw mie of alarm_soc_timer,
Enable ==
  /\ ~bus.cyc /\ me.at = "enable"
  /\ Clock(Quiet)
  /\ mtie' = TRUE
  /\ Goto(Idle)
  /\ UNCHANGED <<inIsr, deadlines>>

\* and of alarm_soc_timer_stop, which then sets mtimecmp to 0.
Disable ==
  /\ ~bus.cyc /\ me.at = "disable"
  /\ Clock(Quiet)
  /\ mtie' = FALSE /\ deadlines' = {}
  /\ Goto([me EXCEPT !.at = "park"])
  /\ UNCHANGED inIsr

\* DECODE takes the timer interrupt between two instructions.
Interrupt ==
  /\ ~bus.cyc /\ ~inIsr /\ mtie /\ timerIrq
  /\ Clock(Quiet)
  /\ inIsr' = TRUE
  /\ UNCHANGED <<mtie, frame, deadlines>>

\* A handler that may not call a service masks the interrupt.
Mask ==
  /\ ~bus.cyc /\ inIsr /\ Setting(frame["main"]) /\ mtie
  /\ Clock(Quiet)
  /\ mtie' = FALSE
  /\ UNCHANGED <<inIsr, frame, deadlines>>

Mret ==
  /\ ~bus.cyc /\ inIsr /\ me.at = "idle"
  /\ Clock(Quiet)
  /\ inIsr' = FALSE
  /\ UNCHANGED <<mtie, frame, deadlines>>

\* rst_i restarts timer and CPU; the bus master has no reset.
Reset ==
  /\ TimerReset
  /\ bus' = IF bus.cyc /\ timerAck THEN Quiet ELSE bus
  /\ mtie' = FALSE /\ inIsr' = FALSE /\ deadlines' = {}
  /\ frame' = [f \in {"main", "isr"} |-> Idle]

Init ==
  /\ mtime = 0 /\ mtimecmp = 0 /\ tgtClk = 0 /\ clkCnt = 1
  /\ timerIrq = FALSE /\ timerAck = FALSE
  /\ bus = Quiet
  /\ mtie = FALSE /\ inIsr = FALSE /\ deadlines = {}
  /\ frame = [f \in {"main", "isr"} |-> Idle]

Next ==
  \/ Issue \/ Complete \/ Wait \/ Enable \/ Disable
  \/ \E arg \in Intervals : Call("alarm", arg)
  \/ Call("stop", 0) \/ Call("mtime", 0)
  \/ \E arg \in Rates : CallOwn("rate", arg)
  \/ CallOwn("clear", 0)
  \/ Interrupt \/ Mask \/ Mret \/ Reset

Spec == Init /\ [][Next]_vars

\* The clock runs, code that is in a service goes on, and the CPU looks at
\* the interrupt before every instruction.
FairSpec ==
  /\ Spec
  /\ WF_vars(Wait) /\ WF_vars(Complete) /\ WF_vars(Issue) /\ WF_vars(Enable)
  /\ SF_vars(Interrupt)

-----------------------------------------------------------------------------
\* Registers and frames hold values of their width.
TypeOK ==
  /\ TimerTypeOK
  /\ bus \in [cyc : BOOLEAN, we : BOOLEAN, reg : TimerReg, half : Half,
              data : 0 .. LoSize + HiSize]
  /\ mtie \in BOOLEAN /\ inIsr \in BOOLEAN
  /\ \A f \in {"main", "isr"} : frame[f].time \in Long /\ Value(frame[f]) \in Long
  /\ deadlines \subseteq Long

\* __mtime returns a time that mtime really had between call and return,
\* although it reads the halves separately, the timer counts in between and
\* the handler may run.
ReadAtomic ==
  [][Complete /\ me.at = "again" /\ frame'[Active].at # "hi"
       => me.start <= Value(me) /\ Value(me) <= mtime]_vars

\* No timer interrupt is taken before an alarm is due: neither while
\* mtimecmp is half written, nor between the comparison of an old alarm and
\* a new one, nor after alarm_soc_timer_stop.
NoEarlyInterrupt ==
  [][~inIsr /\ inIsr' => \E d \in deadlines : mtime >= d]_vars

\* The alarm is set and can be reached within the bound on mtime.
Armed == /\ mtie /\ ~Setting(frame["main"])
         /\ \E d \in deadlines : d <= MaxTime

\* An alarm that is set rings, unless the program changes it.
AlarmRings == Armed ~> inIsr \/ ~Armed

=============================================================================
