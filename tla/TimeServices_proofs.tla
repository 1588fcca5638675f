------------------------- MODULE TimeServices_proofs -------------------------
(***************************************************************************)
(* Proofs about the timer services of the libc on the timer, for halves of *)
(* every size, every interval and every rate: the time read is a time that *)
(* was, and no interrupt comes before an alarm is due.                     *)
(***************************************************************************)
EXTENDS TimeServices, TLAPS

-----------------------------------------------------------------------------
(* The inductive invariant. *)

\* The places of each service, in the order of os.c.
Places == [none |-> {"idle"},
           mtime |-> {"hi", "lo", "again"},
           alarm |-> {"hi", "lo", "again", "park", "low", "high", "frqHi", "frqLo", "enable"},
           stop |-> {"disable", "park", "low", "high"},
           own |-> {"rate", "clear"}]

AllPlaces == {"idle", "hi", "lo", "again", "park", "low", "high", "frqHi", "frqLo",
              "enable", "disable", "rate", "clear"}

FrameOK(f) ==
  /\ f \in [op : {"none", "mtime", "alarm", "stop", "own"}, at : AllPlaces, hi : Nat,
            lo : 0 .. LoSize - 1, time : Nat, arg : Nat, start : Nat]
  /\ f.at \in Places[f.op]
  /\ f.op = "none" => f = Idle

Types ==
  /\ mtime \in 0..MaxTime /\ mtimecmp \in Nat
  /\ timerIrq \in BOOLEAN /\ timerAck \in BOOLEAN
  /\ mtie \in BOOLEAN /\ inIsr \in BOOLEAN /\ deadlines \subseteq Nat
  /\ bus \in [cyc : BOOLEAN, we : BOOLEAN, reg : TimerReg, half : Half, data : Nat]
  /\ DOMAIN frame = {"main", "isr"}
  /\ FrameOK(frame["main"]) /\ FrameOK(frame["isr"])

\* An access on the bus is the active frame's, or a reset has left it there.
Owned ==
  /\ timerAck => bus.cyc
  /\ bus.cyc => \/ Accessing /\ bus = Request(me)
                \/ /\ ~inIsr /\ ~mtie /\ deadlines = {}
                   /\ frame["main"] = Idle /\ frame["isr"] = Idle
  /\ bus.we /\ bus.reg = "MTIME" => bus.half = "LO" /\ bus.data = 0

\* Who may be where: one frame at most changes the alarm, and the program's
\* own stores find no alarm and no handler.
Apart ==
  /\ ~inIsr => frame["isr"] = Idle
  /\ frame["isr"].op # "own"
  /\ Setting(frame["main"]) => frame["isr"] = Idle
  /\ frame["main"].op = "own" => ~inIsr /\ ~mtie /\ deadlines = {}

\* What __mtime knows: the lower half was read at a time t since the call,
\* and the upper half had not passed the one read before.
Reading(f) ==
  f.at \in {"hi", "lo", "again"} =>
    /\ f.start <= mtime
    /\ f.at = "lo" => f.hi <= mtime \div LoSize
    /\ f.at = "again" => \E t \in f.start .. mtime :
                            f.lo = t % LoSize /\ f.hi <= t \div LoSize

\* mtimecmp lies where mtime never gets.
Parked == mtimecmp \div LoSize = HiSize - 1

Changing(f) == f.at \in {"park", "low", "high"}

\* How far a frame has got with the change of mtimecmp.  An access writes in
\* its first tick, after which the acknowledgement is up.
Change(f) ==
  /\ f.op = "stop" /\ f.at # "disable" => ~mtie /\ deadlines = {}
  /\ f.op = "alarm" =>
       /\ Changing(f) => f.time \in deadlines
       /\ f.at = "park" => IF timerAck THEN Parked ELSE mtie => mtimecmp \in deadlines
       /\ f.at = "low" => /\ Parked /\ ~timerIrq
                          /\ timerAck => mtimecmp % LoSize = f.time % LoSize
       /\ f.at = "high" => /\ ~timerIrq
                           /\ IF timerAck THEN mtimecmp = f.time
                              ELSE Parked /\ mtimecmp % LoSize = f.time % LoSize
       /\ f.at \in {"frqHi", "frqLo", "enable"} => mtimecmp = f.time /\ deadlines = {f.time}

Due == \E d \in deadlines : mtime >= d

\* With the interrupt enabled there is an alarm, mtimecmp is one unless it is
\* being changed, and the line is up only if one is due.
Alarms ==
  mtie => /\ deadlines # {}
          /\ ~Changing(frame["main"]) /\ ~Changing(frame["isr"]) => mtimecmp \in deadlines
          /\ timerIrq => Due

TimeInv ==
  /\ Types /\ Owned /\ Apart /\ Alarms
  /\ \A k \in {"main", "isr"} : Reading(frame[k]) /\ Change(frame[k])

-----------------------------------------------------------------------------
(* Halves of numbers. *)

\* Quotient and remainder.
LEMMA DivMod ==
  ASSUME NEW n \in Nat \ {0}, NEW a \in Nat
  PROVE  /\ a \div n \in Nat /\ a % n \in Nat /\ a % n \in 0 .. n - 1
         /\ a = (a \div n) * n + (a % n)
BY SMT

\* Both halves of a number put together from halves.
LEMMA Halves ==
  ASSUME NEW n \in Nat \ {0}, NEW q \in Nat, NEW r \in 0 .. n - 1
  PROVE  /\ q * n + r \in Nat
         /\ (q * n + r) \div n = q /\ (q * n + r) % n = r
BY SMT

\* The upper half does not fall while the number grows.
LEMMA DivMono ==
  ASSUME NEW n \in Nat \ {0}, NEW a \in Nat, NEW b \in Nat, a <= b
  PROVE  a \div n <= b \div n
BY SMT

-----------------------------------------------------------------------------
(* One clock tick. *)

\* The part of the tick the services see.
LEMMA TimerStep ==
  ASSUME Types, Owned, TimerTick(bus)
  PROVE  /\ mtime' \in 0..MaxTime
         /\ ~(bus.cyc /\ bus.we /\ bus.reg = "MTIME") => mtime <= mtime'
         /\ mtimecmp' = (IF bus.cyc /\ bus.we /\ bus.reg = "MTIMECMP"
                         THEN Put(mtimecmp, bus.half, bus.data) ELSE mtimecmp)
         /\ mtimecmp' \in Nat
         /\ timerIrq' = (mtime >= mtimecmp)
         /\ timerAck' = (bus.cyc /\ ~timerAck)
<1>1. /\ LoSize \in Nat \ {0} /\ MaxTime \in Nat
      /\ mtime \in Nat /\ mtime <= MaxTime /\ mtimecmp \in Nat /\ bus.data \in Nat
      /\ bus.half \in Half
  BY TimerAssumption DEF Types
<1>2. /\ mtime = (mtime \div LoSize) * LoSize + (mtime % LoSize)
      /\ mtime \div LoSize \in Nat /\ mtime % LoSize \in Nat
      /\ mtimecmp \div LoSize \in Nat /\ mtimecmp % LoSize \in Nat
  BY <1>1, DivMod, Zenon
<1>3. mtimecmp' = (IF bus.cyc /\ bus.we /\ bus.reg = "MTIMECMP"
                   THEN Put(mtimecmp, bus.half, bus.data) ELSE mtimecmp)
  BY DEF TimerTick, Written
<1>4. Put(mtimecmp, bus.half, bus.data) \in Nat
  BY <1>1, <1>2 DEF Put
<1>5. CASE bus.cyc /\ bus.we /\ bus.reg = "MTIME"
  <2>1. mtime' = (mtime \div LoSize) * LoSize + 0
    BY <1>5 DEF TimerTick, Written, Put, Owned
  <2>2. (mtime \div LoSize) * LoSize \in Nat
    BY <1>1, <1>2
  <2>3. mtime' \in 0..MaxTime
    BY <1>1, <1>2, <2>1, <2>2
  <2> QED BY <1>3, <1>4, <1>1, <1>5, <2>3 DEF TimerTick
<1>6. CASE ~(bus.cyc /\ bus.we /\ bus.reg = "MTIME")
  <2>1. mtime' = mtime \/ (mtime < MaxTime /\ mtime' = mtime + 1)
    BY <1>6 DEF TimerTick
  <2>2. mtime' \in 0..MaxTime /\ mtime <= mtime'
    BY <1>1, <2>1
  <2> QED BY <1>3, <1>4, <1>1, <1>6, <2>2 DEF TimerTick
<1> QED BY <1>5, <1>6

\* mtime never reaches a parked comparator.
LEMMA ParkedIsFar ==
  ASSUME Types, Parked
  PROVE  ~(mtime >= mtimecmp)
<1>1. /\ LoSize \in Nat \ {0} /\ HiSize \in Nat /\ HiSize >= 2 /\ mtimecmp \in Nat
      /\ MaxTime \in Int /\ MaxTime <= LoSize * (HiSize - 1) - 1
      /\ mtime \in Int /\ mtime <= MaxTime
  BY TimerAssumption DEF Types
<1>2. mtimecmp = (HiSize - 1) * LoSize + (mtimecmp % LoSize) /\ mtimecmp % LoSize \in Nat
  BY <1>1, DivMod, Zenon DEF Parked
<1>3. (HiSize - 1) * LoSize = LoSize * (HiSize - 1) /\ LoSize * (HiSize - 1) \in Int
  BY <1>1
<1> QED BY <1>1, <1>2, <1>3

\* The active frame is one of the two.
LEMMA ActiveFrame ==
  ASSUME Types
  PROVE  /\ Active \in {"main", "isr"} /\ me = frame[Active] /\ FrameOK(me)
         /\ inIsr => me = frame["isr"]
         /\ ~inIsr => me = frame["main"]
BY DEF Types, Active, me

\* Who writes mtime finds nobody reading it.
LEMMA NobodyReads ==
  ASSUME Types, Owned, Apart, bus.cyc, bus.we, bus.reg = "MTIME",
         NEW k \in {"main", "isr"}
  PROVE  frame[k].at \notin {"hi", "lo", "again"}
<1>1. CASE Accessing /\ bus = Request(me)
  <2>1. me.at = "clear"
    BY <1>1, ActiveFrame DEF Accessing, Request, Read, Write, FrameOK, AllPlaces
  <2>2. me.op = "own"
    BY <2>1, ActiveFrame DEF FrameOK, Places
  <2>3. frame["main"] = me /\ frame["isr"] = Idle
    BY <2>2, ActiveFrame DEF Apart
  <2> QED BY <2>1, <2>3 DEF Idle
<1>2. CASE frame["main"] = Idle /\ frame["isr"] = Idle
  BY <1>2 DEF Idle
<1> QED BY <1>1, <1>2 DEF Owned

\* A frame that does not move still knows what it knew.
LEMMA ReadingKept ==
  ASSUME TimeInv, TimerTick(bus), NEW k \in {"main", "isr"}, frame'[k] = frame[k]
  PROVE  Reading(frame[k])'
<1> SUFFICES ASSUME frame[k].at \in {"hi", "lo", "again"} PROVE Reading(frame[k])'
  BY DEF Reading
<1>1. mtime <= mtime' /\ mtime' \in Nat /\ mtime \in Nat /\ LoSize \in Nat \ {0}
  BY TimerStep, NobodyReads, TimerAssumption DEF TimeInv, Types
<1>2. frame[k].start \in Nat /\ frame[k].hi \in Nat /\ Reading(frame[k])
  BY DEF TimeInv, Types, FrameOK
<1>3. mtime \div LoSize <= mtime' \div LoSize
      /\ mtime \div LoSize \in Nat /\ mtime' \div LoSize \in Nat
  BY <1>1, DivMono, DivMod
<1> QED BY <1>1, <1>2, <1>3 DEF Reading

\* The frame that changes the alarm is the one whose access is on the bus.
LEMMA SettingOwns ==
  ASSUME Types, Owned, Apart, NEW k \in {"main", "isr"}, Setting(frame[k]), bus.cyc
  PROVE  me = frame[k] /\ Active = k /\ Accessing /\ bus = Request(me)
<1>1. ~Setting(Idle) /\ Idle.at = "idle"
  BY DEF Setting, Idle
<1>2. Accessing /\ bus = Request(me)
  BY <1>1 DEF Owned
<1>3. me # Idle
  BY <1>1, <1>2 DEF Accessing
<1> QED BY <1>1, <1>2, <1>3 DEF Apart, Types, Active, me

\* mtimecmp after a tick, by the place of the active frame.
LEMMA CmpStep ==
  ASSUME TimeInv, TimerTick(bus)
  PROVE  /\ ~bus.cyc => mtimecmp' = mtimecmp
         /\ bus.cyc /\ Accessing /\ bus = Request(me) /\ ~Changing(me) => mtimecmp' = mtimecmp
         /\ bus.cyc /\ me.op = "alarm" /\ me.at = "park" => Parked'
         /\ bus.cyc /\ me.op = "alarm" /\ me.at = "low" =>
              Parked' /\ mtimecmp' % LoSize = me.time % LoSize
         /\ bus.cyc /\ me.op = "alarm" /\ me.at = "high" => mtimecmp' = me.time
<1>1. /\ Types /\ Owned /\ Apart /\ FrameOK(me) /\ Active \in {"main", "isr"} /\ me = frame[Active]
      /\ Change(me)
  BY ActiveFrame DEF TimeInv
<1>2. mtimecmp' = (IF bus.cyc /\ bus.we /\ bus.reg = "MTIMECMP"
                   THEN Put(mtimecmp, bus.half, bus.data) ELSE mtimecmp)
  BY <1>1, TimerStep
<1>3. /\ LoSize \in Nat \ {0} /\ HiSize - 1 \in Nat /\ mtimecmp \in Nat /\ me.time \in Nat
      /\ me.at \in AllPlaces
  BY <1>1, TimerAssumption DEF Types, FrameOK
<1>4. /\ me.time \div LoSize \in Nat /\ me.time % LoSize \in 0 .. LoSize - 1
      /\ me.time = (me.time \div LoSize) * LoSize + (me.time % LoSize)
      /\ mtimecmp \div LoSize \in Nat /\ mtimecmp % LoSize \in 0 .. LoSize - 1
  BY <1>3, DivMod, Zenon
<1>5. ASSUME bus.cyc, me.op = "alarm" PROVE Accessing => bus = Request(me)
  BY <1>1, <1>5, SettingOwns DEF Setting
<1>6. ASSUME bus.cyc, Accessing, bus = Request(me), ~Changing(me) PROVE mtimecmp' = mtimecmp
  <2>1. bus.we => bus.reg # "MTIMECMP"
    BY <1>3, <1>6 DEF Changing, Accessing, Request, Read, Write, AllPlaces
  <2> QED BY <1>2, <2>1
<1>7. ASSUME bus.cyc, me.op = "alarm", me.at = "park" PROVE Parked'
  <2>1. mtimecmp' = (HiSize - 1) * LoSize + (mtimecmp % LoSize)
    BY <1>2, <1>5, <1>7 DEF Accessing, Request, Write, Put
  <2> QED BY <1>3, <1>4, <2>1, Halves, Zenon DEF Parked
<1>8. ASSUME bus.cyc, me.op = "alarm", me.at = "low"
      PROVE  Parked' /\ mtimecmp' % LoSize = me.time % LoSize
  <2>1. mtimecmp' = (HiSize - 1) * LoSize + (me.time % LoSize)
    BY <1>1, <1>2, <1>5, <1>8 DEF Accessing, Request, Write, Put, Part, Change, Parked
  <2> QED BY <1>3, <1>4, <2>1, Halves, Zenon DEF Parked
<1>9. ASSUME bus.cyc, me.op = "alarm", me.at = "high" PROVE mtimecmp' = me.time
  <2>1. mtimecmp' = (me.time \div LoSize) * LoSize + (mtimecmp % LoSize)
    BY <1>2, <1>5, <1>9 DEF Accessing, Request, Write, Put, Part
  <2>2. mtimecmp % LoSize = me.time % LoSize
    BY <1>1, <1>9 DEF Change
  <2> QED BY <1>4, <2>1, <2>2
<1> QED BY <1>2, <1>6, <1>7, <1>8, <1>9

\* The change of mtimecmp goes on while its frame stands still.
LEMMA ChangeKept ==
  ASSUME TimeInv, TimerTick(bus), ~(bus.cyc /\ timerAck), NEW k \in {"main", "isr"},
         frame'[k] = frame[k], deadlines' = deadlines, mtie' => mtie
  PROVE  Change(frame[k])'
<1>1. /\ Types /\ Owned /\ Apart /\ Change(frame[k])
      /\ timerAck \in BOOLEAN /\ bus.cyc \in BOOLEAN
  BY DEF TimeInv, Types
<1>2. /\ timerIrq' = (mtime >= mtimecmp) /\ timerAck' = bus.cyc /\ ~timerAck
  BY <1>1, TimerStep DEF Owned
<1>3. Parked => ~timerIrq'
  BY <1>1, <1>2, ParkedIsFar
<1>4. CASE frame[k].op # "alarm"
  BY <1>1, <1>4 DEF Change
<1>5. CASE frame[k].op = "alarm" /\ ~bus.cyc
  <2>1. mtimecmp' = mtimecmp
    BY <1>5, CmpStep
  <2> QED BY <1>1, <1>2, <1>3, <1>5, <2>1 DEF Change, Changing, Parked
<1>6. CASE frame[k].op = "alarm" /\ bus.cyc
  <2>1. me = frame[k] /\ Accessing /\ bus = Request(me)
    BY <1>1, <1>6, SettingOwns DEF Setting
  <2>2. /\ ~Changing(me) => mtimecmp' = mtimecmp
        /\ me.at = "park" => Parked'
        /\ me.at = "low" => Parked' /\ mtimecmp' % LoSize = me.time % LoSize
        /\ me.at = "high" => mtimecmp' = me.time
    BY <1>6, <2>1, CmpStep
  <2> QED BY <1>1, <1>2, <1>3, <1>6, <2>1, <2>2 DEF Change, Changing
<1> QED BY <1>4, <1>5, <1>6

\* The comparison sees an alarm that is due, whatever is being written.
LEMMA IrqDue ==
  ASSUME TimeInv, TimerTick(bus), mtie, timerIrq'
  PROVE  /\ \E d \in deadlines : mtime >= d
         /\ mtime \in Nat /\ mtime' \in Nat /\ mtime <= mtime'
<1>1. /\ Types /\ Owned /\ Apart /\ Alarms /\ Change(frame["main"]) /\ Change(frame["isr"])
      /\ FrameOK(frame["main"]) /\ FrameOK(frame["isr"])
  BY DEF TimeInv, Types
<1>2. mtime >= mtimecmp /\ ~Parked
  BY <1>1, TimerStep, ParkedIsFar
<1>3. mtimecmp \in deadlines
  <2>1. CASE ~Changing(frame["main"]) /\ ~Changing(frame["isr"])
    BY <1>1, <2>1 DEF Alarms
  <2>2. ASSUME NEW k \in {"main", "isr"}, Changing(frame[k]) PROVE mtimecmp \in deadlines
    <3>1. frame[k].op = "alarm"
      BY <1>1, <2>2 DEF Changing, FrameOK, Places, Change
    <3> QED BY <1>1, <1>2, <2>2, <3>1 DEF Change, Changing
  <2> QED BY <2>1, <2>2
<1>4. ~(bus.cyc /\ bus.we /\ bus.reg = "MTIME")
  <2> SUFFICES ASSUME bus.cyc, bus.we, bus.reg = "MTIME" PROVE FALSE
    OBVIOUS
  <2>1. Accessing /\ bus = Request(me) /\ FrameOK(me)
    BY <1>1, ActiveFrame DEF Owned
  <2>2. me.at = "clear"
    BY <2>1 DEF Accessing, Request, Read, Write, FrameOK, AllPlaces
  <2>3. me.op = "own"
    BY <2>1, <2>2 DEF FrameOK, Places
  <2> QED BY <1>1, <2>3, ActiveFrame DEF Apart
<1>5. mtime <= mtime' /\ mtime' \in 0..MaxTime /\ mtime \in 0..MaxTime
  BY <1>1, <1>4, TimerStep DEF Types
<1>6. \A n \in 0..MaxTime : n \in Nat
  BY TimerAssumption
<1> QED BY <1>2, <1>3, <1>5, <1>6

-----------------------------------------------------------------------------
(* Every action preserves the invariant. *)

\* The accesses of the services.
LEMMA RequestType ==
  ASSUME NEW f, FrameOK(f), f.at \notin {"idle", "enable", "disable"}
  PROVE  /\ Request(f) \in [cyc : BOOLEAN, we : BOOLEAN, reg : TimerReg, half : Half, data : Nat]
         /\ Request(f).cyc
         /\ Request(f).we /\ Request(f).reg = "MTIME"
              => Request(f).half = "LO" /\ Request(f).data = 0
<1>1. LoSize \in Nat \ {0} /\ HiSize - 1 \in Nat /\ f.time \in Nat /\ f.arg \in Nat
      /\ f.at \in AllPlaces
  BY TimerAssumption DEF FrameOK
<1>2. Part(f.time, "LO") \in Nat /\ Part(f.time, "HI") \in Nat
  BY <1>1, DivMod, Zenon DEF Part
<1> QED BY <1>1, <1>2 DEF Request, Read, Write, TimerReg, Half, AllPlaces

\* A tick in which no access ends and no frame moves: everything except the
\* flags of the CPU is preserved.
LEMMA Standing ==
  ASSUME TimeInv, TimerTick(bus), ~(bus.cyc /\ timerAck), frame' = frame,
         deadlines' = deadlines, mtie' => mtie
  PROVE  /\ Alarms' /\ mtime' \in 0..MaxTime /\ mtimecmp' \in Nat
         /\ timerIrq' \in BOOLEAN /\ timerAck' = bus.cyc
         /\ \A k \in {"main", "isr"} : Reading(frame[k])' /\ Change(frame[k])'
<1>1. Types /\ Owned /\ Apart /\ Alarms /\ timerAck \in BOOLEAN /\ bus.cyc \in BOOLEAN
  BY DEF TimeInv, Types
<1>2. /\ mtime' \in 0..MaxTime /\ mtimecmp' \in Nat
      /\ timerIrq' \in BOOLEAN /\ timerAck' = bus.cyc
  BY <1>1, TimerStep
<1>3. \A k \in {"main", "isr"} : Reading(frame[k])' /\ Change(frame[k])'
  BY ReadingKept, ChangeKept
<1>4. Alarms'
  <2> SUFFICES ASSUME mtie' PROVE Alarms'
    BY DEF Alarms
  <2>1. mtie /\ deadlines # {}
    BY <1>1 DEF Alarms
  <2>2. ASSUME ~Changing(frame["main"]), ~Changing(frame["isr"]) PROVE mtimecmp' = mtimecmp
    <3>1. ~Changing(me)
      BY <1>1, <2>2, ActiveFrame
    <3> QED BY <1>1, <2>1, <3>1, CmpStep DEF Owned
  <2>3. ASSUME timerIrq' PROVE \E d \in deadlines : mtime' >= d
    <3>1. mtime \in Nat /\ mtime' \in Nat /\ mtime <= mtime'
      BY <2>1, <2>3, IrqDue
    <3>2. PICK d \in deadlines : mtime >= d
      BY <2>1, <2>3, IrqDue
    <3>3. d \in Nat
      BY <1>1 DEF Types
    <3> QED BY <3>1, <3>2, <3>3
  <2>4. timerIrq' => Due'
    BY <2>3 DEF Due
  <2>5. /\ Changing(frame["main"])' = Changing(frame["main"])
        /\ Changing(frame["isr"])' = Changing(frame["isr"])
    BY DEF Changing
  <2> QED BY <1>1, <2>1, <2>2, <2>4, <2>5 DEF Alarms
<1> QED BY <1>2, <1>3, <1>4

\* The access of a service is put on the bus.
LEMMA IssueStep ==
  ASSUME TimeInv, Issue
  PROVE  TimeInv'
<1>1. /\ Types /\ Owned /\ Apart /\ FrameOK(me) /\ ~timerAck
      /\ TimerTick(bus) /\ ~bus.cyc /\ bus' = Request(me) /\ Accessing
      /\ mtie' = mtie /\ inIsr' = inIsr /\ frame' = frame /\ deadlines' = deadlines
  BY ActiveFrame DEF Issue, Clock, TimeInv, Owned
<1>2. me' = me /\ Accessing'
  BY <1>1 DEF me, Active, Accessing
<1>3. Request(me') = Request(me)
  BY <1>2
<1>4. Request(me)' = Request(me)
  BY <1>1, <1>2 DEF Request, Read, Write, Part
<1>5. Types'
  BY <1>1, RequestType, Standing DEF Types, Accessing, FrameOK
<1>6. Owned'
  BY <1>1, <1>2, <1>4, RequestType, Standing DEF Owned, Accessing
<1>7. Apart'
  BY <1>1 DEF Apart, Setting
<1> QED BY <1>1, <1>5, <1>6, <1>7, Standing DEF TimeInv

\* The CPU waits.
LEMMA WaitStep ==
  ASSUME TimeInv, TimerTick(bus), ~(bus.cyc /\ timerAck),
         bus' = (IF bus.cyc THEN (IF timerAck THEN Quiet ELSE bus) ELSE Quiet),
         mtie' = mtie, inIsr' = inIsr, frame' = frame, deadlines' = deadlines
  PROVE  TimeInv'
<1>1. /\ Types /\ Owned /\ Apart /\ FrameOK(me) /\ ~timerAck
      /\ bus' = (IF bus.cyc THEN bus ELSE Quiet)
  BY ActiveFrame DEF TimeInv, Owned
<1>2. me' = me /\ Accessing' = Accessing
  BY DEF me, Active, Accessing
<1>3. Request(me)' = Request(me)
  BY <1>2 DEF Request, Read, Write, Part
<1>4. Quiet.cyc = FALSE /\ Quiet.we = FALSE
      /\ Quiet \in [cyc : BOOLEAN, we : BOOLEAN, reg : TimerReg, half : Half, data : Nat]
  BY DEF Quiet, TimerReg, Half
<1>5. Types'
  BY <1>1, <1>4, Standing DEF Types, FrameOK
<1>6. Owned'
  BY <1>1, <1>2, <1>3, <1>4, Standing DEF Owned
<1>7. Apart'
  BY <1>1 DEF Apart, Setting
<1> QED BY <1>5, <1>6, <1>7, Standing DEF TimeInv

\* The bus falls silent, the frames stand still and the CPU changes a flag.
LEMMA FlagStep ==
  ASSUME TimeInv, TimerTick(bus), ~bus.cyc, bus' = Quiet, frame' = frame,
         deadlines' = deadlines, mtie' \in BOOLEAN, mtie' => mtie, inIsr' \in BOOLEAN,
         Apart'
  PROVE  TimeInv'
<1>1. Types /\ Owned
  BY DEF TimeInv
<1>2. Quiet.cyc = FALSE /\ Quiet.we = FALSE
      /\ Quiet \in [cyc : BOOLEAN, we : BOOLEAN, reg : TimerReg, half : Half, data : Nat]
  BY DEF Quiet, TimerReg, Half
<1>3. Types'
  BY <1>1, <1>2, Standing DEF Types, FrameOK
<1>4. Owned'
  BY <1>2, Standing DEF Owned
<1> QED BY <1>3, <1>4, Standing DEF TimeInv

\* Interrupt entry and return.
LEMMA InterruptStep ==
  ASSUME TimeInv, Interrupt \/ Mask \/ Mret
  PROVE  TimeInv'
<1>1. /\ Types /\ Apart /\ FrameOK(frame["isr"]) /\ FrameOK(me)
  BY ActiveFrame DEF TimeInv, Types
<1>2. /\ TimerTick(bus) /\ ~bus.cyc /\ bus' = Quiet /\ frame' = frame /\ deadlines' = deadlines
      /\ mtie' \in BOOLEAN /\ (mtie' => mtie) /\ inIsr' \in BOOLEAN
  <2>1. ~bus.cyc /\ Clock(Quiet) /\ frame' = frame /\ deadlines' = deadlines
    BY DEF Interrupt, Mask, Mret
  <2>2. CASE mtie' = mtie /\ (inIsr' = TRUE \/ inIsr' = FALSE)
    BY <1>1, <2>1, <2>2 DEF Clock, Types
  <2>3. CASE mtie' = FALSE /\ inIsr' = inIsr
    BY <1>1, <2>1, <2>3 DEF Clock, Types
  <2> QED BY <2>2, <2>3 DEF Interrupt, Mask, Mret
<1>3. Apart'
  <2>1. CASE Interrupt
    BY <1>1, <2>1 DEF Interrupt, Apart, Setting
  <2>2. CASE Mask
    BY <1>1, <2>2 DEF Mask, Apart, Setting, Types
  <2>3. CASE Mret
    <3>1. frame["isr"] = Idle
      BY <1>1, <2>3, ActiveFrame DEF Mret, FrameOK, Places
    <3> QED BY <1>1, <2>3, <3>1 DEF Mret, Apart, Setting
  <2> QED BY <2>1, <2>2, <2>3
<1> QED BY <1>2, <1>3, FlagStep

\* At most one frame changes the alarm, and the other one knows nothing of it.
LEMMA OtherFrame ==
  ASSUME Types, Apart, NEW k \in {"main", "isr"}, k # Active, Setting(me)
  PROVE  ~Setting(frame[k]) /\ ~Changing(frame[k])
<1>1. ~Setting(Idle) /\ Idle.at = "idle"
  BY DEF Setting, Idle
<1>2. ~Setting(frame[k])
  BY <1>1 DEF Apart, Active, me, Types
<1> QED BY <1>2 DEF Types, FrameOK, Places, Setting, Changing

\* The bus falls silent and the active frame moves to f.
LEMMA MoveStep ==
  ASSUME TimeInv, TimerTick(bus), bus' = Quiet, ~timerAck', inIsr' = inIsr, NEW f, FrameOK(f),
         frame' = [frame EXCEPT ![Active] = f],
         mtie' \in BOOLEAN, deadlines' \subseteq Nat,
         Apart', Alarms', Reading(frame[Active])', Change(frame[Active])',
         \A k \in {"main", "isr"} \ {Active} : Change(frame[k])'
  PROVE  TimeInv'
<1>1. Types /\ Owned /\ Active \in {"main", "isr"} /\ DOMAIN frame = {"main", "isr"}
      /\ Active' = Active
  BY ActiveFrame DEF TimeInv, Types, Active
<1>2. Quiet.cyc = FALSE /\ Quiet.we = FALSE
      /\ Quiet \in [cyc : BOOLEAN, we : BOOLEAN, reg : TimerReg, half : Half, data : Nat]
  BY DEF Quiet, TimerReg, Half
<1>3. \A k \in {"main", "isr"} : frame'[k] = IF k = Active THEN f ELSE frame[k]
  BY <1>1
<1>4. Types'
  <2>1. DOMAIN frame' = {"main", "isr"}
    BY <1>1
  <2>2. FrameOK(frame'["main"]) /\ FrameOK(frame'["isr"])
    BY <1>1, <1>3 DEF Types
  <2>3. timerIrq' \in BOOLEAN /\ timerAck' \in BOOLEAN /\ mtime' \in 0..MaxTime /\ mtimecmp' \in Nat
    BY <1>1, TimerStep
  <2> QED BY <1>1, <1>2, <2>1, <2>2, <2>3 DEF Types, FrameOK
<1>5. Owned'
  BY <1>2 DEF Owned
<1>6. \A k \in {"main", "isr"} : Reading(frame[k])' /\ Change(frame[k])'
  <2>1. ASSUME NEW k \in {"main", "isr"}, k # Active PROVE Reading(frame[k])'
    BY <1>3, <2>1, ReadingKept
  <2>2. ASSUME NEW k \in {"main", "isr"}, k = Active PROVE Reading(frame[k])' /\ Change(frame[k])'
    BY <1>1, <2>2
  <2> QED BY <2>1, <2>2
<1> QED BY <1>4, <1>5, <1>6 DEF TimeInv

\* A service is called, or the program's own store begins.
LEMMA CallStep ==
  ASSUME TimeInv, NEW op, NEW arg \in Nat,
         \/ Call(op, arg) /\ op \in {"alarm", "stop", "mtime"}
         \/ (\E at \in {"rate", "clear"} : CallOwn(at, arg)) /\ op = "own"
  PROVE  TimeInv'
<1>1. PICK f : /\ frame' = [frame EXCEPT ![Active] = f]
               /\ f.op = op /\ FrameOK(f) /\ f.at \in {"hi", "disable", "rate", "clear"}
               /\ f.start = mtime \/ f.at # "hi"
               /\ op # "own" => ~Setting(frame["main"]) \/ ~inIsr
               /\ op = "own" => ~inIsr /\ deadlines = {}
  <2>0. mtime \in Nat /\ 0 \in 0 .. LoSize - 1
    BY TimerAssumption DEF TimeInv, Types
  <2>1. CASE Call(op, arg) /\ op \in {"alarm", "stop", "mtime"}
    <3> DEFINE g == [Idle EXCEPT !.op = op, !.arg = arg, !.start = mtime,
                                 !.at = IF op = "stop" THEN "disable" ELSE "hi"]
    <3>1. frame' = [frame EXCEPT ![Active] = g] /\ (inIsr => ~Setting(frame["main"]))
      BY <2>1 DEF Call, Goto
    <3>2. /\ g.op = op /\ g.start = mtime /\ g.at = (IF op = "stop" THEN "disable" ELSE "hi")
      BY DEF Idle
    <3>3. FrameOK(g)
      <4>1. CASE op = "stop"
        BY <2>0, <4>1 DEF FrameOK, Places, AllPlaces, Idle
      <4>2. CASE op = "alarm"
        BY <2>0, <4>2 DEF FrameOK, Places, AllPlaces, Idle
      <4>3. CASE op = "mtime"
        BY <2>0, <4>3 DEF FrameOK, Places, AllPlaces, Idle
      <4> QED BY <2>1, <4>1, <4>2, <4>3
    <3> HIDE DEF g
    <3> QED BY <2>1, <3>1, <3>2, <3>3
  <2>2. ASSUME NEW at \in {"rate", "clear"}, CallOwn(at, arg), op = "own"
        PROVE  \E f : /\ frame' = [frame EXCEPT ![Active] = f]
                      /\ f.op = op /\ FrameOK(f) /\ f.at \in {"hi", "disable", "rate", "clear"}
                      /\ f.start = mtime \/ f.at # "hi"
                      /\ op # "own" => ~Setting(frame["main"]) \/ ~inIsr
                      /\ op = "own" => ~inIsr /\ deadlines = {}
    <3> DEFINE g == [Idle EXCEPT !.op = "own", !.at = at, !.arg = arg]
    <3>1. frame' = [frame EXCEPT ![Active] = g] /\ ~inIsr /\ deadlines = {}
      BY <2>2 DEF CallOwn, Goto
    <3>2. /\ g.op = "own" /\ g.start = 0 /\ g.at = at
      BY DEF Idle
    <3>3. FrameOK(g)
      BY <2>0, <2>2 DEF FrameOK, Places, AllPlaces, Idle
    <3> HIDE DEF g
    <3> QED BY <2>2, <3>1, <3>2, <3>3
  <2> QED BY <2>1, <2>2
<1>2. /\ ~bus.cyc /\ TimerTick(bus) /\ bus' = Quiet /\ me.at = "idle"
      /\ mtie' = mtie /\ inIsr' = inIsr /\ deadlines' = deadlines
  BY DEF Call, CallOwn, Clock
<1>3. /\ Types /\ Owned /\ Apart /\ Alarms /\ me = Idle /\ ~timerAck /\ ~timerAck'
      /\ Active \in {"main", "isr"} /\ DOMAIN frame = {"main", "isr"} /\ Active' = Active
      /\ me = frame[Active]
  BY <1>2, ActiveFrame, TimerStep DEF TimeInv, Types, Owned, FrameOK, Places, Active
<1>4. /\ frame'[Active] = f
      /\ \A k \in {"main", "isr"} : k # Active => frame'[k] = frame[k]
  BY <1>1, <1>3
<1>5. Apart'
  <2>1. Idle.op = "none"
    BY DEF Idle
  <2>2. CASE inIsr
    <3>1. /\ Active = "isr" /\ frame'["isr"] = f /\ frame'["main"] = frame["main"]
          /\ op # "own"
      BY <1>1, <1>4, <2>2 DEF Active
    <3> QED BY <1>1, <1>2, <1>3, <2>2, <3>1 DEF Apart, Setting
  <2>3. CASE ~inIsr
    <3>1. Active = "main" /\ frame'["main"] = f /\ frame'["isr"] = Idle
      BY <1>3, <1>4, <2>3 DEF Active, Apart
    <3>2. deadlines = {} => ~mtie
      BY <1>3 DEF Alarms
    <3> QED BY <1>1, <1>2, <1>3, <2>1, <2>3, <3>1, <3>2 DEF Apart
  <2> QED BY <2>2, <2>3
<1>6. mtime <= mtime' /\ mtimecmp' = mtimecmp /\ timerIrq' = (mtime >= mtimecmp)
  BY <1>2, <1>3, TimerStep, CmpStep
<1>7. ~Changing(f) /\ ~Changing(me)
  BY <1>1, <1>2 DEF Changing
<1>8. \A k \in {"main", "isr"} : Changing(frame[k])' = Changing(frame[k])
  BY <1>3, <1>4, <1>7 DEF Changing
<1>9. Alarms'
  <2> SUFFICES ASSUME mtie' PROVE Alarms'
    BY DEF Alarms
  <2>1. ASSUME timerIrq' PROVE Due'
    <3>1. mtime \in Nat /\ mtime' \in Nat /\ mtime <= mtime'
      BY <1>2, <2>1, IrqDue
    <3>2. PICK d \in deadlines : mtime >= d
      BY <1>2, <2>1, IrqDue
    <3>3. d \in Nat
      BY <1>3 DEF Types
    <3> QED BY <1>2, <3>1, <3>2, <3>3 DEF Due
  <2> QED BY <1>2, <1>3, <1>6, <1>8, <2>1 DEF Alarms
<1>10. Reading(frame[Active])' /\ Change(frame[Active])'
  <2>1. frame'[Active'] = f
    BY <1>3, <1>4
  <2>2. f.at \in {"hi", "lo", "again"} => f.at = "hi" /\ f.start <= mtime'
    BY <1>1, <1>6
  <2>3. /\ f.op = "stop" => f.at = "disable"
        /\ f.op = "alarm" => f.at = "hi"
    BY <1>1 DEF FrameOK, Places
  <2> QED BY <2>1, <2>2, <2>3 DEF Reading, Change, Changing
<1>11. \A k \in {"main", "isr"} \ {Active} : Change(frame[k])'
  BY <1>2, <1>3, <1>4, ChangeKept
<1> QED BY <1>1, <1>2, <1>3, <1>5, <1>9, <1>10, <1>11, MoveStep DEF Types

\* csrw mie at the end of alarm_soc_timer.
LEMMA EnableStep ==
  ASSUME TimeInv, Enable
  PROVE  TimeInv'
<1>1. /\ ~bus.cyc /\ TimerTick(bus) /\ bus' = Quiet /\ me.at = "enable"
      /\ mtie' = TRUE /\ inIsr' = inIsr /\ deadlines' = deadlines
      /\ frame' = [frame EXCEPT ![Active] = Idle]
  BY DEF Enable, Clock, Goto
<1>2. /\ Types /\ Owned /\ Apart /\ Alarms /\ ~timerAck /\ ~timerAck'
      /\ Active \in {"main", "isr"} /\ DOMAIN frame = {"main", "isr"} /\ Active' = Active
      /\ me = frame[Active] /\ me.op = "alarm" /\ Change(me) /\ me.time \in Nat
  BY <1>1, ActiveFrame, TimerStep DEF TimeInv, Types, Owned, FrameOK, Places, Active
<1>3. /\ frame'[Active] = Idle
      /\ \A k \in {"main", "isr"} : k # Active => frame'[k] = frame[k]
  BY <1>1, <1>2
<1>4. mtimecmp = me.time /\ deadlines = {me.time}
  BY <1>1, <1>2 DEF Change
<1>5. \A k \in {"main", "isr"} : k # Active => ~Setting(frame[k]) /\ ~Changing(frame[k])
  BY <1>2, OtherFrame DEF Setting
<1>6. mtime <= mtime' /\ mtimecmp' = mtimecmp /\ timerIrq' = (mtime >= mtimecmp)
      /\ mtime \in 0..MaxTime /\ mtime' \in 0..MaxTime
  BY <1>1, <1>2, TimerStep, CmpStep DEF Types
<1>7. Idle.op = "none" /\ Idle.at = "idle" /\ FrameOK(Idle)
  BY TimerAssumption DEF Idle, FrameOK, Places, AllPlaces
<1>8. Apart'
  <2>1. CASE inIsr
    BY <1>1, <1>2, <1>3, <1>7, <2>1 DEF Apart, Setting, Active
  <2>2. CASE ~inIsr
    BY <1>1, <1>2, <1>3, <1>7, <2>2 DEF Apart, Setting, Active
  <2> QED BY <2>1, <2>2
<1>9. Alarms'
  <2>1. \A n \in 0..MaxTime : n \in Nat
    BY TimerAssumption
  <2>2. timerIrq' => mtime' >= me.time
    <3>1. mtime' \in Nat /\ mtime \in Nat /\ (timerIrq' => mtime >= me.time)
      BY <1>4, <1>6, <2>1
    <3> QED BY <1>2, <1>6, <3>1
  <2>3. timerIrq' => Due'
    BY <1>1, <1>4, <2>2 DEF Due
  <2> QED BY <1>1, <1>4, <1>6, <2>3 DEF Alarms
<1>10. Reading(frame[Active])' /\ Change(frame[Active])'
  BY <1>2, <1>3, <1>7 DEF Reading, Change
<1>11. \A k \in {"main", "isr"} \ {Active} : Change(frame[k])'
  BY <1>3, <1>5 DEF Change, Setting
<1> QED BY <1>1, <1>2, <1>7, <1>8, <1>9, <1>10, <1>11, MoveStep DEF Types

\* csrw mie at the beginning of alarm_soc_timer_stop.
LEMMA DisableStep ==
  ASSUME TimeInv, Disable
  PROVE  TimeInv'
<1> DEFINE f == [me EXCEPT !.at = "park"]
<1>1. /\ ~bus.cyc /\ TimerTick(bus) /\ bus' = Quiet /\ me.at = "disable"
      /\ mtie' = FALSE /\ inIsr' = inIsr /\ deadlines' = {}
      /\ frame' = [frame EXCEPT ![Active] = f]
  BY DEF Disable, Clock, Goto
<1>2. /\ Types /\ Owned /\ Apart /\ ~timerAck'
      /\ Active \in {"main", "isr"} /\ DOMAIN frame = {"main", "isr"} /\ Active' = Active
      /\ me = frame[Active] /\ me.op = "stop" /\ FrameOK(me)
  BY <1>1, ActiveFrame, TimerStep DEF TimeInv, Types, Owned, FrameOK, Places, Active
<1>3. FrameOK(f) /\ f.op = "stop" /\ f.at = "park"
  BY <1>2 DEF FrameOK, Places, AllPlaces
<1> HIDE DEF f
<1>4. /\ frame'[Active] = f
      /\ \A k \in {"main", "isr"} : k # Active => frame'[k] = frame[k]
  BY <1>1, <1>2
<1>5. \A k \in {"main", "isr"} : k # Active => ~Setting(frame[k]) /\ ~Changing(frame[k])
  BY <1>2, OtherFrame DEF Setting
<1>6. Apart'
  <2>1. CASE inIsr
    BY <1>1, <1>2, <1>3, <1>4, <1>5, <2>1 DEF Apart, Setting, Active
  <2>2. CASE ~inIsr
    BY <1>1, <1>2, <1>3, <1>4, <1>5, <2>2 DEF Apart, Setting, Active
  <2> QED BY <2>1, <2>2
<1>7. Alarms'
  BY <1>1 DEF Alarms
<1>8. Reading(frame[Active])' /\ Change(frame[Active])'
  BY <1>1, <1>2, <1>3, <1>4 DEF Reading, Change
<1>9. \A k \in {"main", "isr"} \ {Active} : Change(frame[k])'
  BY <1>4, <1>5 DEF Change, Setting
<1> QED BY <1>1, <1>2, <1>3, <1>6, <1>7, <1>8, <1>9, MoveStep

\* What __mtime's reads return.
LEMMA DataRead ==
  ASSUME Types, bus = Request(me)
  PROVE  /\ me.at \in {"hi", "again"} => TimerDataOut(bus) = mtime \div LoSize
         /\ me.at = "lo" => TimerDataOut(bus) = mtime % LoSize
         /\ mtime \in Nat /\ mtime \div LoSize \in Nat /\ mtime % LoSize \in 0 .. LoSize - 1
<1>1. mtime \in Nat /\ LoSize \in Nat \ {0}
  BY TimerAssumption DEF Types
<1>2. mtime \div LoSize \in Nat /\ mtime % LoSize \in 0 .. LoSize - 1
  BY <1>1, DivMod, Zenon
<1>3. me.at \in {"hi", "again"} => TimerDataOut(bus) = mtime \div LoSize
  BY DEF Request, Read, TimerDataOut, Part
<1>4. me.at = "lo" => TimerDataOut(bus) = mtime % LoSize
  BY DEF Request, Read, TimerDataOut, Part
<1> QED BY <1>1, <1>2, <1>3, <1>4

\* The frame keeps its form when __mtime stores what it has read.
LEMMA FrameRead ==
  ASSUME NEW f, FrameOK(f), NEW q \in Nat, NEW r \in 0 .. LoSize - 1
  PROVE  /\ f.at = "hi" => FrameOK([f EXCEPT !.at = "lo", !.hi = q])
         /\ f.at = "lo" => FrameOK([f EXCEPT !.at = "again", !.lo = r])
         /\ f.at = "again" /\ f.op = "alarm" => FrameOK([f EXCEPT !.at = "park", !.time = q])
<1>1. f.op \in {"none", "mtime", "alarm", "stop", "own"} /\ f.at \in Places[f.op]
  BY DEF FrameOK
<1>2. ASSUME f.at = "hi" PROVE FrameOK([f EXCEPT !.at = "lo", !.hi = q])
  <2>1. f.op \in {"mtime", "alarm"}
    BY <1>1, <1>2 DEF Places
  <2>2. "lo" \in Places[f.op] /\ "lo" \in AllPlaces
    BY <2>1 DEF Places, AllPlaces
  <2> QED BY <2>1, <2>2 DEF FrameOK
<1>3. ASSUME f.at = "lo" PROVE FrameOK([f EXCEPT !.at = "again", !.lo = r])
  <2>1. f.op \in {"mtime", "alarm"}
    BY <1>1, <1>3 DEF Places
  <2>2. "again" \in Places[f.op] /\ "again" \in AllPlaces
    BY <2>1 DEF Places, AllPlaces
  <2> QED BY <2>1, <2>2 DEF FrameOK
<1>4. ASSUME f.op = "alarm" PROVE FrameOK([f EXCEPT !.at = "park", !.time = q])
  <2>1. "park" \in Places[f.op] /\ "park" \in AllPlaces
    BY <1>4 DEF Places, AllPlaces
  <2> QED BY <1>4, <2>1 DEF FrameOK
<1> QED BY <1>2, <1>3, <1>4

\* The next place of a service.
LEMMA AfterStep ==
  ASSUME Types, Accessing, bus = Request(me), NEW f, f = After(me, TimerDataOut(bus))
  PROVE  /\ FrameOK(f) /\ (f.op = me.op \/ f = Idle)
         /\ me.at = "hi" => f = [me EXCEPT !.at = "lo", !.hi = mtime \div LoSize]
         /\ me.at = "lo" => f = [me EXCEPT !.at = "again", !.lo = mtime % LoSize]
         /\ me.at = "again" => \/ f = [me EXCEPT !.at = "hi"] /\ mtime \div LoSize # me.hi
                               \/ f = Idle
                               \/ /\ f = [me EXCEPT !.at = "park", !.time = Add64(Value(me), me.arg)]
                                  /\ me.op = "alarm"
         /\ me.at = "park" => f = [me EXCEPT !.at = "low"]
         /\ me.at = "low" => f = [me EXCEPT !.at = "high"]
         /\ me.at = "high" /\ me.op = "alarm" => f = [me EXCEPT !.at = "frqHi"]
         /\ me.at = "high" /\ me.op # "alarm" => f = Idle
         /\ me.at = "frqHi" => f = [me EXCEPT !.at = "frqLo"]
         /\ me.at = "frqLo" => f = [me EXCEPT !.at = "enable"]
         /\ me.op = "own" => f = Idle
<1> DEFINE d == TimerDataOut(bus)
<1>1. /\ FrameOK(me) /\ mtime \div LoSize \in Nat /\ mtime % LoSize \in 0 .. LoSize - 1
      /\ me.at \in {"hi", "again"} => d = mtime \div LoSize
      /\ me.at = "lo" => d = mtime % LoSize
  BY ActiveFrame, DataRead
<1>2. FrameOK(Idle)
  BY TimerAssumption DEF Idle, FrameOK, Places, AllPlaces
<1> HIDE DEF d
<1>3. CASE me.at = "hi"
  <2>1. f = [me EXCEPT !.at = "lo", !.hi = mtime \div LoSize]
    BY <1>1, <1>3 DEF After, d
  <2>2. FrameOK([me EXCEPT !.at = "lo", !.hi = mtime \div LoSize])
    BY <1>1, <1>3, FrameRead
  <2> QED BY <1>1, <1>3, <2>1, <2>2 DEF FrameOK, Places
<1>4. CASE me.at = "lo"
  <2>1. f = [me EXCEPT !.at = "again", !.lo = mtime % LoSize]
    BY <1>1, <1>4 DEF After, d
  <2>2. FrameOK([me EXCEPT !.at = "again", !.lo = mtime % LoSize])
    BY <1>1, <1>4, FrameRead
  <2> QED BY <1>1, <1>4, <2>1, <2>2 DEF FrameOK, Places
<1>5. CASE me.at = "again"
  <2>1. f = IF mtime \div LoSize # me.hi THEN [me EXCEPT !.at = "hi"]
            ELSE IF me.op = "mtime" THEN Idle
            ELSE [me EXCEPT !.at = "park", !.time = Add64(Value(me), me.arg)]
    BY <1>1, <1>5 DEF After, d
  <2>2. me.op \in {"mtime", "alarm"}
    BY <1>1, <1>5 DEF FrameOK, Places
  <2>3. Add64(Value(me), me.arg) \in Nat
    <3>1. /\ LoSize * HiSize \in Nat \ {0} /\ me.hi * LoSize \in Nat /\ me.lo \in Nat
          /\ me.arg \in Nat
      BY <1>1, TimerAssumption DEF FrameOK
    <3>2. Value(me) + me.arg \in Nat
      BY <3>1 DEF Value
    <3> QED BY <3>1, <3>2, DivMod, Zenon DEF Add64
  <2>4. CASE f = [me EXCEPT !.at = "hi"] /\ mtime \div LoSize # me.hi
    BY <1>1, <1>5, <2>2, <2>4 DEF FrameOK, Places, AllPlaces
  <2>5. CASE f = Idle
    BY <1>2, <1>5, <2>2, <2>5
  <2>6. CASE f = [me EXCEPT !.at = "park", !.time = Add64(Value(me), me.arg)] /\ me.op = "alarm"
    <3>1. FrameOK([me EXCEPT !.at = "park", !.time = Add64(Value(me), me.arg)])
      BY <1>1, <1>5, <2>3, <2>6, FrameRead
    <3> QED BY <1>1, <1>5, <2>6, <3>1 DEF FrameOK
  <2> QED BY <2>1, <2>2, <2>4, <2>5, <2>6
<1>6. CASE me.at = "park"
  <2>1. f = [me EXCEPT !.at = "low"]
    BY <1>6 DEF After
  <2> QED BY <1>1, <1>6, <2>1 DEF FrameOK, Places, AllPlaces
<1>7. CASE me.at = "low"
  <2>1. f = [me EXCEPT !.at = "high"]
    BY <1>7 DEF After
  <2> QED BY <1>1, <1>7, <2>1 DEF FrameOK, Places, AllPlaces
<1>8. CASE me.at = "high"
  <2>1. f = IF me.op = "stop" THEN Idle ELSE [me EXCEPT !.at = "frqHi"]
    BY <1>8 DEF After
  <2>2. me.op \in {"alarm", "stop"}
    BY <1>1, <1>8 DEF FrameOK, Places
  <2> QED BY <1>1, <1>2, <1>8, <2>1, <2>2 DEF FrameOK, Places, AllPlaces
<1>9. CASE me.at = "frqHi"
  <2>1. f = [me EXCEPT !.at = "frqLo"]
    BY <1>9 DEF After
  <2> QED BY <1>1, <1>9, <2>1 DEF FrameOK, Places, AllPlaces
<1>10. CASE me.at = "frqLo"
  <2>1. f = [me EXCEPT !.at = "enable"]
    BY <1>10 DEF After
  <2> QED BY <1>1, <1>10, <2>1 DEF FrameOK, Places, AllPlaces
<1>11. CASE me.at \in {"rate", "clear"}
  BY <1>2, <1>11 DEF After
<1> QED BY <1>1, <1>3, <1>4, <1>5, <1>6, <1>7, <1>8, <1>9, <1>10, <1>11
        DEF FrameOK, AllPlaces, Accessing

\* What the end of an access does to the set of alarms.
LEMMA DeadlinesStep ==
  ASSUME Types, Accessing, bus = Request(me), NEW f, f = After(me, TimerDataOut(bus))
  PROVE  /\ NewDeadlines \subseteq Nat
         /\ me.op # "alarm" => NewDeadlines = deadlines
         /\ me.op = "alarm" /\ me.at = "high" => NewDeadlines = {me.time}
         /\ me.at # "high" => deadlines \subseteq NewDeadlines
         /\ me.op = "alarm" /\ me.at = "again" /\ f.at = "park" => f.time \in NewDeadlines
<1>1. FrameOK(f) /\ FrameOK(me) /\ deadlines \subseteq Nat
  BY AfterStep, ActiveFrame DEF Types
<1>2. f.time \in Nat /\ me.time \in Nat
  BY <1>1 DEF FrameOK
<1>3. NewDeadlines = CASE me.op = "alarm" /\ me.at = "again" /\ f.at = "park" ->
                            deadlines \cup {f.time}
                       [] me.op = "alarm" /\ me.at = "high" -> {me.time}
                       [] OTHER -> deadlines
  BY DEF NewDeadlines
<1> QED BY <1>1, <1>2, <1>3

\* The knowledge of __mtime after an access.
LEMMA CompleteReading ==
  ASSUME TimeInv, TimerTick(bus), Accessing, bus = Request(me),
         NEW f, f = After(me, TimerDataOut(bus)), frame'[Active'] = f
  PROVE  Reading(frame[Active])'
<1> SUFFICES ASSUME f.at \in {"hi", "lo", "again"} PROVE Reading(frame[Active])'
  BY DEF Reading
<1>1. /\ Types /\ Owned /\ Apart /\ FrameOK(me) /\ Reading(me) /\ FrameOK(f)
      /\ Active \in {"main", "isr"} /\ me = frame[Active]
  BY ActiveFrame, AfterStep DEF TimeInv
<1>2. me.at \in {"hi", "lo", "again"}
  <2>1. me.at \in AllPlaces /\ me.op \in {"none", "mtime", "alarm", "stop", "own"}
        /\ me \in [op : {"none", "mtime", "alarm", "stop", "own"}, at : AllPlaces, hi : Nat,
                   lo : 0 .. LoSize - 1, time : Nat, arg : Nat, start : Nat]
        /\ me.at \in Places[me.op]
    BY <1>1 DEF FrameOK
  <2>2. me.at = "high" => me.op \in {"alarm", "stop"}
    BY <2>1 DEF Places
  <2>3. me.at \in {"rate", "clear"} => me.op = "own"
    BY <2>1 DEF Places
  <2>4. Idle.at = "idle"
    BY DEF Idle
  <2> QED BY <1>1, <2>1, <2>2, <2>3, <2>4, AfterStep DEF AllPlaces, Accessing
<1>3. mtime <= mtime' /\ mtime \in 0..MaxTime /\ mtime' \in 0..MaxTime
  BY <1>1, <1>2, NobodyReads, TimerStep DEF Types
<1>4. \A n \in 0..MaxTime : n \in Nat
  BY TimerAssumption
<1>5. /\ mtime \in Nat /\ mtime' \in Nat /\ LoSize \in Nat \ {0}
      /\ me.start \in Nat /\ me.hi \in Nat /\ me.start <= mtime
  BY <1>1, <1>2, <1>3, <1>4, TimerAssumption DEF FrameOK, Reading
<1>6. me.start <= mtime'
  BY <1>3, <1>5
<1>7. CASE me.at = "hi"
  <2>1. f.at = "lo" /\ f.hi = mtime \div LoSize /\ f.start = me.start
    <3>1. f = [me EXCEPT !.at = "lo", !.hi = mtime \div LoSize]
      BY <1>1, <1>7, AfterStep
    <3> QED BY <1>1, <3>1 DEF FrameOK
  <2>2. mtime \div LoSize <= mtime' \div LoSize
    BY <1>3, <1>5, DivMono
  <2> QED BY <1>6, <2>1, <2>2 DEF Reading
<1>8. CASE me.at = "lo"
  <2>1. f.at = "again" /\ f.lo = mtime % LoSize /\ f.hi = me.hi /\ f.start = me.start
    <3>1. f = [me EXCEPT !.at = "again", !.lo = mtime % LoSize]
      BY <1>1, <1>8, AfterStep
    <3> QED BY <1>1, <3>1 DEF FrameOK
  <2>2. me.hi <= mtime \div LoSize
    BY <1>1, <1>8 DEF Reading
  <2>3. mtime \in me.start .. mtime'
    BY <1>3, <1>5
  <2>4. \E t \in f.start .. mtime' : f.lo = t % LoSize /\ f.hi <= t \div LoSize
    BY <2>1, <2>2, <2>3
  <2> QED BY <1>6, <2>1, <2>4 DEF Reading
<1>9. CASE me.at = "again"
  <2>1. Idle.at = "idle"
    BY DEF Idle
  <2>2. f.at = "hi" /\ f.start = me.start
    <3>1. f \in {[me EXCEPT !.at = "hi"], Idle,
                  [me EXCEPT !.at = "park", !.time = Add64(Value(me), me.arg)]}
      BY <1>1, <1>9, AfterStep
    <3>2. [me EXCEPT !.at = "park", !.time = Add64(Value(me), me.arg)].at = "park"
      BY <1>1 DEF FrameOK
    <3>3. f = [me EXCEPT !.at = "hi"]
      BY <2>1, <3>1, <3>2
    <3> QED BY <1>1, <3>3 DEF FrameOK
  <2> QED BY <1>6, <2>2 DEF Reading
<1> QED BY <1>2, <1>7, <1>8, <1>9

\* The change of mtimecmp after an access.
LEMMA CompleteChange ==
  ASSUME TimeInv, TimerTick(bus), bus.cyc, timerAck, ~timerAck', Accessing, bus = Request(me),
         NEW f, f = After(me, TimerDataOut(bus)), frame'[Active'] = f,
         deadlines' = NewDeadlines, mtie' = mtie
  PROVE  Change(frame[Active])'
<1>1. /\ Types /\ Owned /\ Apart /\ Alarms /\ FrameOK(me) /\ Change(me) /\ FrameOK(f)
      /\ Active \in {"main", "isr"} /\ me = frame[Active]
  BY ActiveFrame, AfterStep DEF TimeInv
<1>2. Idle.op = "none" /\ Idle.at = "idle"
  BY DEF Idle
<1>3. CASE me.op # "alarm"
  <2>1. f.op = me.op \/ f = Idle
    BY <1>1, AfterStep
  <2>2. deadlines' = deadlines
    BY <1>1, <1>3, DeadlinesStep
  <2>3. me.op = "stop" => ~mtie /\ deadlines = {}
    BY <1>1 DEF Change, Accessing
  <2> QED BY <1>2, <1>3, <2>1, <2>2, <2>3 DEF Change
<1>4. CASE me.op = "alarm"
  <2>1. me \in [op : {"none", "mtime", "alarm", "stop", "own"}, at : AllPlaces, hi : Nat,
                lo : 0 .. LoSize - 1, time : Nat, arg : Nat, start : Nat]
        /\ me.at \in {"hi", "lo", "again", "park", "low", "high", "frqHi", "frqLo"}
    BY <1>1, <1>4 DEF FrameOK, Places, Accessing
  <2>2. timerIrq' = (mtime >= mtimecmp)
    BY <1>1, TimerStep
  <2>3. Parked => ~timerIrq'
    BY <1>1, <2>2, ParkedIsFar
  <2>4. CASE me.at \in {"hi", "lo", "again"}
    <3>0. /\ f.op \in {"alarm", "none"} /\ f.at \in {"idle", "hi", "lo", "again", "park"}
          /\ f.at = "park" => me.at = "again" /\ f.op = "alarm"
      <4>1. CASE me.at = "hi"
        <5>1. f = [me EXCEPT !.at = "lo", !.hi = mtime \div LoSize]
          BY <1>1, <4>1, AfterStep
        <5> QED BY <1>4, <2>1, <5>1
      <4>2. CASE me.at = "lo"
        <5>1. f = [me EXCEPT !.at = "again", !.lo = mtime % LoSize]
          BY <1>1, <4>2, AfterStep
        <5> QED BY <1>4, <2>1, <5>1
      <4>3. CASE me.at = "again"
        <5>1. f \in {[me EXCEPT !.at = "hi"], Idle,
                     [me EXCEPT !.at = "park", !.time = Add64(Value(me), me.arg)]}
          BY <1>1, <4>3, AfterStep
        <5> QED BY <1>2, <1>4, <2>1, <4>3, <5>1
      <4> QED BY <2>4, <4>1, <4>2, <4>3
    <3>1. CASE f.at = "park"
      <4>1. me.at = "again" /\ f.op = "alarm"
        BY <3>0, <3>1
      <4>2. f.time \in deadlines' /\ deadlines \subseteq deadlines'
        BY <1>1, <1>4, <3>1, <4>1, DeadlinesStep
      <4>3. mtimecmp' = mtimecmp
        BY <1>1, <1>4, <2>4, CmpStep DEF Changing
      <4>4. \A k \in {"main", "isr"} : ~Changing(frame[k])
        <5>1. ~Changing(me)
          BY <4>1 DEF Changing
        <5>2. \A k \in {"main", "isr"} : k # Active => ~Changing(frame[k])
          BY <1>1, <1>4, OtherFrame DEF Setting
        <5> QED BY <1>1, <5>1, <5>2
      <4>5. mtie => mtimecmp \in deadlines
        BY <1>1, <4>4 DEF Alarms
      <4> QED BY <3>1, <4>1, <4>2, <4>3, <4>5 DEF Change
    <3>2. CASE f.at # "park"
      <4>1. f.op \in {"alarm", "none"} /\ f.at \in {"idle", "hi", "lo", "again"}
        BY <3>0, <3>2
      <4> QED BY <4>1 DEF Change, Changing
    <3> QED BY <3>1, <3>2
  <2>5. CASE me.at = "park"
    <3>1. f.op = "alarm" /\ f.at = "low" /\ f.time = me.time
      BY <1>1, <1>4, <2>1, <2>5, AfterStep
    <3>2. Parked /\ Parked' /\ me.time \in deadlines
      BY <1>1, <1>4, <2>5, CmpStep DEF Change, Changing
    <3>3. deadlines \subseteq deadlines'
      BY <1>1, <2>5, DeadlinesStep
    <3> QED BY <2>3, <3>1, <3>2, <3>3 DEF Change, Changing
  <2>6. CASE me.at = "low"
    <3>1. f.op = "alarm" /\ f.at = "high" /\ f.time = me.time
      BY <1>1, <1>4, <2>1, <2>6, AfterStep
    <3>2. Parked /\ Parked' /\ me.time \in deadlines /\ mtimecmp' % LoSize = me.time % LoSize
      BY <1>1, <1>4, <2>6, CmpStep DEF Change, Changing
    <3>3. deadlines \subseteq deadlines'
      BY <1>1, <2>6, DeadlinesStep
    <3> QED BY <2>3, <3>1, <3>2, <3>3 DEF Change, Changing
  <2>7. CASE me.at = "high"
    <3>1. f.op = "alarm" /\ f.at = "frqHi" /\ f.time = me.time
      BY <1>1, <1>4, <2>1, <2>7, AfterStep
    <3>2. mtimecmp' = me.time /\ deadlines' = {me.time}
      BY <1>1, <1>4, <2>7, CmpStep, DeadlinesStep
    <3> QED BY <3>1, <3>2 DEF Change, Changing
  <2>8. CASE me.at \in {"frqHi", "frqLo"}
    <3>1. f.op = "alarm" /\ f.at \in {"frqLo", "enable"} /\ f.time = me.time
      BY <1>1, <1>4, <2>1, <2>8, AfterStep
    <3>2. mtimecmp' = mtimecmp
      BY <1>1, <2>8, CmpStep DEF Changing
    <3>3. deadlines' = deadlines
      BY <2>8 DEF NewDeadlines
    <3>4. mtimecmp = me.time /\ deadlines = {me.time}
      BY <1>1, <1>4, <2>8 DEF Change
    <3> QED BY <3>1, <3>2, <3>3, <3>4 DEF Change, Changing
  <2> QED BY <2>1, <2>4, <2>5, <2>6, <2>7, <2>8
<1> QED BY <1>3, <1>4

\* The interrupt line after an access.
LEMMA CompleteAlarms ==
  ASSUME TimeInv, TimerTick(bus), bus.cyc, timerAck, Accessing, bus = Request(me),
         NEW f, f = After(me, TimerDataOut(bus)), frame' = [frame EXCEPT ![Active] = f],
         deadlines' = NewDeadlines, mtie' = mtie
  PROVE  Alarms'
<1> SUFFICES ASSUME mtie PROVE Alarms'
  BY DEF Alarms
<1>1. /\ Types /\ Owned /\ Apart /\ Alarms /\ FrameOK(me) /\ Change(me) /\ FrameOK(f)
      /\ Active \in {"main", "isr"} /\ me = frame[Active] /\ DOMAIN frame = {"main", "isr"}
      /\ deadlines # {} /\ deadlines \subseteq Nat
  BY ActiveFrame, AfterStep DEF TimeInv, Alarms, Types
<1>2. /\ frame'[Active] = f
      /\ \A k \in {"main", "isr"} : k # Active => frame'[k] = frame[k]
  BY <1>1
<1>3. me.op # "stop"
  BY <1>1 DEF Change, Accessing
<1>4. me.at = "high" => me.op = "alarm"
  BY <1>1, <1>3 DEF FrameOK, Places
<1>5. deadlines' # {}
  <2>1. CASE me.at = "high"
    BY <1>1, <1>4, <2>1, DeadlinesStep
  <2>2. CASE me.at # "high"
    BY <1>1, <2>2, DeadlinesStep
  <2> QED BY <2>1, <2>2
<1>6. ASSUME \A k \in {"main", "isr"} : ~Changing(frame'[k])
      PROVE  mtimecmp' \in deadlines'
  <2>1. CASE me.at = "high"
    BY <1>1, <1>4, <2>1, DeadlinesStep, CmpStep
  <2>2. CASE me.at # "high"
    <3>1. ~Changing(me)
      <4>1. me.at # "park" /\ me.at # "low"
        <5>1. me.at = "park" => f.at = "low"
          BY <1>1, AfterStep DEF FrameOK
        <5>2. me.at = "low" => f.at = "high"
          BY <1>1, AfterStep DEF FrameOK
        <5> QED BY <1>1, <1>2, <1>6, <5>1, <5>2 DEF Changing
      <4> QED BY <2>2, <4>1 DEF Changing
    <3>2. \A k \in {"main", "isr"} : ~Changing(frame[k])
      BY <1>1, <1>2, <1>6, <3>1
    <3>3. mtimecmp \in deadlines
      BY <1>1, <3>2 DEF Alarms
    <3>4. mtimecmp' = mtimecmp
      BY <3>1, CmpStep
    <3> QED BY <1>1, <2>2, <3>3, <3>4, DeadlinesStep
  <2> QED BY <2>1, <2>2
<1>7. ASSUME timerIrq' PROVE Due'
  <2>1. /\ mtime \in Nat /\ mtime' \in Nat /\ mtime <= mtime'
        /\ \E d \in deadlines : mtime >= d
    BY <1>7, IrqDue
  <2>2. CASE me.at = "high"
    <3>1. mtime >= mtimecmp /\ mtimecmp = me.time /\ me.time \in Nat
      BY <1>1, <1>4, <1>7, <2>2, TimerStep DEF Change, FrameOK
    <3>2. mtime' >= me.time
      BY <2>1, <3>1
    <3>3. deadlines' = {me.time}
      BY <1>1, <1>4, <2>2, DeadlinesStep
    <3> QED BY <3>2, <3>3 DEF Due
  <2>3. CASE me.at # "high"
    <3>1. PICK d \in deadlines : mtime >= d
      BY <2>1
    <3>2. d \in Nat /\ d \in deadlines'
      BY <1>1, <2>3, <3>1, DeadlinesStep
    <3>3. mtime' >= d
      BY <2>1, <3>1, <3>2
    <3> QED BY <3>2, <3>3 DEF Due
  <2> QED BY <2>2, <2>3
<1>8. /\ Changing(frame["main"])' = Changing(frame'["main"])
      /\ Changing(frame["isr"])' = Changing(frame'["isr"])
  BY DEF Changing
<1> QED BY <1>5, <1>6, <1>7, <1>8 DEF Alarms

\* An access ends.
LEMMA CompleteStep ==
  ASSUME TimeInv, Complete
  PROVE  TimeInv'
<1> DEFINE f == After(me, TimerDataOut(bus))
<1>1. /\ bus.cyc /\ timerAck /\ TimerTick(bus) /\ bus' = Quiet
      /\ mtie' = mtie /\ inIsr' = inIsr /\ deadlines' = NewDeadlines
      /\ frame' = [frame EXCEPT ![Active] = f]
  BY DEF Complete, Clock, Goto
<1> HIDE DEF f
<1>2. /\ Types /\ Owned /\ Apart /\ Alarms /\ ~timerAck'
      /\ Active \in {"main", "isr"} /\ DOMAIN frame = {"main", "isr"} /\ Active' = Active
      /\ me = frame[Active] /\ mtie \in BOOLEAN
  BY <1>1, ActiveFrame, TimerStep DEF TimeInv, Types, Active
<1>3. /\ frame'[Active] = f
      /\ \A k \in {"main", "isr"} : k # Active => frame'[k] = frame[k]
  BY <1>1, <1>2
<1>4. Idle.op = "none" /\ Idle.at = "idle" /\ FrameOK(Idle)
  BY TimerAssumption DEF Idle, FrameOK, Places, AllPlaces
<1>5. CASE Accessing /\ bus = Request(me)
  <2>1. FrameOK(f) /\ (f.op = me.op \/ f = Idle) /\ NewDeadlines \subseteq Nat
        /\ (me.op # "alarm" => NewDeadlines = deadlines)
    BY <1>2, <1>5, AfterStep, DeadlinesStep DEF f
  <2>2. me # Idle
    BY <1>4, <1>5 DEF Accessing
  <2>3. Apart'
    <3>1. CASE inIsr
      <4>1. Active = "isr" /\ frame'["isr"] = f /\ frame'["main"] = frame["main"]
        BY <1>2, <1>3, <3>1 DEF Active
      <4>2. me = frame["isr"] /\ ~Setting(frame["main"]) /\ frame["main"].op # "own"
            /\ me.op # "own"
        BY <1>2, <2>2, <3>1 DEF Apart, Active
      <4> QED BY <1>1, <1>4, <2>1, <3>1, <4>1, <4>2 DEF Apart, Setting
    <3>2. CASE ~inIsr
      <4>1. Active = "main" /\ frame'["main"] = f /\ frame'["isr"] = Idle /\ me = frame["main"]
        BY <1>2, <1>3, <3>2 DEF Active, Apart
      <4> QED BY <1>1, <1>2, <1>4, <2>1, <3>2, <4>1 DEF Apart, Setting
    <3> QED BY <3>1, <3>2
  <2>4. Alarms'
    BY <1>1, <1>5, CompleteAlarms DEF f
  <2>5. Reading(frame[Active])' /\ Change(frame[Active])'
    BY <1>1, <1>2, <1>3, <1>5, CompleteReading, CompleteChange DEF f
  <2>6. ASSUME NEW k \in {"main", "isr"}, k # Active PROVE Change(frame[k])'
    <3>1. ~Setting(frame[k])
      BY <1>2, <1>4, <2>2, <2>6 DEF Apart, Active, me, Setting
    <3> QED BY <1>3, <2>6, <3>1 DEF Change, Setting
  <2> QED BY <1>1, <1>2, <2>1, <2>3, <2>4, <2>5, <2>6, MoveStep
<1>6. CASE ~inIsr /\ ~mtie /\ deadlines = {} /\ frame["main"] = Idle /\ frame["isr"] = Idle
  <2>1. me = Idle /\ f = Idle /\ deadlines' = {}
    BY <1>1, <1>2, <1>4, <1>6 DEF After, f, NewDeadlines
  <2>2. \A k \in {"main", "isr"} : frame'[k] = Idle
    BY <1>2, <1>3, <1>6, <2>1
  <2>3. Apart'
    BY <1>1, <1>4, <1>6, <2>2 DEF Apart, Setting
  <2>4. Alarms'
    BY <1>1, <1>6 DEF Alarms
  <2>5. \A k \in {"main", "isr"} : Reading(frame[k])' /\ Change(frame[k])'
    BY <1>4, <2>2 DEF Reading, Change
  <2>6. Reading(frame[Active])' /\ Change(frame[Active])'
    BY <1>2, <2>5
  <2> QED BY <1>1, <1>2, <1>4, <2>1, <2>3, <2>4, <2>5, <2>6, MoveStep
<1> QED BY <1>1, <1>2, <1>5, <1>6 DEF Owned

\* The reset, which may find an access on the bus and leave it there.
LEMMA ResetStep ==
  ASSUME TimeInv, Reset
  PROVE  TimeInv'
<1>1. /\ Types /\ Owned /\ MaxTime \in Nat
  BY TimerAssumption DEF TimeInv
<1>2. Idle.op = "none" /\ Idle.at = "idle" /\ FrameOK(Idle)
  BY TimerAssumption DEF Idle, FrameOK, Places, AllPlaces
<1>3. /\ mtime' = 0 /\ mtimecmp' = 0 /\ timerIrq' = FALSE /\ timerAck' = FALSE
      /\ bus' = (IF bus.cyc /\ timerAck THEN Quiet ELSE bus)
      /\ mtie' = FALSE /\ inIsr' = FALSE /\ deadlines' = {}
      /\ DOMAIN frame' = {"main", "isr"} /\ frame'["main"] = Idle /\ frame'["isr"] = Idle
  BY DEF Reset, TimerReset
<1>4. Quiet.cyc = FALSE /\ Quiet.we = FALSE
      /\ Quiet \in [cyc : BOOLEAN, we : BOOLEAN, reg : TimerReg, half : Half, data : Nat]
  BY DEF Quiet, TimerReg, Half
<1>5. Types'
  <2>1. 0 \in 0..MaxTime /\ 0 \in Nat
    BY <1>1
  <2>2. mtime' \in 0..MaxTime /\ mtimecmp' \in Nat /\ deadlines' \subseteq Nat
    BY <1>3, <2>1
  <2>3. bus' \in [cyc : BOOLEAN, we : BOOLEAN, reg : TimerReg, half : Half, data : Nat]
    BY <1>1, <1>3, <1>4 DEF Types
  <2>4. FrameOK(frame["main"])' /\ FrameOK(frame["isr"])'
    BY <1>2, <1>3 DEF FrameOK
  <2> QED BY <1>3, <2>2, <2>3, <2>4 DEF Types
<1>6. Owned'
  BY <1>1, <1>3, <1>4 DEF Owned
<1>7. Apart' /\ Alarms'
  BY <1>2, <1>3 DEF Apart, Alarms, Setting
<1>8. \A k \in {"main", "isr"} : Reading(frame[k])' /\ Change(frame[k])'
  BY <1>2, <1>3 DEF Reading, Change
<1> QED BY <1>5, <1>6, <1>7, <1>8 DEF TimeInv

\* Stuttering.
LEMMA StutterStep ==
  ASSUME TimeInv, UNCHANGED vars
  PROVE  TimeInv'
<1>1. /\ mtime' = mtime /\ mtimecmp' = mtimecmp /\ timerIrq' = timerIrq /\ timerAck' = timerAck
      /\ bus' = bus /\ mtie' = mtie /\ inIsr' = inIsr /\ frame' = frame
      /\ deadlines' = deadlines
  BY DEF vars, timerVars
<1>2. Types' = Types /\ Apart' = Apart /\ Alarms' = Alarms
  BY <1>1 DEF Types, FrameOK, Apart, Setting, Alarms, Changing, Due
<1>3. Owned'
  <2>1. me' = me /\ Accessing' = Accessing
    BY <1>1 DEF me, Active, Accessing
  <2>2. Request(me)' = Request(me)
    BY <2>1 DEF Request, Read, Write, Part
  <2> QED BY <1>1, <2>1, <2>2 DEF Owned, TimeInv
<1>4. \A k \in {"main", "isr"} : Reading(frame[k])' /\ Change(frame[k])'
  <2> TAKE k \in {"main", "isr"}
  <2>1. Reading(frame[k]) /\ Change(frame[k])
    BY DEF TimeInv
  <2>2. Reading(frame[k])' = Reading(frame[k])
    BY <1>1 DEF Reading
  <2>3. Change(frame[k])'
    BY <1>1, <2>1 DEF Change, Changing, Parked
  <2> QED BY <2>1, <2>2, <2>3
<1> QED BY <1>2, <1>3, <1>4 DEF TimeInv

-----------------------------------------------------------------------------
(* The theorems. *)

\* The invariant of the timer services.
THEOREM TimeInvariant == Spec => []TimeInv
<1>1. Init => TimeInv
  <2> SUFFICES ASSUME Init PROVE TimeInv
    OBVIOUS
  <2>1. Idle.op = "none" /\ Idle.at = "idle" /\ FrameOK(Idle) /\ MaxTime \in Nat
    BY TimerAssumption DEF Idle, FrameOK, Places, AllPlaces
  <2>2. frame["main"] = Idle /\ frame["isr"] = Idle /\ DOMAIN frame = {"main", "isr"}
    BY DEF Init
  <2>3. Types
    <3>1. 0 \in 0..MaxTime /\ 0 \in Nat
      BY <2>1
    <3>2. mtime \in 0..MaxTime /\ mtimecmp \in Nat
      BY <3>1 DEF Init
    <3>3. bus \in [cyc : BOOLEAN, we : BOOLEAN, reg : TimerReg, half : Half, data : Nat]
      BY DEF Init, Quiet, TimerReg, Half
    <3> QED BY <2>1, <2>2, <3>2, <3>3 DEF Init, Types
  <2>4. Owned /\ Apart /\ Alarms
    BY <2>1, <2>2 DEF Init, Owned, Apart, Alarms, Quiet, Setting
  <2>5. \A k \in {"main", "isr"} : Reading(frame[k]) /\ Change(frame[k])
    BY <2>1, <2>2 DEF Reading, Change
  <2> QED BY <2>3, <2>4, <2>5 DEF TimeInv
<1>2. TimeInv /\ [Next]_vars => TimeInv'
  <2> SUFFICES ASSUME TimeInv, [Next]_vars PROVE TimeInv'
    OBVIOUS
  <2>0. 0 \in Nat /\ Intervals \subseteq Nat /\ Rates \subseteq Nat
    BY ServicesAssumption, TimerAssumption
  <2>1. CASE Issue
    BY <2>1, IssueStep
  <2>2. CASE Complete
    BY <2>2, CompleteStep
  <2>3. CASE Wait
    BY <2>3, WaitStep DEF Wait, Clock
  <2>4. CASE Enable
    BY <2>4, EnableStep
  <2>5. CASE Disable
    BY <2>5, DisableStep
  <2>6. ASSUME NEW arg \in Intervals, Call("alarm", arg) PROVE TimeInv'
    BY <2>0, <2>6, CallStep
  <2>7. CASE Call("stop", 0) \/ Call("mtime", 0)
    BY <2>0, <2>7, CallStep
  <2>8. ASSUME NEW arg \in Rates, CallOwn("rate", arg) PROVE TimeInv'
    BY <2>0, <2>8, CallStep
  <2>9. CASE CallOwn("clear", 0)
    BY <2>0, <2>9, CallStep
  <2>10. CASE Interrupt \/ Mask \/ Mret
    BY <2>10, InterruptStep
  <2>11. CASE Reset
    BY <2>11, ResetStep
  <2>12. CASE UNCHANGED vars
    BY <2>12, StutterStep
  <2> QED BY <2>1, <2>2, <2>3, <2>4, <2>5, <2>6, <2>7, <2>8, <2>9, <2>10, <2>11, <2>12 DEF Next
<1> QED BY <1>1, <1>2, PTL DEF Spec

\* The interrupt is taken only when an alarm that was asked for is due, at
\* every point of the rewriting of mtimecmp and after every reset.
THEOREM NoEarlyAlarm == Spec => NoEarlyInterrupt
<1>1. TimeInv /\ [Next]_vars => [~inIsr /\ inIsr' => \E d \in deadlines : mtime >= d]_vars
  <2> SUFFICES ASSUME TimeInv, Next, ~inIsr, inIsr' PROVE \E d \in deadlines : mtime >= d
    OBVIOUS
  <2>1. Interrupt
    BY DEF Next, Issue, Complete, Wait, Enable, Disable, Call, CallOwn, Mask, Mret, Reset
  <2> QED BY <2>1 DEF Interrupt, TimeInv, Alarms, Due
<1> QED BY <1>1, TimeInvariant, PTL DEF Spec, NoEarlyInterrupt

\* __mtime returns a value mtime had between the call and the return,
\* whatever the timer and the handler did between its three reads.
THEOREM TimeReadIsReal == Spec => ReadAtomic
<1>1. TimeInv /\ [Next]_vars => [Complete /\ me.at = "again" /\ frame'[Active].at # "hi"
                                   => me.start <= Value(me) /\ Value(me) <= mtime]_vars
  <2> SUFFICES ASSUME TimeInv, Complete, me.at = "again", frame'[Active].at # "hi"
               PROVE  me.start <= Value(me) /\ Value(me) <= mtime
    OBVIOUS
  <2>1. /\ Types /\ Owned /\ FrameOK(me) /\ Reading(me) /\ bus.cyc
        /\ frame' = [frame EXCEPT ![Active] = After(me, TimerDataOut(bus))]
        /\ Active \in {"main", "isr"} /\ DOMAIN frame = {"main", "isr"}
    BY ActiveFrame DEF TimeInv, Types, Complete, Goto
  <2>2. Accessing /\ bus = Request(me)
    <3>1. me # Idle
      BY DEF Idle
    <3> QED BY <2>1, <3>1, ActiveFrame DEF Owned
  <2>3. mtime \div LoSize = me.hi
    <3>1. [me EXCEPT !.at = "hi"].at = "hi"
      BY <2>1 DEF FrameOK
    <3>2. After(me, TimerDataOut(bus)).at # "hi"
      BY <2>1
    <3>3. TimerDataOut(bus) = mtime \div LoSize
      BY <2>1, <2>2, DataRead
    <3> QED BY <3>1, <3>2, <3>3 DEF After
  <2>4. PICK t \in me.start .. mtime : me.lo = t % LoSize /\ me.hi <= t \div LoSize
    BY <2>1 DEF Reading
  <2>5. /\ mtime \in Nat /\ me.start \in Nat /\ t \in Nat /\ t <= mtime /\ me.start <= t
        /\ LoSize \in Nat \ {0} /\ me.hi \in Nat
    BY <2>1, <2>4, TimerAssumption DEF Types, FrameOK
  <2>6. t \div LoSize <= mtime \div LoSize /\ t \div LoSize \in Nat /\ t % LoSize \in Nat
        /\ t = (t \div LoSize) * LoSize + (t % LoSize)
    BY <2>5, DivMono, DivMod, Zenon
  <2>7. t \div LoSize = me.hi
    <3>1. \A a, b \in Nat : a <= b /\ b <= a => a = b
      OBVIOUS
    <3> QED BY <2>3, <2>4, <2>5, <2>6, <3>1
  <2>8. Value(me) = t
    BY <2>4, <2>6, <2>7 DEF Value
  <2> QED BY <2>5, <2>8
<1> QED BY <1>1, TimeInvariant, PTL DEF Spec, ReadAtomic

=============================================================================
