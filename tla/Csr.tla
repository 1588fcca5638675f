--------------------------------- MODULE Csr ---------------------------------
(***************************************************************************)
(* The control and status registers (rtl/cpu/csr.v): a small synchronous   *)
(* memory behind a two-tick handshake, and shadow registers of the enable  *)
(* bits, which are updated on their own.  The random-number register is    *)
(* left out.                                                               *)
(***************************************************************************)
EXTENDS Words

VARIABLES
  csrFile,       \* csr0.mem
  csrData,       \* csr0.data_o
  csrBusy,       \* busy
  csrWe,         \* we
  storedAddr,    \* stored_addr
  storedData,    \* stored_data
  irqEn,         \* irq_en: mstatus.MIE
  irqTimerEn,    \* irq_timer_en: mie.MTIE
  tagsEn,        \* tags_en: tags.LSEN
  tagsIfEn,      \* tags_if_en: tags.ICEN
  tagsSkipSp,    \* tags_skip_sp_en: tags.SKIP_SP
  tagsIrqClear   \* tags_irq_clear, driven to the RAM

csrVars == <<csrFile, csrData, csrBusy, csrWe, storedAddr, storedData, irqEn,
             irqTimerEn, tagsEn, tagsIfEn, tagsSkipSp, tagsIrqClear>>

Csrs == {"MVENDORID", "MHARTID", "MSTATUS", "MISA", "MIE", "MTVEC",
         "MCOUNTEREN", "MSCRATCH", "MEPC", "MCAUSE", "MTVAL", "MIP", "MTAGS"}

\* csr_addr_i: "NONE" is the address 0 driven when nothing is accessed,
\* "MISSING" any other number that names no register.
CsrAddr == Csrs \cup {"NONE", "MISSING"}

\* Bits of the registers.
MIE == 3
MPIE == 7
MTI == 7   \* mip.MTIP and mie.MTIE
LSEN == 0
IACK == 1
ICEN == 2
SKIP_SP == 3

\* csr_index: a number that names no register selects mvendorid.
Index(addr) == IF addr \in Csrs THEN addr ELSE "MVENDORID"

\* One clock edge; c holds csr_en_i, csr_we_i, csr_addr_i and csr_data_i.
\* A request made while the module is busy replaces the stored address and
\* data but starts nothing.
CsrPort ==
  /\ csrFile' = IF csrWe
                THEN [csrFile EXCEPT ![Index(storedAddr)] = storedData]
                ELSE csrFile
  /\ csrData' = csrFile[Index(storedAddr)]
\* Mutation: busy is never cleared.
CsrRequest_StaysBusy(c) ==
  /\ csrBusy' = (c.en \/ csrBusy)
  /\ csrWe' = (~csrBusy /\ IF c.en THEN c.we ELSE csrWe)
  /\ storedAddr' = IF c.en THEN c.addr ELSE storedAddr
  /\ storedData' = IF c.en THEN c.data ELSE storedData

CsrRequest(c) ==
  /\ csrBusy' = (c.en /\ ~csrBusy)
  /\ csrWe' = (~csrBusy /\ IF c.en THEN c.we ELSE csrWe)
  /\ storedAddr' = IF c.en THEN c.addr ELSE storedAddr
  /\ storedData' = IF c.en THEN c.data ELSE storedData
\* Mutation: the shadow of mstatus.MIE can be set but not cleared.
CsrShadows_StickyEnable(c) ==
  LET Shadow(old, addr, bit) == IF c.we /\ c.addr = addr THEN bit \in c.data
                                ELSE old
  IN  /\ irqEn' = (irqEn \/ Shadow(irqEn, "MSTATUS", MIE))
      /\ irqTimerEn' = Shadow(irqTimerEn, "MIE", MTI)
      /\ tagsEn' = Shadow(tagsEn, "MTAGS", LSEN)
      /\ tagsIfEn' = Shadow(tagsIfEn, "MTAGS", ICEN)
      /\ tagsSkipSp' = Shadow(tagsSkipSp, "MTAGS", SKIP_SP)
      /\ tagsIrqClear' = (c.addr = "MTAGS" /\ IACK \in c.data)

\* Mutation: the acknowledge pulse is not decoded by address.
CsrShadows_AnyAddress(c) ==
  LET Shadow(old, addr, bit) == IF c.we /\ c.addr = addr THEN bit \in c.data
                                ELSE old
  IN  /\ irqEn' = Shadow(irqEn, "MSTATUS", MIE)
      /\ irqTimerEn' = Shadow(irqTimerEn, "MIE", MTI)
      /\ tagsEn' = Shadow(tagsEn, "MTAGS", LSEN)
      /\ tagsIfEn' = Shadow(tagsIfEn, "MTAGS", ICEN)
      /\ tagsSkipSp' = Shadow(tagsSkipSp, "MTAGS", SKIP_SP)
      /\ tagsIrqClear' = (IACK \in c.data)

\* The shadows follow csr_we_i, busy or not; the acknowledge pulse follows
\* address and data alone.
CsrShadows(c) ==
  LET Shadow(old, addr, bit) == IF c.we /\ c.addr = addr THEN bit \in c.data
                                ELSE old
  IN  /\ irqEn' = Shadow(irqEn, "MSTATUS", MIE)
      /\ irqTimerEn' = Shadow(irqTimerEn, "MIE", MTI)
      /\ tagsEn' = Shadow(tagsEn, "MTAGS", LSEN)
      /\ tagsIfEn' = Shadow(tagsIfEn, "MTAGS", ICEN)
      /\ tagsSkipSp' = Shadow(tagsSkipSp, "MTAGS", SKIP_SP)
      /\ tagsIrqClear' = (c.addr = "MTAGS" /\ IACK \in c.data)

CsrTick(c) == CsrPort /\ CsrRequest(c) /\ CsrShadows(c)
\* Mutation: a write that is under way when the reset comes is dropped.
CsrReset_DropsWrite ==
  /\ UNCHANGED <<csrFile, csrData>>
  /\ csrBusy' = FALSE /\ csrWe' = FALSE
  /\ irqEn' = FALSE /\ irqTimerEn' = FALSE
  /\ tagsEn' = FALSE /\ tagsIfEn' = FALSE /\ tagsIrqClear' = FALSE
  /\ UNCHANGED <<storedAddr, storedData, tagsSkipSp>>

\* rst_i: neither the registers themselves nor tags_skip_sp_en are reset.
CsrReset ==
  /\ CsrPort
  /\ csrBusy' = FALSE /\ csrWe' = FALSE
  /\ irqEn' = FALSE /\ irqTimerEn' = FALSE
  /\ tagsEn' = FALSE /\ tagsIfEn' = FALSE /\ tagsIrqClear' = FALSE
  /\ UNCHANGED <<storedAddr, storedData, tagsSkipSp>>

CsrInit ==
  /\ csrFile = [r \in Csrs |-> {}]
  /\ csrData = {} /\ storedAddr = "NONE" /\ storedData = {}
  /\ csrBusy = FALSE /\ csrWe = FALSE
  /\ irqEn = FALSE /\ irqTimerEn = FALSE /\ tagsEn = FALSE
  /\ tagsIfEn = FALSE /\ tagsSkipSp = FALSE /\ tagsIrqClear = FALSE

CsrTypeOK ==
  /\ csrFile \in [Csrs -> Word]
  /\ csrData \in Word /\ storedAddr \in CsrAddr /\ storedData \in Word
  /\ csrBusy \in BOOLEAN /\ csrWe \in BOOLEAN
  /\ irqEn \in BOOLEAN /\ irqTimerEn \in BOOLEAN /\ tagsEn \in BOOLEAN
  /\ tagsIfEn \in BOOLEAN /\ tagsSkipSp \in BOOLEAN
  /\ tagsIrqClear \in BOOLEAN

=============================================================================
