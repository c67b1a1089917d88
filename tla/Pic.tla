-------------------------------- MODULE Pic --------------------------------
(***************************************************************************)
(* The two interrupt controllers: kernel/drivers/pic.c, the order in which *)
(* kernel_main programs them, and the handlers of kernel/trap/interrupts.c *)
(* as far as they send an EOI.                                             *)
(*                                                                         *)
(* The controllers are hardware: a request is latched in irr whether or    *)
(* not its line is masked; a line is delivered if it is unmasked and       *)
(* nothing of its own or a higher priority is in service on its            *)
(* controller; delivery sets its in-service bit, an EOI clears the highest *)
(* one.  The slave's lines 8..15 go through input 2 of the master.         *)
(***************************************************************************)
EXTENDS Integers, FiniteSetsExt

CONSTANTS Lines,    \* lines with a device that may raise a request
          Clients   \* lines that drivers switch on and off while the kernel runs

IRQ_TIMER    == 0
IRQ_KEYBOARD == 1
IRQ_CASCADE  == 2
IRQ_ATA1     == 14
Irqs         == 0..15
Slave        == 8..15

None == -1

VARIABLES imr,      \* masked lines
          irr,      \* requests
          isr,      \* lines in service
          iflag,    \* IF of the CPU
          handler,  \* line whose handler runs, or None
          done,     \* the handler has nothing left to do but its iret
          boot      \* what kernel_main does next

vars == <<imr, irr, isr, iflag, handler, done, boot>>

(* The controllers as the BIOS and the boot loader leave them. *)
Init ==
    /\ imr \in SUBSET Clients
    /\ irr \in SUBSET Lines
    /\ isr = {}
    /\ iflag = FALSE
    /\ handler = None
    /\ done = FALSE
    /\ boot = "init_pic"

-----------------------------------------------------------------------------
(* pic.c *)

(* The initialisation words clear requests and in-service bits;            *)
(* disable_pic masks everything.                                           *)
InitPic ==
    /\ boot = "init_pic"
    /\ imr' = Irqs
    /\ irr' = {}
    /\ isr' = {}
    /\ boot' = "keyboard"
    /\ UNCHANGED <<iflag, handler, done>>

EnableIrq(irq)  == imr' = imr \ {irq}

(* Seeded fault: the caller passes a vector, as the handlers do to send_eoi. *)
DisableVector(irq) == imr' = imr \cup {32 + irq}
DisableIrq(irq)    == imr' = imr \cup {irq}

(* The highest of lines in service is the one with the lowest number. *)
Ended(lines) == IF lines = {} THEN {} ELSE {Min(lines)}

(* Seeded fault: the slave never gets its EOI. *)
SendEoiMaster(irq) == isr' = isr \ Ended(isr \ Slave)

SendEoi(irq) ==
    isr' = isr \ (Ended(isr \ Slave) \cup (IF irq >= 8 THEN Ended(isr \cap Slave) ELSE {}))

-----------------------------------------------------------------------------
(* kernel_main *)

(* init_keyboard_system; init_timer before it programs the timer only. *)
InitKeyboard ==
    /\ boot = "keyboard"
    /\ EnableIrq(IRQ_KEYBOARD)
    /\ boot' = "ide"
    /\ UNCHANGED <<irr, isr, iflag, handler, done>>

InitIde ==
    /\ boot = "ide"
    /\ EnableIrq(IRQ_ATA1)
    /\ boot' = "sti"
    /\ UNCHANGED <<irr, isr, iflag, handler, done>>

(* The second disk does not answer: PANIC. *)
InitIdeFails ==
    /\ boot = "ide"
    /\ EnableIrq(IRQ_ATA1)
    /\ boot' = "panic"
    /\ UNCHANGED <<irr, isr, iflag, handler, done>>

MainSti ==
    /\ boot = "sti"
    /\ iflag' = TRUE
    /\ boot' = "run"
    /\ UNCHANGED <<imr, irr, isr, handler, done>>

-----------------------------------------------------------------------------
(* Devices, controllers and CPU *)

Raise(irq) ==
    /\ irr' = irr \cup {irq}
    /\ UNCHANGED <<imr, isr, iflag, handler, done, boot>>

(* Lines of one controller that are requested, open and not held back. *)
Ready(requests, inservice) ==
    {l \in requests \ imr : \A s \in inservice : l < s}

SlaveReady  == Ready(irr \cap Slave, isr \cap Slave)
MasterReady == Ready((irr \ Slave) \cup (IF SlaveReady = {} THEN {} ELSE {IRQ_CASCADE}),
                     isr \ Slave)

(* The line whose vector the CPU reads when it takes the interrupt. *)
Chosen == IF Min(MasterReady) = IRQ_CASCADE THEN Min(SlaveReady) ELSE Min(MasterReady)
Path(irq) == IF irq \in Slave THEN {IRQ_CASCADE, irq} ELSE {irq}

(* The gates of the IDT clear IF. *)
Deliver(irq) ==
    /\ iflag
    /\ handler = None
    /\ MasterReady # {}
    /\ Chosen = irq
    /\ irr' = irr \ {irq}
    /\ isr' = isr \cup Path(irq)
    /\ iflag' = FALSE
    /\ handler' = irq
    /\ UNCHANGED <<imr, done, boot>>

(* init_pic gives line irq the vector 32 + irq, and it is the vector,      *)
(* frame->int_no, that the handlers pass to send_eoi.                      *)
Vector(irq) == 32 + irq

(* Seeded fault: the handler of the timer forgets its EOI. *)
EoiHandlersNoTimer == {IRQ_KEYBOARD, IRQ_ATA1}
(* The handlers that send one. *)
EoiHandlers == {IRQ_TIMER, IRQ_KEYBOARD, IRQ_ATA1}

(* The handler for that vector, to its end ... *)
HandlerBody(vector) ==
    /\ handler # None
    /\ ~done
    /\ IF vector - 32 \in EoiHandlers THEN SendEoi(vector) ELSE UNCHANGED isr
    /\ done' = TRUE
    /\ UNCHANGED <<imr, irr, iflag, handler, boot>>

(* ... and its iret. *)
HandlerIret ==
    /\ done
    /\ done' = FALSE
    /\ handler' = None
    /\ iflag' = TRUE
    /\ UNCHANGED <<imr, irr, isr, boot>>

(* Kernel code outside the handlers turns interrupts on and off. *)
SetIF ==
    /\ boot = "run"
    /\ handler = None
    /\ iflag' = ~iflag
    /\ UNCHANGED <<imr, irr, isr, handler, done, boot>>

ClientEnables ==
    /\ boot = "run"
    /\ \E irq \in Clients : EnableIrq(irq)
    /\ UNCHANGED <<irr, isr, iflag, handler, done, boot>>

ClientDisables ==
    /\ boot = "run"
    /\ \E irq \in Clients : DisableIrq(irq)
    /\ UNCHANGED <<irr, isr, iflag, handler, done, boot>>

Next ==
    \/ InitPic \/ InitKeyboard \/ InitIde \/ InitIdeFails \/ MainSti
    \/ \E irq \in Lines : Raise(irq)
    \/ \E irq \in Lines : Deliver(irq)
    \/ HandlerBody(Vector(handler)) \/ HandlerIret
    \/ SetIF \/ ClientEnables \/ ClientDisables

Spec == Init /\ [][Next]_vars

(* Boot and handlers are straight-line code, and the CPU takes an interrupt *)
(* that it is offered again and again.  Devices, IF and the masks are free. *)
FairSpec ==
    /\ Spec
    /\ WF_vars(InitPic) /\ WF_vars(InitKeyboard) /\ WF_vars(InitIde \/ InitIdeFails) /\ WF_vars(MainSti)
    /\ WF_vars(HandlerBody(Vector(handler))) /\ WF_vars(HandlerIret)
    /\ \A irq \in Lines : SF_vars(Deliver(irq))

-----------------------------------------------------------------------------
(* Properties *)

(* Types of the variables. *)
TypeOK ==
    /\ imr \subseteq Irqs
    /\ irr \subseteq Lines
    /\ isr \subseteq Lines \cup {IRQ_CASCADE}
    /\ iflag \in BOOLEAN
    /\ handler \in Lines \cup {None}
    /\ done \in BOOLEAN
    /\ boot \in {"init_pic", "keyboard", "ide", "sti", "run", "panic"}

(* The controllers hold as in service exactly what the CPU is handling:    *)
(* the EOI of each handler ends its own interrupt on both controllers, and *)
(* nothing else, though it names the vector and not the line.              *)
InServiceIsHandled == isr = IF handler = None \/ done THEN {} ELSE Path(handler)

Open(irq) == Path(irq) \cap imr = {}
(* Place of a line in the order of the two controllers. *)
Rank(irq) == IF irq \in Slave THEN 200 + irq ELSE 100 * irq
Turn(irq) ==
    /\ iflag
    /\ handler = None
    /\ \A k \in irr : Open(k) => Rank(k) >= Rank(irq)

(* A request on an open line is handled, if there are times again and      *)
(* again at which interrupts are on and nothing of a higher priority       *)
(* waits: no handler leaves the controllers blocked for the lines after it. *)
OpenLineServed ==
    \A irq \in Lines :
        []<>Turn(irq) => ((boot = "run" /\ irq \in irr) ~> (handler = irq \/ ~Open(irq)))

(* The comment at ide.c:33: line 14 is enabled.  enable_irq opens it on    *)
(* the slave, but nobody opens input 2 of the master.                      *)
DiskInterruptArrives ==
    []<>(boot = "run" /\ iflag /\ handler = None) =>
        ((boot = "run" /\ IRQ_ATA1 \in irr) ~> (handler = IRQ_ATA1))
=============================================================================
