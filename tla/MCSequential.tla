---------------------------- MODULE MCSequential ----------------------------
(* The sequential programs: mkfs, and the parts of the kernel that run to  *)
(* their end when they are called.  They share nothing, so in each         *)
(* behaviour one of them runs and the others rest.                         *)
EXTENDS Mkfs, Queue, Strings, Format, Multiboot

VARIABLE part

MCInts == {-12, 0, 9, 10, 105}
MCStrs == {<<>>, <<"s", "t">>}

AnyLinks == [Nodes -> Nodes \cup {NULL}]
NoLinks  == {[n \in Nodes |-> NULL]}

QueueRests   == QueueInit(NoLinks)
StringsRest  == mem = [a \in Addr |-> NUL] /\ call = Nothing
PrintRests   == /\ dev = "serial" /\ fmt = <<>> /\ out = <<>> /\ meaning = <<>>
                /\ misprint = FALSE /\ at = "done"
                /\ screen = [c \in Cells |-> Blank] /\ place = NoPlace

SequentialInit ==
    /\ Init /\ BootInit
    /\ \/ part \in {"mkfs", "boot"} /\ QueueRests /\ StringsRest /\ PrintRests
       \/ part = "queue" /\ QueueInit(AnyLinks) /\ StringsRest /\ PrintRests
       \/ part = "strings" /\ StringsInit /\ QueueRests /\ PrintRests
       \/ part = "print" /\ (PrintInit \/ NumberInit) /\ QueueRests /\ StringsRest

SequentialNext ==
    /\ UNCHANGED part
    /\ \/ part = "mkfs" /\ Next /\ UNCHANGED <<queueVars, stringVars, printVars, bootVars>>
       \/ part = "queue" /\ QueueNext /\ UNCHANGED <<vars, stringVars, printVars, bootVars>>
       \/ part = "strings" /\ StringsNext /\ UNCHANGED <<vars, queueVars, printVars, bootVars>>
       \/ part = "print" /\ PrintNext /\ UNCHANGED <<vars, queueVars, stringVars, bootVars>>
       \/ part = "boot" /\ BootNext /\ UNCHANGED <<vars, queueVars, stringVars, printVars>>

SequentialSpec ==
    /\ SequentialInit
    /\ [][SequentialNext]_<<vars, queueVars, stringVars, printVars, bootVars, part>>
=============================================================================
