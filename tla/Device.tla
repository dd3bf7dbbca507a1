-------------------------------- MODULE Device --------------------------------
(***************************************************************************)
(* A machine with a device on its bus, as a host builds one from the       *)
(* interface of RamBus and PutCharBus.  Between two ticks the device pokes *)
(* a message into its mailbox and, then or some ticks later, raises the    *)
(* IRQ line.  A handler of the program copies the mailbox to the console,  *)
(* and the console's output callback, which runs in the middle of the tick *)
(* that stores the byte, takes it for the acknowledgement and drops the    *)
(* line.                                                                   *)
(*                                                                         *)
(* The callback is an action of its own, because an instruction reads no   *)
(* line behind its store; no tick and no call of the host comes between    *)
(* the store and the callback.                                             *)
(***************************************************************************)
EXTENDS Machine

CONSTANTS
    Mailbox,    \* the cell that the device pokes
    Messages    \* the bytes that it has to deliver, in order

ASSUME DeviceAssumption ==
    /\ output_addr \in Word
    /\ \A i \in 1 .. Len(Messages) : [addr |-> Mailbox, bytes |-> <<Messages[i]>>] \in Loads

VARIABLES
    sent,       \* how many messages were poked into the mailbox
    phase,      \* of the device: "idle", "posted", or "asking" with the line up
    heard       \* how many bytes the callback was called with

deviceVars == <<machineVars, sent, phase, heard>>

-----------------------------------------------------------------------------
DeviceInit == Init /\ sent = 0 /\ phase = "idle" /\ heard = 0

\* The store of the last tick was for the console, and its callback is due.
CallbackDue == heard < Len(output)

DeviceClock == ~CallbackDue /\ Clock /\ UNCHANGED <<sent, phase, heard>>


Callback ==
    /\ CallbackDue
    /\ heard' = heard + 1
    /\ phase' = "idle"
    /\ ClearIrq
    /\ UNCHANGED <<cpuVars, calls_left, sent>>

Post ==
    /\ ~CallbackDue
    /\ phase = "idle"
    /\ sent < Len(Messages)
    /\ HostCalls("load") /\ Poke(Mailbox, Messages[sent + 1])
    /\ sent' = sent + 1
    /\ phase' = "posted"
    /\ heard' = heard

Raise ==
    /\ ~CallbackDue
    /\ phase = "posted"
    /\ HostCalls("irq") /\ Irq
    /\ phase' = "asking"
    /\ UNCHANGED <<sent, heard>>

\* The host's other calls, which know nothing of the device.
Disturb ==
    /\ ~CallbackDue
    /\ \/ HostCalls("reset") /\ Reset
       \/ HostCalls("nmi") /\ Nmi
    /\ UNCHANGED <<sent, phase, heard>>

DeviceNext == DeviceClock \/ Callback \/ Post \/ Raise \/ Disturb

\* The clock loop runs on, the callback returns, and the device is not lazy.
DeviceSpec ==
    /\ DeviceInit /\ [][DeviceNext]_deviceVars
    /\ WF_deviceVars(DeviceClock) /\ WF_deviceVars(Callback)
    /\ WF_deviceVars(Post) /\ WF_deviceVars(Raise)

-----------------------------------------------------------------------------
AsDelivery == INSTANCE Delivery WITH delivered <- output

\* Every message arrives once and in order, although the line is a level that
\* the CPU does not acknowledge: no handler is entered again for a message that
\* its store has acknowledged, and none is lost to an NMI, to a masked section
\* of the program, or to a reset at whatever tick of the handler.
DeliversEachOnce == AsDelivery!Spec
=============================================================================
