----------------------------- MODULE IrqHandler -----------------------------
(***************************************************************************)
(* How an event of the host controller reaches the runner: the USBSTS bit, *)
(* handle_irq, the flags of IrqHandlerSharedState and the runner's waker,  *)
(* down to the swaps at the top of the runner's poll.                      *)
(*                                                                         *)
(* handle_irq is cut into its wake, its read of USBSTS, its stores and its *)
(* write-to-clear; the runner's poll into the start of the poll, the       *)
(* registration and one step per swap.  With SameCore the interrupt        *)
(* preempts the runner and runs to its end before the runner goes on; the  *)
(* host controller raises bits at any time in either case.                 *)
(***************************************************************************)
CONSTANTS SameCore,  \* whether runner and interrupt handler share a core
          Raised     \* the bits that the host controller raises

\* Bits with a flag that the runner swaps while it is Running, in its order.
Consumed == {"usb_int", "usb_err_int", "async_advance", "port_change_detect"}

\* Bits with a flag.
Recorded == Consumed \cup {"host_system_error"}

\* Bits that the handler clears.
Bits == Recorded \cup {"frame_list_rollover"}

ASSUME IrqAssumption == SameCore \in BOOLEAN /\ Raised \subseteq Bits

VARIABLES usb_sts,     \* the write-to-clear bits that are set in USBSTS
          flags,       \* the new_* flags that are set
          waker,       \* runner_waker holds the runner's waker
          runnable,    \* the executor will poll the runner
          irq,         \* the handler's place in handle_irq
          latched,     \* the USBSTS value handle_irq read
          run,         \* the runner's place in its poll
          unseen       \* events raised that no swap has returned yet

irqVars == <<usb_sts, flags, waker, runnable, irq, latched, run, unseen>>

IrqInit ==
  /\ usb_sts = {} /\ flags = {} /\ unseen = {}
  /\ waker = FALSE /\ runnable = TRUE
  /\ irq = "idle" /\ latched = {}
  /\ run = "idle"

-----------------------------------------------------------------------------
\* External: the host controller raises a bit, set or not.
Raise(b) ==
  /\ usb_sts' = usb_sts \cup {b}
  /\ unseen' = unseen \cup ({b} \cap Consumed)
  /\ UNCHANGED <<flags, waker, runnable, irq, latched, run>>

\* handle_irq is entered while a bit enabled in USBINTR is set.  The runner's
\* waker is taken and called first.
IrqWake ==
  /\ irq = "idle" /\ usb_sts \cap Recorded # {}
  /\ runnable' = (runnable \/ waker)
  /\ waker' = FALSE
  /\ irq' = "read"
  /\ UNCHANGED <<usb_sts, flags, latched, run, unseen>>

IrqRead ==
  /\ irq = "read"
  /\ latched' = usb_sts
  /\ irq' = "store"
  /\ UNCHANGED <<usb_sts, flags, waker, runnable, run, unseen>>

\* Every bit that was read and has a flag sets it.
IrqStore ==
  /\ irq = "store"
  /\ flags' = flags \cup (latched \cap Recorded)
  /\ irq' = "clear"
  /\ UNCHANGED <<usb_sts, waker, runnable, latched, run, unseen>>

\* A wrong handle_irq: all bits are cleared, not only the ones that were read.
IrqClear_All ==
  /\ irq = "clear"
  /\ usb_sts' = {}
  /\ latched' = {}
  /\ irq' = "idle"
  /\ UNCHANGED <<flags, waker, runnable, run, unseen>>

\* Only the bits that were read are written back, which clears them.
IrqClear ==
  /\ irq = "clear"
  /\ usb_sts' = usb_sts \ latched
  /\ latched' = {}
  /\ irq' = "idle"
  /\ UNCHANGED <<flags, waker, runnable, run, unseen>>

-----------------------------------------------------------------------------
RunnerMay == SameCore => irq = "idle"

\* External: the executor polls the runner.
PollBegin ==
  /\ RunnerMay
  /\ run = "idle" /\ runnable
  /\ runnable' = FALSE
  /\ run' = "register"
  /\ UNCHANGED <<usb_sts, flags, waker, irq, latched, unseen>>

\* A wrong poll: the waker is registered only when there is nothing to do.
Register_WhenQuiet ==
  /\ RunnerMay
  /\ run = "register"
  /\ waker' = (waker \/ flags = {})
  /\ run' = "usb_int"
  /\ UNCHANGED <<usb_sts, flags, runnable, irq, latched, unseen>>

Register ==
  /\ RunnerMay
  /\ run = "register"
  /\ waker' = TRUE
  /\ run' = "usb_int"
  /\ UNCHANGED <<usb_sts, flags, runnable, irq, latched, unseen>>

\* The step of the poll after the swap of b.
AfterSwap(b) ==
  CASE b = "usb_int"            -> "usb_err_int"
    [] b = "usb_err_int"        -> "async_advance"
    [] b = "async_advance"      -> "port_change_detect"
    [] b = "port_change_detect" -> "idle"

\* new_<b>.swap(false): an event that was recorded is acted on from here.
Swap(b) ==
  /\ RunnerMay
  /\ run = b
  /\ flags' = flags \ {b}
  /\ unseen' = IF b \in flags THEN unseen \ {b} ELSE unseen
  /\ run' = AfterSwap(b)
  /\ UNCHANGED <<usb_sts, waker, runnable, irq, latched>>

HandleIrq == IrqWake \/ IrqRead \/ IrqStore \/ IrqClear
RunnerPoll == PollBegin \/ Register \/ \E b \in Consumed : Swap(b)

IrqNext ==
  \/ \E b \in Raised : Raise(b)
  \/ HandleIrq
  \/ RunnerPoll

IrqSpec == IrqInit /\ [][IrqNext]_irqVars

-----------------------------------------------------------------------------
\* What the poll that is under way will still swap.
StillToSwap ==
  CASE run \in {"register", "usb_int"} -> Consumed
    [] run = "usb_err_int"             -> Consumed \ {"usb_int"}
    [] run = "async_advance"           -> {"async_advance", "port_change_detect"}
    [] run = "port_change_detect"      -> {"port_change_detect"}
    [] run = "idle"                    -> {}

\* The sets hold bits and the places are places of the two procedures.
TypeOK ==
  /\ usb_sts \in SUBSET Bits /\ flags \in SUBSET Recorded
  /\ latched \in SUBSET Bits /\ unseen \in SUBSET Consumed
  /\ waker \in BOOLEAN /\ runnable \in BOOLEAN
  /\ irq \in {"idle", "read", "store", "clear"}
  /\ run \in Consumed \cup {"idle", "register"}

\* An event the runner has not seen is still in USBSTS or in its flag: the
\* write-to-clear never wipes out an event that was not recorded.
NoEventDropped == SameCore => unseen \subseteq usb_sts \cup flags

\* Outside the handler, a flag that is set will be swapped: by the poll under
\* way or by one the executor has been told to make.
FlagsAreAttended ==
  SameCore /\ irq = "idle" => \A b \in flags \cap Consumed : runnable \/ b \in StillToSwap

\* Every event whose flag the runner reads is returned by one of its swaps.
EventReachesRunner == \A b \in Consumed : (b \in unseen) ~> (b \notin unseen)

-----------------------------------------------------------------------------
\* The inductive invariant: the two above, with what holds inside handle_irq,
\* and that a runner at rest has its waker registered.
IrqInv ==
  /\ TypeOK
  /\ NoEventDropped
  /\ FlagsAreAttended
  /\ irq \in {"store", "clear"} => latched \subseteq usb_sts
  /\ SameCore /\ irq = "clear" => latched \cap Recorded \subseteq flags
  /\ SameCore /\ irq # "idle" => runnable \/ run = "register"
  /\ SameCore /\ irq = "idle" /\ run # "register" => waker \/ runnable
=============================================================================
