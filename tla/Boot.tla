-------------------------------- MODULE Boot --------------------------------
(***************************************************************************)
(* From firmware to a running controller: the hand-off, and start on the   *)
(* Stack that it yields.  Until it lets go, the BIOS writes USBCMD at any  *)
(* moment.                                                                 *)
(***************************************************************************)
EXTENDS Startup, Handoff

bootVars == <<vars, handoffVars>>

BootInit == Init /\ HandoffInit

\* External: an SMI handler of the BIOS runs, stops or schedules the controller.
BiosDrives ==
  /\ bios = "driving"
  /\ usb_cmd' \in {c \in UsbCmd : ~c.hc_reset}
  /\ UNCHANGED <<callVars, req_signal, res_signal, state, timeVars, pc, usb_cmd_read, cfgVars,
                 hc_halted, ptrs, intr, config_flag, memVars, new_host_system_error, handoffVars>>

BootNext ==
  \/ HandoffNext /\ UNCHANGED vars
  \/ BiosDrives
  \/ handoff = "stack" /\ start /\ UNCHANGED handoffVars
  \/ (StartReturns \/ Runner \/ Tick \/ Controller) /\ UNCHANGED handoffVars

BootSpec == BootInit /\ [][BootNext]_bootVars
BootFairSpec == BootSpec /\ Fairness /\ HandoffFairness
=============================================================================
