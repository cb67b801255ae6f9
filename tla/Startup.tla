------------------------------ MODULE Startup ------------------------------
(***************************************************************************)
(* Starting the host controller: EhciControl::start and the states         *)
(* Stopped, Stopping, Resetting and Running of the runner, from whatever   *)
(* state the BIOS left the controller in.  The controller (external) halts *)
(* and resets in its own time, or never; once it runs it reads the         *)
(* schedules that its registers enable at any moment, so every register    *)
(* and memory write of the initialisation is a step of its own.            *)
(***************************************************************************)
EXTENDS Naturals, Sequences, SignalOps

CONSTANTS Timeout,      \* PollStrategy::timeout of both strategies, in ticks
          Interval,     \* PollStrategy::check_interval
          Late,         \* how late the executor may poll the runner
          MaxStarts     \* bound on the calls of start

ASSUME StartupAssumption ==
  /\ Timeout \in Nat /\ Interval \in Nat \ {0} /\ Late \in Nat /\ MaxStarts \in Nat

VARIABLES
  starts, waiting, req_signal, res_signal,  \* the caller of EhciControl::start
  state,        \* RunnerState
  elapsed,      \* now - start_time
  wake_at,      \* what delay_until waits for, relative to start_time
  pc,           \* the next write of the initialisation, 0 before the first
  usb_cmd_read, \* the local variable usb_cmd
  upper,        \* start_config.ctrl_ds_segment of the start being served: 0 or not
  cap64,        \* HCCPARAMS: 64-bit addressing
  usb_cmd,      \* USBCMD: rs, hc_reset and the schedule enables
  hc_halted,    \* USBSTS
  ptrs,         \* CTRLDSSEGMENT and the two list registers
  intr, config_flag,
  frame_list, anchor,   \* the memory the list registers point to
  new_host_system_error \* set by the IRQ handler

callVars == <<starts, waiting>>
timeVars == <<elapsed, wake_at>>
cfgVars == <<upper, cap64>>
hcVars == <<usb_cmd, hc_halted, ptrs, intr, config_flag>>
memVars == <<frame_list, anchor>>
vars == <<callVars, req_signal, res_signal, state, timeVars, pc, usb_cmd_read, cfgVars,
          hcVars, memVars, new_host_system_error>>

UsbCmd == [rs : BOOLEAN, hc_reset : BOOLEAN, periodic : BOOLEAN, async : BOOLEAN]
ResetCmd == [rs |-> FALSE, hc_reset |-> FALSE, periodic |-> FALSE, async |-> FALSE]
Owner == {"bios", "none", "ours"}
Ptrs == [segment : {0, 1}, periodic : Owner, async : Owner]

Init ==
  /\ starts = 0 /\ waiting = FALSE /\ req_signal = None /\ res_signal = "none"
  /\ state = "Stopped" /\ elapsed = 0 /\ wake_at = 0 /\ pc = 0
  /\ cap64 \in BOOLEAN /\ upper = 0
  /\ usb_cmd \in {c \in UsbCmd : ~c.hc_reset} /\ usb_cmd_read = ResetCmd
  /\ hc_halted = ~usb_cmd.rs
  /\ ptrs = [segment |-> 0, periodic |-> "bios", async |-> "bios"]
  /\ intr \in BOOLEAN /\ config_flag \in BOOLEAN
  /\ frame_list = "junk" /\ anchor = "junk" /\ new_host_system_error = FALSE

-----------------------------------------------------------------------------
\* EhciControl::start, in any state of the runner but a panic.
start ==
  /\ ~waiting /\ state # "Panicked" /\ starts < MaxStarts
  /\ starts' = starts + 1 /\ waiting' = TRUE
  /\ \E segment \in {0, 1} : req_signal' = Signaled(segment)
  /\ UNCHANGED <<res_signal, state, timeVars, pc, usb_cmd_read, cfgVars, hcVars, memVars,
                 new_host_system_error>>

StartReturns ==
  /\ waiting /\ res_signal # "none"
  /\ waiting' = FALSE /\ res_signal' = "none"
  /\ UNCHANGED <<starts, req_signal, state, timeVars, pc, usb_cmd_read, cfgVars, hcVars, memVars,
                 new_host_system_error>>

-----------------------------------------------------------------------------
GoTo(s) == state' = s /\ elapsed' = 0 /\ wake_at' = 0

\* Stopped: on a request, run/stop is cleared.
TakeStart ==
  /\ state = "Stopped" /\ PollIsReady(req_signal)
  /\ req_signal' = None /\ upper' = req_signal.value
  /\ usb_cmd' = [usb_cmd EXCEPT !.rs = FALSE]
  /\ GoTo("Stopping")
  /\ UNCHANGED <<callVars, res_signal, pc, usb_cmd_read, cap64, hc_halted, ptrs, intr, config_flag,
                 memVars, new_host_system_error>>

\* The runner is polled, its delay being over.
PolledIn(s) == state = s /\ pc = 0 /\ elapsed >= wake_at

\* Stopping, halted: HCRESET is set.
HaltSeen ==
  /\ PolledIn("Stopping") /\ hc_halted
  /\ usb_cmd' = [usb_cmd EXCEPT !.hc_reset = TRUE]
  /\ GoTo("Resetting")
  /\ UNCHANGED <<callVars, req_signal, res_signal, pc, usb_cmd_read, cfgVars, hc_halted, ptrs, intr,
                 config_flag, memVars, new_host_system_error>>

\* Neither answer yet: sleep for the interval, but not beyond the timeout.
NotYet ==
  \/ PolledIn("Stopping") /\ ~hc_halted
  \/ PolledIn("Resetting") /\ usb_cmd.hc_reset

\* A wrong runner: the answer is forgotten.
TimesOut_Silent ==
  /\ NotYet /\ elapsed >= Timeout
  /\ GoTo("Stopped")
  /\ UNCHANGED <<callVars, req_signal, res_signal, pc, usb_cmd_read, cfgVars, hcVars, memVars, new_host_system_error>>

TimesOut ==
  /\ NotYet /\ elapsed >= Timeout
  /\ res_signal' = (IF state = "Stopping" THEN "StopTimeout" ELSE "ResetTimeout")
  /\ GoTo("Stopped")
  /\ UNCHANGED <<callVars, req_signal, pc, usb_cmd_read, cfgVars, hcVars, memVars, new_host_system_error>>

\* A wrong runner: the next check is not clipped to the timeout.
WakeTime_Unclipped(now) == now + Interval

WakeTime(now) == IF now + Interval < Timeout THEN now + Interval ELSE Timeout

CheckLater ==
  /\ NotYet /\ elapsed < Timeout
  /\ wake_at' = WakeTime(elapsed)
  /\ UNCHANGED <<callVars, req_signal, res_signal, state, elapsed, pc, usb_cmd_read, cfgVars, hcVars,
                 memVars, new_host_system_error>>

-----------------------------------------------------------------------------
\* Resetting, HCRESET is 0 again: the initialisation, write by write.
ResetSeen ==
  /\ PolledIn("Resetting") /\ ~usb_cmd.hc_reset
  /\ usb_cmd_read' = usb_cmd
  /\ IF upper # 0 /\ ~cap64
       THEN state' = "Panicked" /\ UNCHANGED <<pc, ptrs>>
       ELSE pc' = 1 /\ ptrs' = [ptrs EXCEPT !.segment = upper] /\ UNCHANGED state
  /\ UNCHANGED <<callVars, req_signal, res_signal, timeVars, cfgVars, usb_cmd, hc_halted, intr,
                 config_flag, memVars, new_host_system_error>>

\* A wrong order: the periodic schedule is enabled before its list is empty.
Writes_ListLate == <<"usb_intr", "periodic_list_base", "run", "config_flag", "periodic_enable",
                     "frame_list", "anchor", "async_list_addr", "async_enable">>

\* The writes in order.  USBSTS is cleared before them, when nothing is pending.
Writes == <<"usb_intr", "frame_list", "periodic_list_base", "run", "config_flag",
            "periodic_enable", "anchor", "async_list_addr", "async_enable">>

\* A wrong update: it starts from the value read at the beginning.
UpdatedCmd_Stale == [usb_cmd_read EXCEPT !.rs = TRUE]

\* What the update closures of USBCMD are given.
UpdatedCmd == usb_cmd

InitWrite(w) ==
  /\ usb_cmd' = IF w = "run" THEN [usb_cmd_read EXCEPT !.rs = TRUE]
                 ELSE IF w = "periodic_enable" THEN [UpdatedCmd EXCEPT !.periodic = TRUE]
                 ELSE IF w = "async_enable" THEN [UpdatedCmd EXCEPT !.async = TRUE]
                 ELSE usb_cmd
  /\ ptrs' = IF w = "periodic_list_base" THEN [ptrs EXCEPT !.periodic = "ours"]
              ELSE IF w = "async_list_addr" THEN [ptrs EXCEPT !.async = "ours"]
              ELSE ptrs
  /\ intr' = (intr \/ w = "usb_intr")
  /\ config_flag' = (config_flag \/ w = "config_flag")
  /\ frame_list' = IF w = "frame_list" THEN "ready" ELSE frame_list
  /\ anchor' = IF w = "anchor" THEN "ready" ELSE anchor

Initialise ==
  /\ state = "Resetting" /\ pc \in 1..Len(Writes)
  /\ InitWrite(Writes[pc])
  /\ pc' = pc + 1
  /\ UNCHANGED <<callVars, req_signal, res_signal, state, timeVars, usb_cmd_read, cfgVars, hc_halted,
                 new_host_system_error>>

BecomeRunning ==
  /\ state = "Resetting" /\ pc = Len(Writes) + 1
  /\ pc' = 0 /\ GoTo("Running")
  /\ res_signal' = "Ok"
  /\ UNCHANGED <<callVars, req_signal, usb_cmd_read, cfgVars, hcVars, memVars, new_host_system_error>>

-----------------------------------------------------------------------------
\* External: time passes; the executor polls the runner at most Late ticks
\* after its delay is over.
Tick ==
  /\ state \in {"Stopping", "Resetting"} /\ pc = 0
  /\ elapsed < wake_at + Late
  /\ elapsed' = elapsed + 1
  /\ UNCHANGED <<callVars, req_signal, res_signal, state, wake_at, pc, usb_cmd_read, cfgVars, hcVars,
                 memVars, new_host_system_error>>

\* External: the host controller halts or runs as run/stop says.
HcHaltsOrRuns ==
  /\ hc_halted = usb_cmd.rs /\ ~usb_cmd.hc_reset
  /\ hc_halted' = ~usb_cmd.rs
  /\ UNCHANGED <<callVars, req_signal, res_signal, state, timeVars, pc, usb_cmd_read, cfgVars, usb_cmd,
                 ptrs, intr, config_flag, memVars, new_host_system_error>>

\* External: the host controller completes its reset.
HcResets ==
  /\ usb_cmd.hc_reset
  /\ usb_cmd' = ResetCmd /\ hc_halted' = TRUE
  /\ ptrs' = [segment |-> 0, periodic |-> "none", async |-> "none"]
  /\ intr' = FALSE /\ config_flag' = FALSE
  /\ UNCHANGED <<callVars, req_signal, res_signal, state, timeVars, pc, usb_cmd_read, cfgVars, memVars,
                 new_host_system_error>>

\* External: a host system error stops the controller, which interrupts; the
\* IRQ handler records it (IrqHandler) and wakes the runner, whose poll in
\* Running reads the other flags and not this one.
HcSystemError ==
  /\ state \in {"Resetting", "Running"} /\ ~hc_halted /\ usb_cmd.rs /\ intr
  /\ usb_cmd' = [usb_cmd EXCEPT !.rs = FALSE] /\ hc_halted' = TRUE
  /\ new_host_system_error' = TRUE
  /\ UNCHANGED <<callVars, req_signal, res_signal, state, timeVars, pc, usb_cmd_read, cfgVars, ptrs, intr,
                 config_flag, memVars>>

-----------------------------------------------------------------------------
Runner ==
  \/ TakeStart \/ HaltSeen \/ TimesOut \/ CheckLater
  \/ ResetSeen \/ Initialise \/ BecomeRunning

Controller == HcHaltsOrRuns \/ HcResets \/ HcSystemError

Next == start \/ StartReturns \/ Runner \/ Tick \/ Controller

\* The executor polls the runner, time passes and the caller is polled.  The
\* host controller owes nothing: it may never halt and never finish a reset.
Fairness == WF_vars(Runner) /\ WF_vars(Tick) /\ WF_vars(StartReturns)

Spec == Init /\ [][Next]_vars

-----------------------------------------------------------------------------
\* While the controller runs a schedule after its reset, the register of that
\* schedule points to a list of ours, in our segment, that is initialised: the
\* order of the writes in Resetting leaves no moment at which it reads junk.
SchedulesAreReady ==
  ~hc_halted /\ usb_cmd.rs =>
    /\ usb_cmd.periodic /\ ptrs.periodic # "bios" =>
         ptrs.periodic = "ours" /\ frame_list = "ready" /\ ptrs.segment = upper
    /\ usb_cmd.async /\ ptrs.async # "bios" =>
         ptrs.async = "ours" /\ anchor = "ready" /\ ptrs.segment = upper

\* In Running the controller is on as a whole: both schedules, the interrupts
\* and the port routing, none undone by a later write from an old copy of
\* USBCMD, until a host system error.
RunningIsOperational ==
  state = "Running" /\ ~new_host_system_error =>
    /\ usb_cmd = [rs |-> TRUE, hc_reset |-> FALSE, periodic |-> TRUE, async |-> TRUE]
    /\ ptrs = [segment |-> upper, periodic |-> "ours", async |-> "ours"]
    /\ intr /\ config_flag

\* start reports a timeout when the timeout is over, and no later than the
\* executor is late: the last delay is cut short at the deadline.
TimeoutIsOnTime ==
  [][res_signal' # res_signal /\ res_signal' \in {"StopTimeout", "ResetTimeout"}
       => elapsed \in Timeout..(Timeout + Late)]_vars

\* start returns, whatever the controller does or fails to do, unless the
\* configuration is one the controller cannot address (a panic) or the runner
\* is in Running already, where nobody reads the request.
StartAnswered == (waiting /\ state # "Running") ~> (~waiting \/ state = "Panicked")
=============================================================================
