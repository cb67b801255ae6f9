----------------------------- MODULE BootProofs -----------------------------
(***************************************************************************)
(* A controller is started, and asked for things.                          *)
(*                                                                         *)
(* The controller is taken from the firmware before it is driven, and its  *)
(* schedules are prepared before they run: the safety properties of Boot,  *)
(* for every timing, every number of calls of start and every list of      *)
(* capabilities.                                                           *)
(*                                                                         *)
(* The request path: a Signal loses no wakeup and holds the newest value,  *)
(* for any set of tasks and any number of values; the answers of a oneshot *)
(* channel are true, for any number of channels; and the path uses its     *)
(* Signal and its channels as their own specifications allow, so that what *)
(* is proved of them holds on it.                                          *)
(***************************************************************************)
EXTENDS Boot, RequestReply, TLAPS

\* Every leaf goes to Zenon unless it names another prover.
USE ZenonT(30)

-----------------------------------------------------------------------------
\* From the capability at which the iterator is, links lead to USBLEGSUP.
LegSupAhead ==
  \E l \in Seq(Offset) : \E i, j \in 1..Len(l) :
    /\ i <= j
    /\ capability_pointer = l[i] /\ config[l[j]].id = UsbLegSup
    /\ \A k \in 1..(Len(l) - 1) : config[l[k]].next_cap_pointer = l[k + 1]

\* A BIOS that drives has its semaphore set, the driver has no Stack, and while
\* the capabilities are being walked USBLEGSUP is still ahead.
HandoffInv ==
  /\ semaphores \subseteq {"bios", "os"}
  /\ bios = "driving" =>
       /\ "bios" \in semaphores
       /\ handoff \in {"walking", "bios_owned", "taking"}
       /\ handoff = "walking" => LegSupAhead

-----------------------------------------------------------------------------
\* The variables of start-up have their types.
StartupTypeOK ==
  /\ state \in {"Stopped", "Stopping", "Resetting", "Running", "Panicked"}
  /\ pc \in 0..10 /\ elapsed \in Nat /\ wake_at \in Nat
  /\ usb_cmd \in UsbCmd /\ usb_cmd_read \in UsbCmd /\ ptrs \in Ptrs
  /\ req_signal \in {None, Signaled(0), Signaled(1)} /\ upper \in {0, 1}
  /\ intr \in BOOLEAN /\ config_flag \in BOOLEAN

\* What the controller is like once it has reset itself.
AfterReset ==
  /\ usb_cmd = ResetCmd
  /\ ptrs = [segment |-> 0, periodic |-> "none", async |-> "none"]

\* Before the initialisation nothing of ours is in the list registers, and after
\* a reset nothing is on.
NotInitialised ==
  /\ ptrs.periodic # "ours" /\ ptrs.async # "ours"
  /\ ptrs.periodic = "bios" <=> ptrs.async = "bios"
  /\ ptrs.periodic = "none" => ~usb_cmd.rs /\ ~usb_cmd.periodic /\ ~usb_cmd.async

\* What is on after the writes before place n of Writes.
InitialisedUpTo(n) ==
  /\ usb_cmd_read = ResetCmd
  /\ ~usb_cmd.hc_reset
  /\ n <= 4 => ~usb_cmd.rs
  /\ n > 4 => usb_cmd.rs \/ new_host_system_error
  /\ usb_cmd.periodic <=> n > 6
  /\ usb_cmd.async <=> n > 9
  /\ ptrs.segment = upper
  /\ ptrs.periodic = (IF n > 3 THEN "ours" ELSE "none")
  /\ ptrs.async = (IF n > 8 THEN "ours" ELSE "none")
  /\ n > 1 => intr
  /\ n > 5 => config_flag
  /\ n > 2 => frame_list = "ready"
  /\ n > 7 => anchor = "ready"

\* The phases of start-up, what each leaves of the controller, and that none
\* begins before the driver holds the Stack.
StartupInv ==
  /\ StartupTypeOK
  /\ handoff # "stack" => /\ state = "Stopped" /\ req_signal = None
                          /\ ~usb_cmd.hc_reset /\ ptrs.periodic = "bios"
  /\ state # "Resetting" => pc = 0
  /\ state \in {"Stopped", "Stopping", "Panicked"} \/ (state = "Resetting" /\ pc = 0) => NotInitialised
  /\ state = "Stopping" => ~usb_cmd.rs
  /\ state = "Resetting" /\ pc = 0 => ~usb_cmd.rs /\ (usb_cmd.hc_reset \/ AfterReset)
  /\ state = "Resetting" /\ pc > 0 => InitialisedUpTo(pc)
  /\ state = "Running" => InitialisedUpTo(10)

\* The runner sleeps no longer than to its timeout, and is polled in time.
TimeInv == wake_at <= Timeout /\ elapsed <= wake_at + Late

BootInv == HandoffInv /\ StartupInv /\ TimeInv

-----------------------------------------------------------------------------
\* In a list that chains distinct offsets each register points to the next one.
LEMMA ChainLinks ==
  ASSUME NEW n \in Nat, NEW l \in [1..n -> Offset], IsInjective(l), NEW s,
         NEW k \in 1..(n - 1)
  PROVE  CapabilityReg(l, s, l[k]).next_cap_pointer = l[k + 1]
<1>1. Len(l) = n
  BY SMTT(30)
<1>2. \A i \in 1..n : l[i] = l[k] => i = k
  BY SMTT(30) DEF IsInjective
<1>3. (CHOOSE i \in 1..Len(l) : l[i] = l[k]) = k
  BY <1>1, <1>2, SMTT(30)
<1>4. \E i \in 1..(Len(l) - 1) : l[i] = l[k]
  BY <1>1
<1>5. CapabilityReg(l, s, l[k]).next_cap_pointer = l[1 + CHOOSE i \in 1..Len(l) : l[i] = l[k]]
  BY <1>4 DEF CapabilityReg
<1>6. 1 + k = k + 1
  BY SMTT(30)
<1> QED
  BY <1>3, <1>5, <1>6, ZenonT(30)

\* The walk begins with USBLEGSUP ahead of it when there is one.
LEMMA HandoffBegins == HandoffInit => HandoffInv
<1> SUFFICES ASSUME HandoffInit PROVE HandoffInv
  OBVIOUS
<1>1. semaphores \subseteq {"bios", "os"} /\ (bios = "driving" => "bios" \in semaphores) /\ handoff = "walking"
  BY DEF HandoffInit
<1>2. ASSUME bios = "driving" PROVE LegSupAhead
  <2>1a. PICK l \in UNION {{l \in [1..n -> Offset] : IsInjective(l)} : n \in 0..MaxCapabilities} :
          \E s \in Range(l) \cup {0} :
            /\ eecp = IF l = <<>> THEN 0 ELSE l[1]
            /\ config = [o \in Offset |-> CapabilityReg(l, s, o)]
            /\ bios \in IF s = 0 THEN {"off"} ELSE {"driving", "off"}
    BY DEF HandoffInit
  <2>1b. PICK s \in Range(l) \cup {0} :
          /\ eecp = IF l = <<>> THEN 0 ELSE l[1]
          /\ config = [o \in Offset |-> CapabilityReg(l, s, o)]
          /\ bios \in IF s = 0 THEN {"off"} ELSE {"driving", "off"}
    BY <2>1a, ZenonT(30)
  <2>1. PICK n \in 0..MaxCapabilities : l \in [1..n -> Offset] /\ IsInjective(l)
    OBVIOUS
  <2>2. n \in Nat /\ Len(l) = n /\ l \in Seq(Offset)
    BY <2>1, HandoffAssumption, SMTT(30)
  <2>3. s \in Range(l)
    BY <1>2, <2>1b
  <2>4. PICK j \in 1..n : l[j] = s
    BY <2>1, <2>3 DEF Range
  <2>5. l # <<>> /\ 1 \in 1..n
    BY <2>2, <2>4, SMTT(30)
  <2>6. capability_pointer = l[1]
    BY <2>1b, <2>5 DEF HandoffInit
  <2>7. config[l[j]].id = UsbLegSup
    BY <2>1, <2>1b, <2>4 DEF CapabilityReg
  <2>8. \A k \in 1..(n - 1) : config[l[k]].next_cap_pointer = l[k + 1]
    <3> TAKE k \in 1..(n - 1)
    <3>1. CapabilityReg(l, s, l[k]).next_cap_pointer = l[k + 1]
      BY <2>1, <2>2, ChainLinks, ZenonT(30)
    <3>2. l[k] \in Offset
      BY <2>1, <2>2, SMTT(30)
    <3> QED
      BY <2>1b, <3>1, <3>2
  <2>9. /\ 1 <= j /\ 1 \in 1..Len(l) /\ j \in 1..Len(l)
        /\ capability_pointer = l[1] /\ config[l[j]].id = UsbLegSup
        /\ \A k \in 1..(Len(l) - 1) : config[l[k]].next_cap_pointer = l[k + 1]
    BY <2>2, <2>4, <2>5, <2>6, <2>7, <2>8, SMTT(30)
  <2> QED
    BY <2>2, <2>9, ZenonT(30) DEF LegSupAhead
<1> QED
  BY <1>1, <1>2 DEF HandoffInv

-----------------------------------------------------------------------------
\* The hand-off keeps its invariant: the walk stops at USBLEGSUP or goes one
\* link on, and only the BIOS, once it is off, clears its semaphore.
LEMMA HandoffPreserved ==
  ASSUME HandoffInv, HandoffNext
  PROVE  HandoffInv'
<1>1. CASE WalkCapabilities
  <2>1. /\ handoff = "walking" /\ UNCHANGED <<config, eecp, bios, semaphores>>
        /\ handoff' = (IF IsUsbLegSup(config[capability_pointer]) THEN "bios_owned" ELSE "walking")
    BY <1>1 DEF WalkCapabilities, HandoffStep, pciVars
  <2>2. ASSUME bios = "driving", handoff' = "walking" PROVE LegSupAhead'
    <3>1. /\ config[capability_pointer].id # UsbLegSup
          /\ capability_pointer' = config[capability_pointer].next_cap_pointer
      BY <1>1, <2>2 DEF WalkCapabilities, HandoffStep, IsUsbLegSup
    <3>2. PICK l \in Seq(Offset) : \E i, j \in 1..Len(l) :
            /\ i <= j
            /\ capability_pointer = l[i] /\ config[l[j]].id = UsbLegSup
            /\ \A k \in 1..(Len(l) - 1) : config[l[k]].next_cap_pointer = l[k + 1]
      BY <2>1, <2>2 DEF HandoffInv, LegSupAhead
    <3>3. PICK i \in 1..Len(l), j \in 1..Len(l) :
            /\ i <= j
            /\ capability_pointer = l[i] /\ config[l[j]].id = UsbLegSup
            /\ \A k \in 1..(Len(l) - 1) : config[l[k]].next_cap_pointer = l[k + 1]
      BY <3>2, ZenonT(30)
    <3>4. Len(l) \in Nat
      BY SMTT(30)
    <3>5. i # j
      BY <3>1, <3>3
    <3>6. i \in 1..(Len(l) - 1) /\ i + 1 \in 1..Len(l) /\ i + 1 <= j
      BY <3>3, <3>4, <3>5, SMTT(30)
    <3>7. capability_pointer' = l[i + 1]
      BY <3>1, <3>3, <3>6
    <3> QED
      BY <2>1, <3>3, <3>6, <3>7 DEF LegSupAhead
  <2> QED
    BY <2>1, <2>2 DEF HandoffInv
<1>2. CASE NoUsbLegSup
  <2>1. ASSUME bios = "driving" PROVE FALSE
    <3>1. LegSupAhead /\ capability_pointer = 0
      BY <1>2, <2>1 DEF HandoffInv, NoUsbLegSup, HandoffStep
    <3>2. PICK l \in Seq(Offset) : \E i \in 1..Len(l) : capability_pointer = l[i]
      BY <3>1, ZenonT(30) DEF LegSupAhead
    <3> QED
      BY <3>1, <3>2, HandoffAssumption, SMTT(30)
  <2> QED
    BY <1>2, <2>1 DEF NoUsbLegSup, HandoffStep, HandoffInv
<1>3. CASE take_ownership
  BY <1>3 DEF take_ownership, HandoffStep, OsSemaphoreWrite, HandoffInv
<1>4. CASE try_take
  BY <1>4 DEF try_take, HandoffStep, HandoffInv
<1>5. CASE BiosStops
  BY <1>5 DEF BiosStops, HandoffInv
<1>6. CASE BiosReleases
  BY <1>6 DEF BiosReleases, HandoffInv
<1> QED
  BY <1>1, <1>2, <1>3, <1>4, <1>5, <1>6 DEF HandoffNext

\* What the hand-off does not touch stays as it is.
LEMMA HandoffUnchanged ==
  ASSUME HandoffInv, UNCHANGED handoffVars
  PROVE  HandoffInv'
BY DEF HandoffInv, LegSupAhead, handoffVars, pciVars

-----------------------------------------------------------------------------
\* The variables of which StartupInv speaks.
setupVars == <<usb_cmd, usb_cmd_read, ptrs, upper, intr, config_flag, frame_list, anchor, new_host_system_error>>
controlVars == <<state, pc, req_signal, setupVars>>

\* What the phases say of the controller depends on its registers, the memory
\* they point to and the request being served.
LEMMA SameSetup ==
  ASSUME UNCHANGED setupVars
  PROVE  /\ NotInitialised' <=> NotInitialised
         /\ AfterReset' <=> AfterReset
         /\ \A n : InitialisedUpTo(n)' <=> InitialisedUpTo(n)
<1>1. NotInitialised' <=> NotInitialised
  BY DEF setupVars, NotInitialised
<1>2. AfterReset' <=> AfterReset
  BY DEF setupVars, AfterReset
<1>3. ASSUME NEW n PROVE InitialisedUpTo(n)' <=> InitialisedUpTo(n)
  BY SMTT(30) DEF setupVars, InitialisedUpTo
<1> QED
  BY <1>1, <1>2, <1>3

\* StartupInv survives a step of the hand-off, after which the driver has its
\* Stack if it had it before.
LEMMA StartupUnchanged ==
  ASSUME StartupInv, UNCHANGED controlVars, elapsed' \in Nat, wake_at' \in Nat,
         handoff' # "stack" => handoff # "stack"
  PROVE  StartupInv'
<1>1. UNCHANGED setupVars /\ UNCHANGED <<state, pc, req_signal>>
  BY DEF controlVars
<1>2. StartupTypeOK'
  BY <1>1 DEF StartupInv, StartupTypeOK, setupVars
<1>3. /\ NotInitialised' <=> NotInitialised
      /\ AfterReset' <=> AfterReset
      /\ \A n : InitialisedUpTo(n)' <=> InitialisedUpTo(n)
  BY <1>1, SameSetup
<1>4. usb_cmd' = usb_cmd /\ ptrs' = ptrs
  BY <1>1 DEF setupVars
<1> QED
  BY <1>1, <1>2, <1>3, <1>4 DEF StartupInv

\* The BIOS writes USBCMD only while the runner is stopped.
LEMMA BiosStep ==
  ASSUME StartupInv, HandoffInv, BiosDrives
  PROVE  StartupInv'
<1>1. handoff # "stack" /\ UNCHANGED <<state, pc, usb_cmd_read, ptrs, req_signal, upper, intr, config_flag,
                 frame_list, anchor, new_host_system_error, elapsed, wake_at, handoff>>
  BY DEF BiosDrives, HandoffInv, handoffVars, memVars, cfgVars, timeVars
<1>2. usb_cmd' \in UsbCmd /\ ~usb_cmd'.hc_reset
  BY DEF BiosDrives
<1> QED
  BY <1>1, <1>2 DEF StartupInv, StartupTypeOK, NotInitialised

\* The steps of the caller and of time.
LEMMA CallerStep ==
  ASSUME StartupInv, (start /\ handoff = "stack") \/ StartReturns \/ Tick \/ CheckLater, UNCHANGED handoff
  PROVE  StartupInv'
<1> USE StartupAssumption DEF callVars, timeVars, cfgVars, hcVars, memVars
<1>1. CASE start /\ handoff = "stack"
  <2>1. req_signal' \in {Signaled(0), Signaled(1)}
    BY <1>1 DEF start
  <2>2. UNCHANGED setupVars /\ UNCHANGED <<state, pc, elapsed, wake_at>>
    BY <1>1 DEF start, setupVars
  <2>3. StartupTypeOK'
    BY <2>1, <2>2 DEF StartupInv, StartupTypeOK, setupVars
  <2>4. usb_cmd' = usb_cmd /\ ptrs' = ptrs
    BY <2>2 DEF setupVars
  <2> QED
    BY <1>1, <2>2, <2>3, <2>4, SameSetup DEF StartupInv
<1>a. elapsed \in Nat /\ wake_at \in Nat
  BY DEF StartupInv, StartupTypeOK
<1>2. CASE StartReturns
  <2>1. UNCHANGED controlVars /\ UNCHANGED <<elapsed, wake_at>>
    BY <1>2 DEF StartReturns, controlVars, setupVars
  <2> QED
    BY <1>a, <2>1, StartupUnchanged
<1>3. CASE Tick
  <2>1. UNCHANGED controlVars /\ elapsed' \in Nat /\ wake_at' \in Nat
    BY <1>3, <1>a, SMTT(30) DEF Tick, controlVars, setupVars
  <2> QED
    BY <2>1, StartupUnchanged
<1>4. CASE CheckLater
  <2>1. UNCHANGED controlVars /\ elapsed' \in Nat /\ wake_at' \in Nat
    BY <1>4, <1>a, SMTT(30) DEF CheckLater, WakeTime, controlVars, setupVars
  <2> QED
    BY <2>1, StartupUnchanged
<1> QED
  BY <1>1, <1>2, <1>3, <1>4

\* The steps of the runner around the initialisation.
LEMMA RunnerStep ==
  ASSUME StartupInv, TakeStart \/ HaltSeen \/ TimesOut \/ ResetSeen \/ BecomeRunning, UNCHANGED handoff
  PROVE  StartupInv'
<1> USE DEF callVars, timeVars, cfgVars, hcVars, memVars, GoTo, PolledIn, NotYet,
        StartupInv, StartupTypeOK, UsbCmd, Ptrs
<1>1. CASE TakeStart
  <2>1. req_signal \in {Signaled(0), Signaled(1)}
    BY <1>1, SMTT(30) DEF TakeStart, PollIsReady, None
  <2>2. req_signal.value \in {0, 1}
    BY <2>1, SMTT(30) DEF Signaled
  <2>3. handoff = "stack"
    BY <2>1, SMTT(30) DEF Signaled, None
  <2>4. /\ usb_cmd' \in UsbCmd /\ ~usb_cmd'.rs
        /\ usb_cmd'.periodic = usb_cmd.periodic /\ usb_cmd'.async = usb_cmd.async
    BY <1>1, ZenonT(30) DEF TakeStart
  <2>5. NotInitialised'
    BY <1>1, <2>4 DEF TakeStart, NotInitialised
  <2>6. StartupTypeOK'
    BY <1>1, <2>2, <2>4 DEF TakeStart
  <2>7. state' = "Stopping" /\ pc' = 0
    BY <1>1 DEF TakeStart
  <2> HIDE DEF StartupTypeOK
  <2> QED
    BY <2>3, <2>4, <2>5, <2>6, <2>7
<1>2. CASE HaltSeen
  <2>1. /\ usb_cmd' \in UsbCmd /\ ~usb_cmd'.rs /\ usb_cmd'.hc_reset
        /\ usb_cmd'.periodic = usb_cmd.periodic /\ usb_cmd'.async = usb_cmd.async
    BY <1>2, ZenonT(30) DEF HaltSeen
  <2>2. NotInitialised'
    BY <1>2, <2>1 DEF HaltSeen, NotInitialised
  <2>3. StartupTypeOK'
    BY <1>2, <2>1 DEF HaltSeen
  <2>4. state = "Stopping" /\ state' = "Resetting" /\ pc' = 0
    BY <1>2 DEF HaltSeen
  <2> HIDE DEF StartupTypeOK
  <2> QED
    BY <2>1, <2>2, <2>3, <2>4, SMTT(30)
<1>3. CASE TimesOut
  <2>1. /\ state \in {"Stopping", "Resetting"} /\ pc = 0 /\ state' = "Stopped" /\ pc' = 0
        /\ UNCHANGED setupVars
    BY <1>3 DEF TimesOut, setupVars
  <2>2. NotInitialised'
    BY <2>1, SameSetup
  <2>3. StartupTypeOK'
    BY <1>3, SMTT(30) DEF TimesOut
  <2>4. handoff = "stack"
    BY <2>1
  <2> HIDE DEF StartupTypeOK
  <2> QED
    BY <2>1, <2>2, <2>3, <2>4
<1>4. CASE ResetSeen
  BY <1>4, SMTT(30) DEF ResetSeen, NotInitialised, AfterReset, ResetCmd, InitialisedUpTo
<1>5. CASE BecomeRunning
  <2>1. pc = 10 /\ state = "Resetting"
    BY <1>5, SMTT(30) DEF BecomeRunning, Writes
  <2>2. UNCHANGED setupVars /\ state' = "Running" /\ pc' = 0 /\ elapsed' = 0 /\ wake_at' = 0
        /\ UNCHANGED req_signal
    BY <1>5 DEF BecomeRunning, setupVars
  <2>3. InitialisedUpTo(10)
    BY <2>1, SMTT(30)
  <2>4. InitialisedUpTo(10)'
    BY <2>2, <2>3, SameSetup
  <2>5. StartupTypeOK'
    BY <2>2, SMTT(30) DEF setupVars
  <2>6. handoff = "stack"
    BY <2>1
  <2> HIDE DEF StartupTypeOK
  <2> QED
    BY <2>2, <2>4, <2>5, <2>6
<1> QED
  BY <1>1, <1>2, <1>3, <1>4, <1>5

\* Each write of the initialisation adds its part.
LEMMA InitialiseStep ==
  ASSUME StartupInv, Initialise, UNCHANGED handoff
  PROVE  StartupInv'
<1>1. /\ state = "Resetting" /\ pc \in 1..9 /\ pc' = pc + 1 /\ InitWrite(Writes[pc])
      /\ UNCHANGED <<req_signal, state, elapsed, wake_at, usb_cmd_read, upper, new_host_system_error>>
  BY DEF Initialise, Writes, timeVars, cfgVars
<1>2. InitialisedUpTo(pc) /\ StartupTypeOK
  BY <1>1, SMTT(30) DEF StartupInv
<1>3. /\ Writes[1] = "usb_intr" /\ Writes[2] = "frame_list" /\ Writes[3] = "periodic_list_base"
      /\ Writes[4] = "run" /\ Writes[5] = "config_flag" /\ Writes[6] = "periodic_enable"
      /\ Writes[7] = "anchor" /\ Writes[8] = "async_list_addr" /\ Writes[9] = "async_enable"
  BY DEF Writes
<1>4. /\ usb_cmd' \in UsbCmd /\ ptrs' \in Ptrs /\ intr' \in BOOLEAN /\ config_flag' \in BOOLEAN
  BY <1>1, <1>2, ZenonT(30) DEF InitWrite, UpdatedCmd, StartupTypeOK, UsbCmd, Ptrs, Owner
<1>5. InitialisedUpTo(pc)'
  <2>1. CASE pc = 1
    <3>1. usb_cmd' = usb_cmd /\ ptrs' = ptrs /\ intr'
      BY <1>1, <1>3, <2>1, ZenonT(30) DEF InitWrite, UpdatedCmd
    <3>2. UNCHANGED <<config_flag, frame_list, anchor>>
      BY <1>1, <1>2, <1>3, <2>1 DEF InitWrite, StartupTypeOK
    <3> QED
      BY <1>1, <1>2, <2>1, <3>1, <3>2, SMTT(30) DEF InitialisedUpTo
  <2>2. CASE pc = 2
    <3>1. usb_cmd' = usb_cmd /\ ptrs' = ptrs /\ frame_list' = "ready"
      BY <1>1, <1>3, <2>2 DEF InitWrite, UpdatedCmd
    <3>2. UNCHANGED <<intr, config_flag, anchor>>
      BY <1>1, <1>2, <1>3, <2>2 DEF InitWrite, StartupTypeOK
    <3> QED
      BY <1>1, <1>2, <2>2, <3>1, <3>2, SMTT(30) DEF InitialisedUpTo
  <2>3. CASE pc = 3
    <3>1. usb_cmd' = usb_cmd /\ ptrs' = [ptrs EXCEPT !.periodic = "ours"]
      BY <1>1, <1>3, <2>3 DEF InitWrite, UpdatedCmd
    <3>2. UNCHANGED <<intr, config_flag, frame_list, anchor>>
      BY <1>1, <1>2, <1>3, <2>3 DEF InitWrite, StartupTypeOK
    <3> QED
      BY <1>1, <1>2, <2>3, <3>1, <3>2, SMTT(30) DEF InitialisedUpTo, StartupTypeOK, UsbCmd, Ptrs, ResetCmd
  <2>4. CASE pc = 4
    <3>1. usb_cmd' = [usb_cmd_read EXCEPT !.rs = TRUE] /\ ptrs' = ptrs
      BY <1>1, <1>3, <2>4 DEF InitWrite, UpdatedCmd
    <3>2. UNCHANGED <<intr, config_flag, frame_list, anchor>>
      BY <1>1, <1>2, <1>3, <2>4 DEF InitWrite, StartupTypeOK
    <3> QED
      BY <1>1, <1>2, <2>4, <3>1, <3>2, SMTT(30) DEF InitialisedUpTo, StartupTypeOK, UsbCmd, Ptrs, ResetCmd
  <2>5. CASE pc = 5
    <3>1. usb_cmd' = usb_cmd /\ ptrs' = ptrs /\ config_flag'
      BY <1>1, <1>3, <2>5, ZenonT(30) DEF InitWrite, UpdatedCmd
    <3>2. UNCHANGED <<intr, frame_list, anchor>>
      BY <1>1, <1>2, <1>3, <2>5 DEF InitWrite, StartupTypeOK
    <3> QED
      BY <1>1, <1>2, <2>5, <3>1, <3>2, SMTT(30) DEF InitialisedUpTo
  <2>6. CASE pc = 6
    <3>1. usb_cmd' = [usb_cmd EXCEPT !.periodic = TRUE] /\ ptrs' = ptrs
      BY <1>1, <1>3, <2>6 DEF InitWrite, UpdatedCmd
    <3>2. UNCHANGED <<intr, config_flag, frame_list, anchor>>
      BY <1>1, <1>2, <1>3, <2>6 DEF InitWrite, StartupTypeOK
    <3> QED
      BY <1>1, <1>2, <2>6, <3>1, <3>2, SMTT(30) DEF InitialisedUpTo, StartupTypeOK, UsbCmd, Ptrs, ResetCmd
  <2>7. CASE pc = 7
    <3>1. usb_cmd' = usb_cmd /\ ptrs' = ptrs /\ anchor' = "ready"
      BY <1>1, <1>3, <2>7 DEF InitWrite, UpdatedCmd
    <3>2. UNCHANGED <<intr, config_flag, frame_list>>
      BY <1>1, <1>2, <1>3, <2>7 DEF InitWrite, StartupTypeOK
    <3> QED
      BY <1>1, <1>2, <2>7, <3>1, <3>2, SMTT(30) DEF InitialisedUpTo
  <2>8. CASE pc = 8
    <3>1. usb_cmd' = usb_cmd /\ ptrs' = [ptrs EXCEPT !.async = "ours"]
      BY <1>1, <1>3, <2>8 DEF InitWrite, UpdatedCmd
    <3>2. UNCHANGED <<intr, config_flag, frame_list, anchor>>
      BY <1>1, <1>2, <1>3, <2>8 DEF InitWrite, StartupTypeOK
    <3> QED
      BY <1>1, <1>2, <2>8, <3>1, <3>2, SMTT(30) DEF InitialisedUpTo, StartupTypeOK, UsbCmd, Ptrs, ResetCmd
  <2>9. CASE pc = 9
    <3>1. usb_cmd' = [usb_cmd EXCEPT !.async = TRUE] /\ ptrs' = ptrs
      BY <1>1, <1>3, <2>9 DEF InitWrite, UpdatedCmd
    <3>2. UNCHANGED <<intr, config_flag, frame_list, anchor>>
      BY <1>1, <1>2, <1>3, <2>9 DEF InitWrite, StartupTypeOK
    <3> QED
      BY <1>1, <1>2, <2>9, <3>1, <3>2, SMTT(30) DEF InitialisedUpTo, StartupTypeOK, UsbCmd, Ptrs, ResetCmd
  <2> QED
    BY <1>1, <2>1, <2>2, <2>3, <2>4, <2>5, <2>6, <2>7, <2>8, <2>9, SMTT(30)
<1>6. StartupTypeOK'
  BY <1>1, <1>2, <1>4, SMTT(30) DEF StartupTypeOK
<1> QED
  BY <1>1, <1>5, <1>6, SMTT(30) DEF StartupInv

\* The controller's own steps, at any moment.
LEMMA ControllerStep ==
  ASSUME StartupInv, Controller, UNCHANGED handoff
  PROVE  StartupInv'
<1> USE DEF callVars, timeVars, cfgVars, memVars, StartupInv, StartupTypeOK, UsbCmd, Ptrs, Owner
<1>1. CASE HcHaltsOrRuns
  <2>1. UNCHANGED controlVars /\ UNCHANGED <<elapsed, wake_at>>
    BY <1>1 DEF HcHaltsOrRuns, controlVars, setupVars
  <2> QED
    BY <2>1, StartupUnchanged
<1>2. CASE HcResets
  <2>1. usb_cmd.hc_reset /\ AfterReset'
    BY <1>2 DEF HcResets, AfterReset
  <2>2. UNCHANGED <<state, pc, usb_cmd_read, req_signal, upper, elapsed, wake_at>>
    BY <1>2 DEF HcResets
  <2>3. state \in {"Stopped", "Stopping", "Panicked"} \/ (state = "Resetting" /\ pc = 0)
    BY <2>1, SMTT(30) DEF InitialisedUpTo
  <2>4. usb_cmd' \in UsbCmd /\ ptrs' \in Ptrs /\ intr' \in BOOLEAN /\ config_flag' \in BOOLEAN
    BY <1>2, ZenonT(30) DEF HcResets, ResetCmd
  <2>5. ~usb_cmd'.rs /\ NotInitialised'
    BY <2>1 DEF AfterReset, NotInitialised, ResetCmd
  <2>6. StartupTypeOK'
    BY <2>2, <2>4
  <2> HIDE DEF StartupTypeOK
  <2> QED
    BY <2>1, <2>2, <2>3, <2>5, <2>6, SMTT(30)
<1>3. CASE HcSystemError
  <2>1. /\ usb_cmd' \in UsbCmd /\ ~usb_cmd'.rs /\ usb_cmd'.hc_reset = usb_cmd.hc_reset
        /\ usb_cmd'.periodic = usb_cmd.periodic /\ usb_cmd'.async = usb_cmd.async
    BY <1>3, ZenonT(30) DEF HcSystemError
  <2>2. usb_cmd.rs /\ state \in {"Resetting", "Running"} /\ ~(state = "Resetting" /\ pc = 0)
    BY <1>3 DEF HcSystemError
  <2>3. UNCHANGED <<state, pc, usb_cmd_read, ptrs, req_signal, upper, intr, config_flag, frame_list, anchor,
                    elapsed, wake_at>> /\ new_host_system_error'
    BY <1>3 DEF HcSystemError
  <2>4. ASSUME NEW n \in 1..10, InitialisedUpTo(n) PROVE InitialisedUpTo(n)'
    BY ONLY <2>1, <2>2, <2>3, <2>4, SMTT(30) DEF InitialisedUpTo
  <2>5. pc \in 1..10 \/ state = "Running"
    BY <2>2, SMTT(30)
  <2>6. StartupTypeOK'
    <3> HIDE DEF UsbCmd, Ptrs
    <3> QED
      BY <2>1, <2>3
  <2> HIDE DEF StartupTypeOK
  <2> QED
    BY <2>1, <2>2, <2>3, <2>4, <2>5, <2>6, SMTT(30)
<1> QED
  BY <1>1, <1>2, <1>3 DEF Controller

-----------------------------------------------------------------------------
\* Each delay ends at the timeout or before.
LEMMA TimeStep ==
  ASSUME StartupTypeOK, TimeInv, BootNext \/ UNCHANGED bootVars
  PROVE  TimeInv'
<1> USE StartupAssumption DEF StartupTypeOK, TimeInv
<1>1. CASE UNCHANGED <<elapsed, wake_at>>
  BY <1>1
<1>2. CASE TakeStart \/ HaltSeen \/ TimesOut \/ BecomeRunning
  BY <1>2, SMTT(30) DEF TakeStart, HaltSeen, TimesOut, BecomeRunning, GoTo
<1>3. CASE CheckLater
  BY <1>3, SMTT(30) DEF CheckLater, WakeTime, NotYet, PolledIn
<1>4. CASE Tick
  BY <1>4, SMTT(30) DEF Tick
<1> QED
  BY <1>1, <1>2, <1>3, <1>4
     DEF BootNext, BiosDrives, start, StartReturns, Runner, ResetSeen, Initialise, Controller,
         HcHaltsOrRuns, HcResets, HcSystemError, bootVars, vars, timeVars

\* Whatever the firmware leaves satisfies the invariant.
LEMMA BootBegins == BootInit => BootInv
<1> SUFFICES ASSUME BootInit PROVE StartupInv /\ TimeInv
  BY HandoffBegins DEF BootInit, BootInv
<1>1. TimeInv
  BY StartupAssumption, SMTT(30) DEF BootInit, Init, TimeInv
<1>2. StartupTypeOK
  <2>1. /\ usb_cmd \in UsbCmd /\ usb_cmd_read \in UsbCmd /\ ptrs \in Ptrs
        /\ intr \in BOOLEAN /\ config_flag \in BOOLEAN
    BY DEF BootInit, Init, UsbCmd, Ptrs, Owner, ResetCmd
  <2> QED
    BY <2>1, SMTT(30) DEF BootInit, Init, StartupTypeOK
<1>3. state = "Stopped" /\ pc = 0 /\ req_signal = None /\ ~usb_cmd.hc_reset /\ NotInitialised /\ ptrs.periodic = "bios"
  BY DEF BootInit, Init, NotInitialised
<1> QED
  BY <1>1, <1>2, <1>3 DEF StartupInv

\* Every step of Boot keeps the invariant.
LEMMA BootPreserved ==
  ASSUME BootInv, BootNext \/ UNCHANGED bootVars
  PROVE  BootInv'
<1> USE DEF BootInv
<1>1. TimeInv'
  BY TimeStep DEF StartupInv
<1>2. HandoffInv' /\ StartupInv'
  <2>1. CASE HandoffNext /\ UNCHANGED vars
    <3>1. handoff' # "stack" => handoff # "stack"
      BY <2>1 DEF HandoffNext, WalkCapabilities, NoUsbLegSup, take_ownership, try_take, HandoffStep,
                  BiosStops, BiosReleases
    <3>2. UNCHANGED controlVars /\ UNCHANGED <<elapsed, wake_at>>
      BY <2>1 DEF vars, controlVars, setupVars, timeVars, cfgVars, hcVars, memVars
    <3> QED
      BY <2>1, <3>1, <3>2, HandoffPreserved, StartupUnchanged DEF StartupInv, StartupTypeOK
  <2>2. CASE BiosDrives
    BY <2>2, BiosStep, HandoffUnchanged DEF BiosDrives
  <2>3. ASSUME UNCHANGED handoffVars PROVE HandoffInv' /\ UNCHANGED handoff
    BY <2>3, HandoffUnchanged DEF handoffVars
  <2>4. CASE handoff = "stack" /\ start /\ UNCHANGED handoffVars
    BY <2>3, <2>4, CallerStep
  <2>5. CASE (StartReturns \/ Runner \/ Tick \/ Controller) /\ UNCHANGED handoffVars
    BY <2>3, <2>5, CallerStep, RunnerStep, InitialiseStep, ControllerStep DEF Runner
  <2>6. CASE UNCHANGED bootVars
    <3>1. UNCHANGED controlVars /\ UNCHANGED <<elapsed, wake_at>> /\ UNCHANGED handoffVars
      BY <2>6 DEF bootVars, vars, controlVars, setupVars, timeVars, cfgVars, hcVars, memVars
    <3> QED
      BY <2>3, <3>1, StartupUnchanged DEF StartupInv, StartupTypeOK
  <2> QED
    BY <2>1, <2>2, <2>4, <2>5, <2>6 DEF BootNext
<1> QED
  BY <1>1, <1>2

\* The inductive invariant holds from any state the firmware may leave.
THEOREM BootInvariant == BootSpec => []BootInv
<1>1. BootInv /\ [BootNext]_bootVars => BootInv'
  BY BootPreserved
<1> QED
  BY BootBegins, <1>1, PTL DEF BootSpec

\* The driver holds a Stack only when the BIOS is off the controller: new_ehci
\* finds USBLEGSUP wherever it is in the list of capabilities.
THEOREM DrivesAlone == BootSpec => []OsDrivesAlone
<1>1. BootSpec => [](bios \in {"driving", "off"})
  <2>1. BootInit => bios \in {"driving", "off"}
    BY DEF BootInit, HandoffInit
  <2>2. bios \in {"driving", "off"} /\ [BootNext]_bootVars => (bios \in {"driving", "off"})'
    BY DEF BootNext, HandoffNext, WalkCapabilities, NoUsbLegSup, take_ownership, try_take, HandoffStep,
           BiosStops, BiosReleases, BiosDrives, bootVars, handoffVars
  <2> QED
    BY <2>1, <2>2, PTL DEF BootSpec
<1>2. BootInv /\ bios \in {"driving", "off"} => OsDrivesAlone
  BY DEF BootInv, HandoffInv, OsDrivesAlone
<1> QED
  BY <1>1, <1>2, BootInvariant, PTL

\* The controller, running at any moment of the initialisation or after it,
\* never follows a list register to memory that is not prepared.
THEOREM NoJunkSchedule == BootSpec => []SchedulesAreReady
<1>1. BootInv => SchedulesAreReady
  <2> SUFFICES ASSUME StartupInv, ~hc_halted /\ usb_cmd.rs PROVE SchedulesAreReady
    BY DEF BootInv, SchedulesAreReady
  <2>1. CASE state \in {"Stopped", "Stopping", "Panicked"} \/ (state = "Resetting" /\ pc = 0)
    BY <2>1 DEF StartupInv, StartupTypeOK, Ptrs, Owner, NotInitialised, SchedulesAreReady
  <2>2. ASSUME NEW k \in 1..10, InitialisedUpTo(k) PROVE SchedulesAreReady
    BY <2>2, SMTT(30) DEF InitialisedUpTo, SchedulesAreReady
  <2>3. CASE (state = "Resetting" /\ pc > 0) \/ state = "Running"
    <3>1. pc \in 0..10 /\ (state = "Resetting" /\ pc > 0 => InitialisedUpTo(pc))
          /\ (state = "Running" => InitialisedUpTo(10))
      BY SMTT(30) DEF StartupInv, StartupTypeOK
    <3> QED
      BY <2>2, <2>3, <3>1, SMTT(30)
  <2> QED
    BY <2>1, <2>3, SMTT(30) DEF StartupInv, StartupTypeOK
<1> QED
  BY <1>1, BootInvariant, PTL

\* When start has answered Ok the whole controller is on, and stays so until a
\* host system error.
THEOREM RunningMeansOn == BootSpec => []RunningIsOperational
<1>1. BootInv => RunningIsOperational
  <2> SUFFICES ASSUME BootInv, state = "Running", ~new_host_system_error PROVE RunningIsOperational
    BY DEF RunningIsOperational
  <2>1. InitialisedUpTo(10) /\ usb_cmd \in UsbCmd /\ ptrs \in Ptrs
    BY DEF BootInv, StartupInv, StartupTypeOK
  <2>2. usb_cmd = [rs |-> TRUE, hc_reset |-> FALSE, periodic |-> TRUE, async |-> TRUE]
    BY <2>1, SMTT(30) DEF UsbCmd, InitialisedUpTo
  <2>3. ptrs = [segment |-> upper, periodic |-> "ours", async |-> "ours"] /\ intr /\ config_flag
    BY <2>1, SMTT(30) DEF Ptrs, InitialisedUpTo
  <2> QED
    BY <2>2, <2>3 DEF RunningIsOperational
<1> QED
  BY <1>1, BootInvariant, PTL

\* start reports a timeout neither early nor later than the executor is late.
THEOREM TimeoutsOnTime == BootSpec => TimeoutIsOnTime
<1>1. BootInv /\ [BootNext]_bootVars =>
        [res_signal' # res_signal /\ res_signal' \in {"StopTimeout", "ResetTimeout"}
           => elapsed \in Timeout..(Timeout + Late)]_vars
  <2> SUFFICES ASSUME BootInv, BootNext, res_signal' # res_signal,
                      res_signal' \in {"StopTimeout", "ResetTimeout"}
               PROVE  elapsed \in Timeout..(Timeout + Late)
    BY DEF bootVars, vars
  <2>1. TimesOut
    BY DEF BootNext, BiosDrives, start, StartReturns, Runner, TakeStart, HaltSeen, CheckLater, ResetSeen,
           Initialise, BecomeRunning, Tick, Controller, HcHaltsOrRuns, HcResets, HcSystemError, vars
  <2>2. elapsed >= Timeout
    BY <2>1 DEF TimesOut
  <2>3. elapsed \in Nat /\ wake_at \in Nat /\ wake_at <= Timeout /\ elapsed <= wake_at + Late
    BY DEF BootInv, TimeInv, StartupInv, StartupTypeOK
  <2> QED
    BY ONLY <2>2, <2>3, StartupAssumption, SMTT(30)
<1> QED
  BY <1>1, BootInvariant, PTL DEF BootSpec, TimeoutIsOnTime

-----------------------------------------------------------------------------
\* A task never sleeps on a signal that would not wake it: signal takes the
\* registered waker, and poll_wait registers the caller whatever it replaces.
THEOREM NoLostWakeup == SignalSpec => []SleepsOnlyRegistered
<1> USE DEF SleepsOnlyRegistered
<1>1. SignalInit => SleepsOnlyRegistered
  BY DEF SignalInit
<1>2. SleepsOnlyRegistered /\ [SignalNext]_signalVars => SleepsOnlyRegistered'
  <2> SUFFICES ASSUME SleepsOnlyRegistered, [SignalNext]_signalVars PROVE SleepsOnlyRegistered'
    OBVIOUS
  <2>1. CASE signal
    BY <2>1, SMTT(30) DEF signal, SignalWakes, Waiting
  <2>2. ASSUME NEW t \in Task, poll_wait(t) PROVE SleepsOnlyRegistered'
    BY <2>2 DEF poll_wait, PollNext
  <2>3. ASSUME NEW t \in Task, PollOther(t) \/ MoveTo(t) PROVE SleepsOnlyRegistered'
    BY <2>3 DEF PollOther, MoveTo
  <2>4. CASE UNCHANGED signalVars
    BY <2>4 DEF signalVars
  <2> QED BY <2>1, <2>2, <2>3, <2>4 DEF SignalNext
<1> QED BY <1>1, <1>2, PTL DEF SignalSpec

\* The slot has one of the three shapes of State<T> and the counters stay in range.
LEMMA Typing == SignalSpec => []SignalTypeOK
<1> USE SignalAssumption DEF SignalTypeOK, None, Waiting, Signaled
<1>1. SignalInit => SignalTypeOK
  BY SMTT(30) DEF SignalInit
<1>2. SignalTypeOK /\ [SignalNext]_signalVars => SignalTypeOK'
  <2> SUFFICES ASSUME SignalTypeOK, [SignalNext]_signalVars PROVE SignalTypeOK'
    OBVIOUS
  <2>1. CASE signal
    BY <2>1, SMTT(30) DEF signal, SignalWakes
  <2>2. ASSUME NEW t \in Task, poll_wait(t) PROVE SignalTypeOK'
    BY <2>2, SMTT(30) DEF poll_wait, PollNext, PollWakes, PollIsReady
  <2>3. ASSUME NEW t \in Task, PollOther(t) \/ MoveTo(t) PROVE SignalTypeOK'
    BY <2>3 DEF PollOther, MoveTo
  <2>4. CASE UNCHANGED signalVars
    BY <2>4 DEF signalVars
  <2> QED BY <2>1, <2>2, <2>3, <2>4 DEF SignalNext
<1> QED BY <1>1, <1>2, PTL DEF SignalSpec

\* Signal is a latest-value slot: what is overwritten was older, and an empty
\* slot means that the newest value was received.
THEOREM LatestValueSlot == SignalSpec => []NewestValue
<1> USE SignalAssumption DEF NewestValue, SignalTypeOK, None, Waiting, Signaled
<1>1. SignalInit => NewestValue
  BY SMTT(30) DEF SignalInit
<1>2. SignalTypeOK /\ NewestValue /\ [SignalNext]_signalVars => NewestValue'
  <2> SUFFICES ASSUME SignalTypeOK, NewestValue, [SignalNext]_signalVars PROVE NewestValue'
    OBVIOUS
  <2>1. CASE signal
    BY <2>1, SMTT(30) DEF signal
  <2>2. ASSUME NEW t \in Task, poll_wait(t) PROVE NewestValue'
    BY <2>2 DEF poll_wait, PollNext, PollIsReady
  <2>3. ASSUME NEW t \in Task, PollOther(t) \/ MoveTo(t) PROVE NewestValue'
    BY <2>3 DEF PollOther, MoveTo
  <2>4. CASE UNCHANGED signalVars
    BY <2>4 DEF signalVars
  <2> QED BY <2>1, <2>2, <2>3, <2>4 DEF SignalNext
<1> QED BY <1>1, <1>2, Typing, PTL DEF SignalSpec

-----------------------------------------------------------------------------
\* The cell is written before stored is set, stored says how far send is, and
\* where the ends alternate a poll that found stored unset counts references
\* before the sender takes another step.
OneshotInv ==
  /\ stored \in [Channel -> BOOLEAN] /\ written \in [Channel -> BOOLEAN]
  /\ sender \in [Channel -> {"ready", "written", "stored", "woken", "sent", "unsent"}]
  /\ receiver \in [Channel -> {"idle", "load", "count", "done"}]
  /\ result \in [Channel -> {"none", "Ok", "Err"}]
  /\ \A c \in Channel :
       /\ stored[c] <=> sender[c] \in {"stored", "woken", "sent"}
       /\ sender[c] \in {"written", "stored", "woken", "sent"} => written[c]
       /\ c \notin Crossing /\ receiver[c] = "count" => sender[c] \in {"ready", "unsent"}
       /\ c \notin Crossing /\ result[c] = "Err" => sender[c] = "unsent"

\* Every step of either end keeps the invariant.
LEMMA OneshotPreserved ==
  ASSUME OneshotInv, OneshotNext \/ UNCHANGED oneshotVars
  PROVE  OneshotInv'
<1> USE DEF OneshotInv
<1>1. CASE UNCHANGED oneshotVars
  BY <1>1 DEF oneshotVars
<1>2. ASSUME NEW c \in Channel, WriteCell(c) PROVE OneshotInv'
  BY <1>2 DEF WriteCell, SenderStep, SenderMay
<1>3. ASSUME NEW c \in Channel, Store(c) PROVE OneshotInv'
  BY <1>3 DEF Store, SenderStep, SenderMay
<1>4. ASSUME NEW c \in Channel, Wake(c) \/ DropSent(c) PROVE OneshotInv'
  BY <1>4, SMTT(30) DEF Wake, DropSent, SenderStep, SenderMay
<1>5. ASSUME NEW c \in Channel, DropUnsent(c) PROVE OneshotInv'
  BY <1>5 DEF DropUnsent, SenderStep, SenderMay
<1>6. ASSUME NEW c \in Channel, Register(c) PROVE OneshotInv'
  BY <1>6 DEF Register, ReceiverStep, ReceiverMay
<1>7. ASSUME NEW c \in Channel, Load(c) PROVE OneshotInv'
  BY <1>7, SMTT(30) DEF Load, ReceiverStep, ReceiverMay
<1>8. ASSUME NEW c \in Channel, Count(c) PROVE OneshotInv'
  BY <1>8, SMTT(30) DEF Count, ReceiverStep, ReceiverMay
<1> QED
  BY <1>1, <1>2, <1>3, <1>4, <1>5, <1>6, <1>7, <1>8 DEF OneshotNext, Send, Poll

\* What the receiver returns is true: Ok comes with a written value, and where
\* the ends alternate RecvError means that nothing was sent.
THEOREM TrueAnswers == OneshotSpec => []AnswerIsTrue
<1>1. OneshotInit => OneshotInv
  BY SMTT(30) DEF OneshotInit, OneshotInv
<1>2. OneshotInv /\ [OneshotNext]_oneshotVars => OneshotInv'
  BY OneshotPreserved
<1>3. OneshotInv => AnswerIsTrue
  BY DEF OneshotInv, AnswerIsTrue
<1> QED
  BY <1>1, <1>2, <1>3, PTL DEF OneshotSpec

-----------------------------------------------------------------------------
\* Requesting, serving and awaiting are uses of the signal that Signal allows.
THEOREM RequestsUseSignal == ReplySpec => SignalSpec
<1>1. ReplyInit => SignalInit
  BY DEF ReplyInit
<1>2. [ReplyNext]_replyVars => [SignalNext]_signalVars
  BY DEF ReplyNext, replyVars, SignalNext, Request, TakeRequest, Reply, AwaitReply
<1> QED
  BY <1>1, <1>2, PTL DEF ReplySpec, SignalSpec

\* So are they of the channels: a replaced request is the drop of a sender that
\* did not send.
THEOREM RequestsUseOneshot == ReplySpec => OneshotSpec
<1>1. ReplyInit => OneshotInit
  BY DEF ReplyInit
<1>2. SignalTypeOK /\ received \in {0} \cup Channel /\ [ReplyNext]_replyVars => [OneshotNext]_oneshotVars
  <2> SUFFICES ASSUME SignalTypeOK, received \in {0} \cup Channel, [ReplyNext]_replyVars
               PROVE  [OneshotNext]_oneshotVars
    OBVIOUS
  <2>1. CASE Request
    <3>1. PollIsReady(mutex) => mutex.value \in Channel
      BY ChannelAssumption, SMTT(30) DEF SignalTypeOK, PollIsReady, None, Waiting, Signaled
    <3> QED
      BY <2>1, <3>1 DEF Request, OneshotNext
  <2>2. CASE Reply
    BY <2>2 DEF Reply, OneshotNext
  <2>3. ASSUME NEW t \in Task, TakeRequest(t) \/ ((PollOther(t) \/ MoveTo(t)) /\ UNCHANGED oneshotVars)
        PROVE  [OneshotNext]_oneshotVars
    BY <2>3 DEF TakeRequest
  <2>4. ASSUME NEW c \in Channel, AwaitReply(c) PROVE [OneshotNext]_oneshotVars
    BY <2>4 DEF AwaitReply, OneshotNext
  <2>5. CASE UNCHANGED replyVars
    BY <2>5 DEF replyVars
  <2> QED
    BY <2>1, <2>2, <2>3, <2>4, <2>5 DEF ReplyNext
<1>3. SignalTypeOK => received \in {0} \cup Channel
  BY ChannelAssumption, SignalAssumption, SMTT(30) DEF SignalTypeOK
<1> QED
  BY <1>1, <1>2, <1>3, RequestsUseSignal, Typing, PTL DEF ReplySpec, OneshotSpec

\* On the request path the answers are true and no wakeup of the runner is lost.
THEOREM RequestPathIsSafe == ReplySpec => [](AnswerIsTrue /\ SleepsOnlyRegistered /\ NewestValue)
BY RequestsUseSignal, RequestsUseOneshot, TrueAnswers, NoLostWakeup, LatestValueSlot, PTL
=============================================================================
