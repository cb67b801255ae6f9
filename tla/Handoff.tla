------------------------------ MODULE Handoff ------------------------------
(***************************************************************************)
(* Taking the controller from the firmware: new_ehci walks the extended    *)
(* capabilities in PCI configuration space to USBLEGSUP, take_ownership    *)
(* sets the OS semaphore, and try_take is called until the BIOS has        *)
(* cleared its own.  The BIOS (external) drives the controller from SMIs   *)
(* until it sees the OS semaphore, and then in its own time lets go.       *)
(***************************************************************************)
EXTENDS Naturals, Sequences, Functions

CONSTANTS Offset,          \* the offsets at which capabilities may lie
          MaxCapabilities  \* bound on how many there are

ASSUME HandoffAssumption == Offset \subseteq 1..255 /\ MaxCapabilities \in Nat

UsbLegSup == 1

VARIABLES
  config,       \* the capability registers in configuration space
  eecp,         \* HCCPARAMS: the first of them, 0 for none
  semaphores,   \* the owners set in USBLEGSUP, "bios" and "os"
  bios,         \* whether the BIOS is "driving" the controller or "off" it
  handoff,      \* what the caller holds
  capability_pointer,  \* of the ExtendedCapabilitiesIterator, 0 for None
  usb_leg_sup_offset   \* of BiosOwnedEhci and TakingOwnershipEhci

pciVars == <<config, eecp>>
handoffVars == <<pciVars, semaphores, bios, handoff, capability_pointer, usb_leg_sup_offset>>

\* The register at o when list l chains the offsets, with USBLEGSUP at s.
CapabilityReg(l, s, o) ==
  [id |-> IF o = s THEN UsbLegSup ELSE UsbLegSup + 1,
   next_cap_pointer |-> IF \E i \in 1..(Len(l) - 1) : l[i] = o
                          THEN l[1 + CHOOSE i \in 1..Len(l) : l[i] = o] ELSE 0]

\* Any list of capabilities, with USBLEGSUP anywhere in it or nowhere.  Only a
\* BIOS with USBLEGSUP may be driving, and its semaphore says whether it does.
HandoffInit ==
  /\ \E l \in UNION {{l \in [1..n -> Offset] : IsInjective(l)} : n \in 0..MaxCapabilities} :
       \E s \in Range(l) \cup {0} :
         /\ eecp = IF l = <<>> THEN 0 ELSE l[1]
         /\ config = [o \in Offset |-> CapabilityReg(l, s, o)]
         /\ bios \in IF s = 0 THEN {"off"} ELSE {"driving", "off"}
  /\ semaphores = IF bios = "driving" THEN {"bios"} ELSE {}
  /\ handoff = "walking" /\ capability_pointer = eecp /\ usb_leg_sup_offset = 0

-----------------------------------------------------------------------------
HandoffStep(from, to) == handoff = from /\ handoff' = to /\ UNCHANGED <<pciVars, bios>>

\* A wrong find_map: it looks at a capability only when another one follows.
IsUsbLegSup_NotLast(reg) == reg.id = UsbLegSup /\ reg.next_cap_pointer # 0

IsUsbLegSup(reg) == reg.id = UsbLegSup

\* new_ehci: one item of the iterator, under find_map.
WalkCapabilities ==
  LET reg == config[capability_pointer]
  IN  /\ capability_pointer # 0
      /\ IF IsUsbLegSup(reg)
           THEN /\ HandoffStep("walking", "bios_owned")
                /\ usb_leg_sup_offset' = capability_pointer /\ UNCHANGED capability_pointer
           ELSE /\ HandoffStep("walking", "walking")
                /\ capability_pointer' = reg.next_cap_pointer /\ UNCHANGED usb_leg_sup_offset
      /\ UNCHANGED semaphores

\* The list has no USBLEGSUP: AnyEhci::OsOwned.
NoUsbLegSup ==
  /\ capability_pointer = 0
  /\ HandoffStep("walking", "stack")
  /\ UNCHANGED <<semaphores, capability_pointer, usb_leg_sup_offset>>

\* A wrong write of byte 3: the whole register, which clears the BIOS semaphore.
OsSemaphoreWrite_Dword(s) == {"os"}

\* A wrong write: to another byte, where the BIOS does not look.
OsSemaphoreWrite_Elsewhere(s) == s

\* What the write of 1 to byte 3 of USBLEGSUP leaves in it.
OsSemaphoreWrite(s) == s \cup {"os"}

take_ownership ==
  /\ HandoffStep("bios_owned", "taking")
  /\ semaphores' = OsSemaphoreWrite(semaphores)
  /\ UNCHANGED <<capability_pointer, usb_leg_sup_offset>>

\* Taken; NotYet changes nothing.
try_take ==
  /\ "bios" \notin semaphores
  /\ HandoffStep("taking", "stack")
  /\ UNCHANGED <<semaphores, capability_pointer, usb_leg_sup_offset>>

\* External: the BIOS finds the OS semaphore set and stops ...
BiosStops ==
  /\ bios = "driving" /\ "os" \in semaphores
  /\ bios' = "off"
  /\ UNCHANGED <<pciVars, semaphores, handoff, capability_pointer, usb_leg_sup_offset>>

\* ... and then clears its semaphore.
BiosReleases ==
  /\ bios = "off" /\ "bios" \in semaphores
  /\ semaphores' = semaphores \ {"bios"}
  /\ UNCHANGED <<pciVars, bios, handoff, capability_pointer, usb_leg_sup_offset>>

HandoffNext ==
  \/ WalkCapabilities \/ NoUsbLegSup \/ take_ownership \/ try_take
  \/ BiosStops \/ BiosReleases

\* new_ehci does not await, the caller goes on calling try_take, and the BIOS
\* answers the SMI.  Whether take_ownership is called is the caller's choice.
HandoffFairness ==
  /\ WF_handoffVars(WalkCapabilities \/ NoUsbLegSup)
  /\ WF_handoffVars(try_take)
  /\ WF_handoffVars(BiosStops \/ BiosReleases)

-----------------------------------------------------------------------------
\* The driver gets a Stack, and with it the registers, only when the BIOS is
\* off the controller: wherever USBLEGSUP is in the list it is found, and the
\* semaphore that try_take reads is only ever cleared by the BIOS.
OsDrivesAlone == handoff = "stack" => bios = "off"

\* new_ehci comes to a result, and try_take in the end says Taken.
OwnershipIsTaken == (handoff \in {"walking", "taking"}) ~> (handoff \in {"bios_owned", "stack"})
=============================================================================
