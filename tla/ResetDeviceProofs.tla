------------------------- MODULE ResetDeviceProofs -------------------------
(***************************************************************************)
(* The safety properties of ResetDevice for any number of ports, addresses *)
(* and calls, and any faults.                                              *)
(***************************************************************************)
EXTENDS ResetDevice, TLAPS

\* Every leaf goes to Zenon unless it names another prover.
USE ZenonT(30)

Result == [call : Nat, err : {"none", "DeviceDisconnected", "DeviceIsFullSpeed"}, addr : Addr \cup {NotReset}]
Steps == {"Idle", "WaitingToStopReset", "WaitForPortToBeEnabled", "WaitForSetAddr", "WaitForQhRemove"}

\* The variables hold calls, results, addresses and places of the 'reset loop.
ResetTypeOK ==
  /\ calls \in [Port -> Nat] /\ waiting \in [Port -> BOOLEAN] /\ req_signal \in [Port -> Nat]
  /\ res_signal \in [Port -> Result] /\ got \in [Port -> Result]
  /\ resetting \in [port : Port, call : Nat, step : Steps, addr : Addr \cup {NotReset}, timer : BOOLEAN]
  /\ allocated \subseteq Addr /\ 0 \in allocated
  /\ connected \in [Port -> BOOLEAN] /\ high_speed \in [Port -> BOOLEAN]
  /\ enabled \in [Port -> BOOLEAN] /\ port_reset \in [Port -> BOOLEAN]
  /\ dev_addr \in [Port -> Addr \cup {NotReset}] /\ next_addr \in [Port -> Addr \cup {NotReset}]
  /\ happened \subseteq AllFaults

\* The queue head and the status QTD go with the place of the 'reset loop, and
\* so does the address of the request.
TransferInv ==
  /\ resetting.addr # NotReset <=> resetting.step \in {"WaitForSetAddr", "WaitForQhRemove"}
  /\ resetting.addr # NotReset => resetting.addr \in allocated \ {0}
  /\ resetting.step \in {"Idle", "WaitingToStopReset", "WaitForPortToBeEnabled"} =>
       qh = "out" /\ status_qtd = "none"
  /\ resetting.step = "WaitForSetAddr" => qh = "listed"
  /\ resetting.step = "WaitForQhRemove" => qh \in {"removing", "out"} /\ status_qtd # "active"

\* An address is in one place: with the request, in a result, or with a caller.
Given(r) == r.addr # NotReset => r.addr \in allocated \ {0} /\ r.addr # resetting.addr
GivenInv ==
  /\ \A p \in Port : Given(got[p]) /\ Given(res_signal[p])
  /\ \A p, q \in Port : p # q =>
       /\ got[p].addr # NotReset => got[p].addr # got[q].addr /\ got[p].addr # res_signal[q].addr
       /\ res_signal[p].addr # NotReset => res_signal[p].addr # res_signal[q].addr

\* The port of the request whose device may be at address 0.
AtWork == {"WaitingToStopReset", "WaitForPortToBeEnabled", "WaitForSetAddr"}

\* Who is enabled has an address of its own or is the device under reset; nobody
\* else can be enabled at address 0.
PortInv(p) ==
  /\ next_addr[p] = NotReset
  /\ dev_addr[p] # NotReset => connected[p] /\ dev_addr[p] \in allocated
  /\ enabled[p] => high_speed[p] /\ ~port_reset[p] /\ dev_addr[p] # NotReset
  /\ dev_addr[p] = 0 /\ high_speed[p] /\ ~port_reset[p] => p = P /\ resetting.step \in AtWork
  /\ status_qtd = "active" => dev_addr[p] # resetting.addr

\* The device under reset has the address that goes with the place of the loop.
UnderReset ==
  /\ status_qtd \in {"none", "active", "done"}
  /\ resetting.step \in {"WaitForPortToBeEnabled", "WaitForSetAddr", "WaitForQhRemove"} => ~port_reset[P]
  /\ resetting.step \in {"WaitingToStopReset", "WaitForPortToBeEnabled"} => dev_addr[P] \in {0, NotReset}
  /\ resetting.step = "WaitForPortToBeEnabled" /\ resetting.timer /\ dev_addr[P] = 0 /\ high_speed[P] => enabled[P]
  /\ resetting.step = "WaitForSetAddr" =>
       \/ status_qtd = "active" /\ dev_addr[P] \in {0, NotReset}
       \/ status_qtd = "done" /\ dev_addr[P] \in {resetting.addr, NotReset}
  /\ resetting.step = "WaitForQhRemove" => dev_addr[P] \in {resetting.addr, NotReset}

\* Other addresses than 0 differ.
Apart == \A p, q \in Port : p # q /\ dev_addr[p] \notin {0, NotReset} => dev_addr[p] # dev_addr[q]

\* All this while devices obey.
BusInv == DevicesObey => UnderReset /\ Apart /\ \A p \in Port : PortInv(p)

InFlight(p) == resetting.step # "Idle" /\ P = p

\* While no call is given up: a call is in one place, the unread request, the
\* 'reset loop or the unread result, and it is the last call on its port.
CallInv ==
  "cancel" \notin happened =>
    \A p \in Port :
      /\ req_signal[p] # NoCall => waiting[p] /\ req_signal[p] = calls[p] /\ ~InFlight(p) /\ res_signal[p] = Nothing
      /\ InFlight(p) => waiting[p] /\ resetting.call = calls[p] /\ res_signal[p] = Nothing
      /\ res_signal[p] # Nothing => waiting[p] /\ res_signal[p].call = calls[p]

\* While both hold: a device whose reset was answered keeps its address until it
\* leaves its port.
AnswerInv ==
  DevicesObey /\ "cancel" \notin happened =>
    \A p \in Port : res_signal[p].addr # NotReset =>
      ~port_reset[p] /\ dev_addr[p] \in {res_signal[p].addr, NotReset}

ResetInv == ResetTypeOK /\ TransferInv /\ GivenInv /\ BusInv /\ CallInv /\ AnswerInv
-----------------------------------------------------------------------------
\* Initially nothing is asked, allocated or plugged in.
LEMMA ResetBegins == Init => ResetInv
<1> SUFFICES ASSUME Init PROVE ResetInv
  OBVIOUS
<1> USE ResetAssumption DEF Port, Addr, NotReset, NoCall, Nothing, Idle
<1>1. ResetTypeOK
  BY SMTT(30) DEF Init, ResetTypeOK, Result, Steps, AllFaults
<1>2. TransferInv /\ GivenInv /\ CallInv /\ AnswerInv
  BY DEF Init, TransferInv, GivenInv, Given, CallInv, AnswerInv, InFlight, P
<1>3. BusInv
  BY DEF Init, BusInv, PortInv, UnderReset, Apart, DevicesObey, AtWork, P
<1> QED
  BY <1>1, <1>2, <1>3 DEF ResetInv

\* NotReset is no address.
LEMMA NoAddress == NotReset \notin Addr /\ 0 \in Addr
BY ResetAssumption, SMTT(30) DEF NotReset, Addr

\* Every step keeps the types.
LEMMA ResetTypes ==
  ASSUME ResetTypeOK, TransferInv, [Next]_vars
  PROVE  ResetTypeOK'
<1>0. 1 \in Port
  BY ResetAssumption, SMTT(30) DEF Port
<1> USE <1>0, NoAddress DEF P, userVars, runnerVars, xferVars, portVars, devVars, RunnerAt, Respond, Happens
<1>u. ASSUME UNCHANGED <<calls, waiting, req_signal, res_signal, got, resetting, allocated, portVars, devVars, happened>> PROVE ResetTypeOK'
  BY <1>u DEF ResetTypeOK, Idle, Nothing, NoCall, FreeAddr, Allocate, Result, Steps, AllFaults
<1>1. CASE ReportDisconnect
  <2>1. [call |-> resetting.call, err |-> "DeviceDisconnected", addr |-> NotReset] \in Result
    BY DEF ResetTypeOK, Result
  <2>2. res_signal' \in [Port -> Result]
    BY <1>1, <2>1 DEF ReportDisconnect, ResetTypeOK
  <2>3. resetting' \in [port : Port, call : Nat, step : Steps, addr : Addr \cup {NotReset}, timer : BOOLEAN]
    BY <1>1 DEF ReportDisconnect, Idle, NoCall, Steps
  <2> QED
    BY <1>1, <2>2, <2>3 DEF ReportDisconnect, ResetTypeOK
<1>2. CASE StopReset
  BY <1>2, ZenonT(30) DEF StopReset, ResetTypeOK, Idle, Nothing, NoCall, FreeAddr, Allocate, Result, Steps, AllFaults
<1>3. CASE SendSetAddress
  BY <1>3, ZenonT(60) DEF SendSetAddress, ResetTypeOK, Idle, Nothing, NoCall, FreeAddr, Allocate, Result, Steps, AllFaults
<1>4. CASE PanicNoAddress
  BY <1>4, <1>u DEF PanicNoAddress
<1>5. CASE ReportFullSpeed
  <2>1. [call |-> resetting.call, err |-> "DeviceIsFullSpeed", addr |-> NotReset] \in Result
    BY DEF ResetTypeOK, Result
  <2>2. res_signal' \in [Port -> Result]
    BY <1>5, <2>1 DEF ReportFullSpeed, ResetTypeOK
  <2>3. resetting' \in [port : Port, call : Nat, step : Steps, addr : Addr \cup {NotReset}, timer : BOOLEAN]
    BY <1>5 DEF ReportFullSpeed, Idle, NoCall, Steps
  <2> QED
    BY <1>5, <2>2, <2>3 DEF ReportFullSpeed, ResetTypeOK
<1>6. CASE RemoveQh
  BY <1>6, ZenonT(30) DEF RemoveQh, ResetTypeOK, Idle, Nothing, NoCall, FreeAddr, Allocate, Result, Steps, AllFaults
<1>7. CASE FinishReset
  <2>1. [call |-> resetting.call, err |-> "none", addr |-> resetting.addr] \in Result
    BY DEF ResetTypeOK, Result
  <2>2. res_signal' \in [Port -> Result]
    BY <1>7, <2>1 DEF FinishReset, ResetTypeOK
  <2>3. resetting' \in [port : Port, call : Nat, step : Steps, addr : Addr \cup {NotReset}, timer : BOOLEAN]
    BY <1>7 DEF FinishReset, Idle, NoCall, Steps
  <2> QED
    BY <1>7, <2>2, <2>3 DEF FinishReset, ResetTypeOK
<1>8. CASE TimerFires
  BY <1>8, ZenonT(30) DEF TimerFires, ResetTypeOK, Idle, Nothing, NoCall, FreeAddr, Allocate, Result, Steps, AllFaults
<1>9. CASE DeviceAccepts
  <2>0. resetting.addr \in Addr \cup {NotReset}
    BY DEF ResetTypeOK
  <2>1a. Taken(dev_addr) \in [Port -> Addr \cup {NotReset}] /\ Taken(next_addr) \in [Port -> Addr \cup {NotReset}]
    BY <2>0 DEF Taken, ResetTypeOK
  <2>1. dev_addr' \in [Port -> Addr \cup {NotReset}] /\ next_addr' \in [Port -> Addr \cup {NotReset}]
    BY <1>9, <2>1a DEF DeviceAccepts, ResetTypeOK
  <2>2. happened' \subseteq AllFaults
    BY <1>9, ZenonT(30) DEF DeviceAccepts, ResetTypeOK, AllFaults
  <2> QED
    BY <1>9, <2>1, <2>2 DEF DeviceAccepts, ResetTypeOK
<1>10. CASE DeviceStalls
  BY <1>10 DEF DeviceStalls, ResetTypeOK, Idle, Nothing, NoCall, FreeAddr, Allocate, Result, Steps, AllFaults
<1>11. CASE QhRemoved
  BY <1>11, <1>u DEF QhRemoved
<1>12. CASE UNCHANGED vars
  BY <1>12, <1>u DEF vars
<1>13. ASSUME NEW p \in Port, StartReset(p) PROVE ResetTypeOK'
  BY <1>13 DEF StartReset, ResetTypeOK, Idle, Nothing, NoCall, FreeAddr, Allocate, Result, Steps, AllFaults
<1>14. ASSUME NEW p \in Port, EnablePort(p) PROVE ResetTypeOK'
  BY <1>14 DEF EnablePort, ResetTypeOK, Idle, Nothing, NoCall, FreeAddr, Allocate, Result, Steps, AllFaults
<1>15. ASSUME NEW p \in Port, Plug(p) PROVE ResetTypeOK'
  <2>1. dev_addr' \in [Port -> Addr \cup {NotReset}]
    BY <1>15 DEF Plug, ResetTypeOK
  <2>2. PICK hs \in BOOLEAN : high_speed' = [high_speed EXCEPT ![p] = hs]
    BY <1>15, ZenonT(30) DEF Plug, ResetTypeOK
  <2>3. high_speed' \in [Port -> BOOLEAN] /\ connected' \in [Port -> BOOLEAN]
    BY <1>15, <2>2 DEF Plug, ResetTypeOK
  <2> QED
    BY <1>15, <2>1, <2>3 DEF Plug, ResetTypeOK
<1>16. ASSUME NEW p \in Port, Unplug(p) PROVE ResetTypeOK'
  BY <1>16 DEF Unplug, ResetTypeOK, Idle, Nothing, NoCall, FreeAddr, Allocate, Result, Steps, AllFaults
<1>17. ASSUME NEW p \in Port, DeviceSwitches(p) PROVE ResetTypeOK'
  BY <1>17 DEF DeviceSwitches, ResetTypeOK, Idle, Nothing, NoCall, FreeAddr, Allocate, Result, Steps, AllFaults
<1>18. ASSUME NEW p \in Port, reset_device(p) PROVE ResetTypeOK'
  <2>0. calls[p] \in Nat
    BY DEF ResetTypeOK
  <2>1. calls[p] + 1 \in Nat
    BY ONLY <2>0, SMTT(30)
  <2>2. calls' \in [Port -> Nat] /\ req_signal' \in [Port -> Nat] /\ waiting' \in [Port -> BOOLEAN]
    BY <1>18, <2>1 DEF reset_device, ResetTypeOK
  <2> QED
    BY <1>18, <2>2 DEF reset_device, ResetTypeOK
<1>19. ASSUME NEW p \in Port, TakeResult(p) PROVE ResetTypeOK'
  BY <1>19 DEF TakeResult, ResetTypeOK, Idle, Nothing, NoCall, FreeAddr, Allocate, Result, Steps, AllFaults
<1>20. ASSUME NEW p \in Port, CancelReset(p) PROVE ResetTypeOK'
  BY <1>20 DEF CancelReset, ResetTypeOK, Idle, Nothing, NoCall, FreeAddr, Allocate, Result, Steps, AllFaults
<1> QED
  BY <1>1, <1>2, <1>3, <1>4, <1>5, <1>6, <1>7, <1>8, <1>9, <1>10, <1>11, <1>12, <1>13, <1>14, <1>15, <1>16, <1>17, <1>18, <1>19, <1>20, ZenonT(30) DEF Next, ResetLoop, Hardware, Caller

\* Every step keeps the queue head and the address of the request in step with the loop.
LEMMA TransferSteps ==
  ASSUME ResetTypeOK, TransferInv, [Next]_vars
  PROVE  TransferInv'
<1>0. resetting \in [port : Port, call : Nat, step : Steps, addr : Addr \cup {NotReset}, timer : BOOLEAN] /\ allocated \subseteq Addr /\ 0 \in allocated
  BY DEF ResetTypeOK
<1> USE <1>0, NoAddress DEF P, userVars, runnerVars, xferVars, portVars, devVars, RunnerAt, Respond, Happens
<1>u. ASSUME UNCHANGED <<resetting, allocated, qh, status_qtd>> PROVE TransferInv'
  BY <1>u DEF TransferInv, FreeAddr, Allocate, Steps, Idle
<1>1. CASE ReportDisconnect
  BY <1>1 DEF ReportDisconnect, TransferInv, FreeAddr, Allocate, Steps, Idle
<1>2. CASE StopReset
  BY <1>2 DEF StopReset, TransferInv, FreeAddr, Allocate, Steps, Idle
<1>3. CASE SendSetAddress
  BY <1>3, SMTT(30) DEF SendSetAddress, TransferInv, FreeAddr, Allocate, Steps, Idle
<1>4. CASE PanicNoAddress
  BY <1>4, <1>u DEF PanicNoAddress
<1>5. CASE ReportFullSpeed
  BY <1>5 DEF ReportFullSpeed, TransferInv, FreeAddr, Allocate, Steps, Idle
<1>6. CASE RemoveQh
  BY <1>6 DEF RemoveQh, TransferInv, FreeAddr, Allocate, Steps, Idle
<1>7. CASE FinishReset
  BY <1>7 DEF FinishReset, TransferInv, FreeAddr, Allocate, Steps, Idle
<1>8. CASE TimerFires
  BY <1>8 DEF TimerFires, TransferInv, FreeAddr, Allocate, Steps, Idle
<1>9. CASE DeviceAccepts
  BY <1>9 DEF DeviceAccepts, TransferInv, FreeAddr, Allocate, Steps, Idle
<1>10. CASE DeviceStalls
  BY <1>10 DEF DeviceStalls, TransferInv, FreeAddr, Allocate, Steps, Idle
<1>11. CASE QhRemoved
  BY <1>11 DEF QhRemoved, TransferInv, FreeAddr, Allocate, Steps, Idle
<1>12. CASE UNCHANGED vars
  BY <1>12, <1>u DEF vars
<1>13. ASSUME NEW p \in Port, StartReset(p) PROVE TransferInv'
  BY <1>13 DEF StartReset, TransferInv, FreeAddr, Allocate, Steps, Idle
<1>14. ASSUME NEW p \in Port, EnablePort(p) PROVE TransferInv'
  BY <1>14, <1>u DEF EnablePort
<1>15. ASSUME NEW p \in Port, Plug(p) PROVE TransferInv'
  BY <1>15, <1>u DEF Plug
<1>16. ASSUME NEW p \in Port, Unplug(p) PROVE TransferInv'
  BY <1>16, <1>u DEF Unplug
<1>17. ASSUME NEW p \in Port, DeviceSwitches(p) PROVE TransferInv'
  BY <1>17, <1>u DEF DeviceSwitches
<1>18. ASSUME NEW p \in Port, reset_device(p) PROVE TransferInv'
  BY <1>18, <1>u DEF reset_device
<1>19. ASSUME NEW p \in Port, TakeResult(p) PROVE TransferInv'
  BY <1>19, <1>u DEF TakeResult
<1>20. ASSUME NEW p \in Port, CancelReset(p) PROVE TransferInv'
  BY <1>20, <1>u DEF CancelReset
<1> QED
  BY <1>1, <1>2, <1>3, <1>4, <1>5, <1>6, <1>7, <1>8, <1>9, <1>10, <1>11, <1>12, <1>13, <1>14, <1>15, <1>16, <1>17, <1>18, <1>19, <1>20, ZenonT(30) DEF Next, ResetLoop, Hardware, Caller

\* A SET_ADDRESS under way is that of the request, with an address of its own.
LEMMA SetAddressStep ==
  ASSUME ResetTypeOK, TransferInv, status_qtd = "active"
  PROVE  /\ resetting.step = "WaitForSetAddr"
         /\ resetting.addr \in allocated \ {0} /\ resetting.addr # NotReset
<1>1. resetting.step \in Steps
  BY DEF ResetTypeOK
<1> QED
  BY <1>1 DEF TransferInv, Steps

\* Every step keeps an address in one place.
LEMMA GivenSteps ==
  ASSUME ResetTypeOK, TransferInv, GivenInv, [Next]_vars
  PROVE  GivenInv'
<1>0. got \in [Port -> Result] /\ res_signal \in [Port -> Result] /\ allocated \subseteq Addr /\ 0 \in allocated
     /\ resetting \in [port : Port, call : Nat, step : Steps, addr : Addr \cup {NotReset}, timer : BOOLEAN]
  BY DEF ResetTypeOK
<1> USE <1>0, NoAddress DEF P, userVars, runnerVars, xferVars, portVars, devVars, RunnerAt, Respond, Happens
<1>u. ASSUME UNCHANGED <<got, res_signal, allocated>>, resetting'.addr = resetting.addr PROVE GivenInv'
  BY <1>u DEF GivenInv, Given
<1>1. CASE ReportDisconnect
  <2>1. \A q \in Port : res_signal'[q].addr = IF q = P THEN NotReset ELSE res_signal[q].addr
    BY <1>1 DEF ReportDisconnect
  <2>2. got' = got /\ allocated' = allocated /\ resetting'.addr = NotReset
    BY <1>1 DEF ReportDisconnect, Idle
  <2>5. \A q \in Port : Given(got[q])' /\ Given(res_signal[q])'
    BY <2>1, <2>2 DEF GivenInv, Given
  <2>6. \A q, r \in Port : q # r /\ got'[q].addr # NotReset => got'[q].addr # got'[r].addr /\ got'[q].addr # res_signal'[r].addr
    BY <2>1, <2>2, SMTT(30) DEF GivenInv
  <2>7. \A q, r \in Port : q # r /\ res_signal'[q].addr # NotReset => res_signal'[q].addr # res_signal'[r].addr
    BY <2>1, SMTT(30) DEF GivenInv
  <2> QED
    BY <2>5, <2>6, <2>7 DEF GivenInv
<1>2. CASE StopReset
  BY <1>2, <1>u DEF StopReset
<1>3. CASE SendSetAddress
  <2>1. PICK a \in FreeAddr : allocated' = allocated \cup {a} /\ resetting'.addr = a
    BY <1>3 DEF SendSetAddress, Allocate
  <2>2. a \notin allocated /\ a # NotReset
    BY <2>1 DEF FreeAddr
  <2>3. got' = got /\ res_signal' = res_signal
    BY <1>3 DEF SendSetAddress
  <2>4. \A q \in Port : Given(got[q])' /\ Given(res_signal[q])'
    BY <2>1, <2>2, <2>3 DEF GivenInv, Given
  <2> QED
    BY <2>3, <2>4 DEF GivenInv
<1>4. CASE PanicNoAddress
  BY <1>4, <1>u DEF PanicNoAddress
<1>5. CASE ReportFullSpeed
  <2>1. \A q \in Port : res_signal'[q].addr = IF q = P THEN NotReset ELSE res_signal[q].addr
    BY <1>5 DEF ReportFullSpeed
  <2>2. got' = got /\ allocated' = allocated /\ resetting'.addr = NotReset
    BY <1>5 DEF ReportFullSpeed, Idle
  <2>5. \A q \in Port : Given(got[q])' /\ Given(res_signal[q])'
    BY <2>1, <2>2 DEF GivenInv, Given
  <2>6. \A q, r \in Port : q # r /\ got'[q].addr # NotReset => got'[q].addr # got'[r].addr /\ got'[q].addr # res_signal'[r].addr
    BY <2>1, <2>2, SMTT(30) DEF GivenInv
  <2>7. \A q, r \in Port : q # r /\ res_signal'[q].addr # NotReset => res_signal'[q].addr # res_signal'[r].addr
    BY <2>1 DEF GivenInv
  <2> QED
    BY <2>5, <2>6, <2>7 DEF GivenInv
<1>6. CASE RemoveQh
  BY <1>6, <1>u DEF RemoveQh
<1>7. CASE FinishReset
  <2>1. \A q \in Port : res_signal'[q].addr = IF q = P THEN resetting.addr ELSE res_signal[q].addr
    BY <1>7 DEF FinishReset
  <2>2. got' = got /\ allocated' = allocated /\ resetting'.addr = NotReset
    BY <1>7 DEF FinishReset, Idle
  <2>3. resetting.addr \in allocated \ {0} /\ resetting.addr # NotReset
    BY <1>7 DEF FinishReset, TransferInv
  <2>4. \A q \in Port : got[q].addr # resetting.addr /\ res_signal[q].addr # resetting.addr
    BY <2>3 DEF GivenInv, Given
  <2>5. \A q \in Port : Given(got[q])' /\ Given(res_signal[q])'
    BY <2>1, <2>2, <2>3 DEF GivenInv, Given
  <2>6. \A q, r \in Port : q # r /\ got'[q].addr # NotReset => got'[q].addr # got'[r].addr /\ got'[q].addr # res_signal'[r].addr
    BY <2>1, <2>2, <2>4, SMTT(30) DEF GivenInv
  <2>7. \A q, r \in Port : q # r /\ res_signal'[q].addr # NotReset => res_signal'[q].addr # res_signal'[r].addr
    BY <2>1, <2>4, SMTT(30) DEF GivenInv
  <2> QED
    BY <2>5, <2>6, <2>7 DEF GivenInv
<1>8. CASE TimerFires
  BY <1>8, <1>u DEF TimerFires
<1>9. CASE DeviceAccepts
  BY <1>9, <1>u DEF DeviceAccepts
<1>10. CASE DeviceStalls
  BY <1>10, <1>u DEF DeviceStalls
<1>11. CASE QhRemoved
  BY <1>11, <1>u DEF QhRemoved
<1>12. CASE UNCHANGED vars
  BY <1>12, <1>u DEF vars
<1>13. ASSUME NEW p \in Port, StartReset(p) PROVE GivenInv'
  <2>1. got' = got /\ res_signal' = res_signal /\ allocated' = allocated /\ resetting'.addr = NotReset
    BY <1>13 DEF StartReset
  <2> QED
    BY <2>1, SMTT(30) DEF GivenInv, Given
<1>14. ASSUME NEW p \in Port, EnablePort(p) PROVE GivenInv'
  BY <1>14, <1>u DEF EnablePort
<1>15. ASSUME NEW p \in Port, Plug(p) PROVE GivenInv'
  BY <1>15, <1>u DEF Plug
<1>16. ASSUME NEW p \in Port, Unplug(p) PROVE GivenInv'
  BY <1>16, <1>u DEF Unplug
<1>17. ASSUME NEW p \in Port, DeviceSwitches(p) PROVE GivenInv'
  BY <1>17, <1>u DEF DeviceSwitches
<1>18. ASSUME NEW p \in Port, reset_device(p) PROVE GivenInv'
  BY <1>18, <1>u DEF reset_device
<1>19. ASSUME NEW p \in Port, TakeResult(p) PROVE GivenInv'
  <2>1. allocated' = allocated /\ resetting' = resetting
    BY <1>19 DEF TakeResult
  <2>2. got'[p] = res_signal[p] /\ res_signal'[p].addr = NotReset
    BY <1>19 DEF TakeResult, Nothing
  <2>3. \A q \in Port \ {p} : got'[q] = got[q] /\ res_signal'[q] = res_signal[q]
    BY <1>19 DEF TakeResult
  <2> QED
    BY <2>1, <2>2, <2>3, SMTT(30) DEF GivenInv, Given
<1>20. ASSUME NEW p \in Port, CancelReset(p) PROVE GivenInv'
  BY <1>20, <1>u DEF CancelReset
<1> QED
  BY <1>1, <1>2, <1>3, <1>4, <1>5, <1>6, <1>7, <1>8, <1>9, <1>10, <1>11, <1>12, <1>13, <1>14, <1>15, <1>16, <1>17, <1>18, <1>19, <1>20, ZenonT(30) DEF Next, ResetLoop, Hardware, Caller

\* Every step keeps a call in one place.
LEMMA CallSteps ==
  ASSUME ResetTypeOK, CallInv, [Next]_vars
  PROVE  CallInv'
<1>0. calls \in [Port -> Nat] /\ waiting \in [Port -> BOOLEAN] /\ req_signal \in [Port -> Nat] /\ res_signal \in [Port -> Result]
     /\ resetting \in [port : Port, call : Nat, step : Steps, addr : Addr \cup {NotReset}, timer : BOOLEAN]
  BY DEF ResetTypeOK
<1> USE <1>0, NoAddress DEF P, userVars, runnerVars, xferVars, portVars, devVars, RunnerAt, Respond, Happens
<1>u. ASSUME UNCHANGED <<calls, waiting, req_signal, res_signal>>, happened \subseteq happened',
             resetting'.port = P, resetting'.call = resetting.call, resetting'.step = "Idle" <=> resetting.step = "Idle" PROVE CallInv'
  BY <1>u, SMTT(30) DEF CallInv, InFlight
<1>1. CASE ReportDisconnect
  <2>1. UNCHANGED <<calls, waiting, req_signal, happened>> /\ resetting'.step = "Idle" /\ resetting.step # "Idle"
    BY <1>1 DEF ReportDisconnect, Idle
  <2>2. res_signal'[P].call = resetting.call /\ \A q \in Port \ {P} : res_signal'[q] = res_signal[q]
    BY <1>1 DEF ReportDisconnect
  <2> QED
    BY <2>1, <2>2, SMTT(30) DEF CallInv, InFlight
<1>2. CASE StopReset
  BY <1>2, <1>u DEF StopReset
<1>3. CASE SendSetAddress
  BY <1>3, <1>u DEF SendSetAddress
<1>4. CASE PanicNoAddress
  BY <1>4, <1>u DEF PanicNoAddress
<1>5. CASE ReportFullSpeed
  <2>1. UNCHANGED <<calls, waiting, req_signal, happened>> /\ resetting'.step = "Idle" /\ resetting.step # "Idle"
    BY <1>5 DEF ReportFullSpeed, Idle
  <2>2. res_signal'[P].call = resetting.call /\ \A q \in Port \ {P} : res_signal'[q] = res_signal[q]
    BY <1>5 DEF ReportFullSpeed
  <2> QED
    BY <2>1, <2>2 DEF CallInv, InFlight
<1>6. CASE RemoveQh
  BY <1>6, <1>u DEF RemoveQh
<1>7. CASE FinishReset
  <2>1. UNCHANGED <<calls, waiting, req_signal, happened>> /\ resetting'.step = "Idle" /\ resetting.step # "Idle"
    BY <1>7 DEF FinishReset, Idle
  <2>2. res_signal'[P].call = resetting.call /\ \A q \in Port \ {P} : res_signal'[q] = res_signal[q]
    BY <1>7 DEF FinishReset
  <2> QED
    BY <2>1, <2>2 DEF CallInv, InFlight
<1>8. CASE TimerFires
  BY <1>8, <1>u DEF TimerFires
<1>9. CASE DeviceAccepts
  BY <1>9, <1>u DEF DeviceAccepts
<1>10. CASE DeviceStalls
  BY <1>10, <1>u DEF DeviceStalls
<1>11. CASE QhRemoved
  BY <1>11, <1>u DEF QhRemoved
<1>12. CASE UNCHANGED vars
  BY <1>12, <1>u DEF vars
<1>13. ASSUME NEW p \in Port, StartReset(p) PROVE CallInv'
  <2>1. UNCHANGED <<calls, waiting, res_signal, happened>>
    BY <1>13 DEF StartReset
  <2>2. req_signal'[p] = NoCall /\ \A q \in Port \ {p} : req_signal'[q] = req_signal[q]
    BY <1>13 DEF StartReset
  <2>3. resetting'.port = p /\ resetting'.call = req_signal[p] /\ req_signal[p] # NoCall /\ resetting.step = "Idle"
    BY <1>13 DEF StartReset
  <2> QED
    BY <2>1, <2>2, <2>3, SMTT(30) DEF CallInv, InFlight
<1>14. ASSUME NEW p \in Port, EnablePort(p) PROVE CallInv'
  BY <1>14, <1>u DEF EnablePort
<1>15. ASSUME NEW p \in Port, Plug(p) PROVE CallInv'
  BY <1>15, <1>u DEF Plug
<1>16. ASSUME NEW p \in Port, Unplug(p) PROVE CallInv'
  BY <1>16, <1>u DEF Unplug
<1>17. ASSUME NEW p \in Port, DeviceSwitches(p) PROVE CallInv'
  BY <1>17, <1>u DEF DeviceSwitches
<1>18. ASSUME NEW p \in Port, reset_device(p) PROVE CallInv'
  <2>1. UNCHANGED <<res_signal, resetting, happened>> /\ ~waiting[p]
    BY <1>18 DEF reset_device
  <2>2. waiting'[p] /\ req_signal'[p] = calls'[p]
    BY <1>18 DEF reset_device
  <2>3. \A q \in Port \ {p} : calls'[q] = calls[q] /\ waiting'[q] = waiting[q] /\ req_signal'[q] = req_signal[q]
    BY <1>18 DEF reset_device
  <2> QED
    BY <2>1, <2>2, <2>3, SMTT(30) DEF CallInv, InFlight
<1>19. ASSUME NEW p \in Port, TakeResult(p) PROVE CallInv'
  <2>1. UNCHANGED <<calls, req_signal, resetting, happened>>
    BY <1>19 DEF TakeResult
  <2>2. res_signal'[p] = Nothing /\ res_signal[p] # Nothing
    BY <1>19 DEF TakeResult
  <2>3. \A q \in Port \ {p} : res_signal'[q] = res_signal[q] /\ waiting'[q] = waiting[q]
    BY <1>19 DEF TakeResult
  <2> QED
    BY <2>1, <2>2, <2>3, SMTT(30) DEF CallInv, InFlight
<1>20. ASSUME NEW p \in Port, CancelReset(p) PROVE CallInv'
  BY <1>20 DEF CancelReset, CallInv, InFlight
<1> QED
  BY <1>1, <1>2, <1>3, <1>4, <1>5, <1>6, <1>7, <1>8, <1>9, <1>10, <1>11, <1>12, <1>13, <1>14, <1>15, <1>16, <1>17, <1>18, <1>19, <1>20, ZenonT(30) DEF Next, ResetLoop, Hardware, Caller

\* Every step keeps the addresses on the bus apart.
LEMMA BusSteps ==
  ASSUME ResetTypeOK, TransferInv, BusInv, [Next]_vars
  PROVE  BusInv'
<1>0. connected \in [Port -> BOOLEAN] /\ high_speed \in [Port -> BOOLEAN] /\ enabled \in [Port -> BOOLEAN]
     /\ port_reset \in [Port -> BOOLEAN] /\ dev_addr \in [Port -> Addr \cup {NotReset}]
     /\ next_addr \in [Port -> Addr \cup {NotReset}] /\ 0 \in allocated /\ allocated \subseteq Addr
     /\ resetting \in [port : Port, call : Nat, step : Steps, addr : Addr \cup {NotReset}, timer : BOOLEAN]
  BY DEF ResetTypeOK
<1> USE <1>0, NoAddress DEF P, userVars, runnerVars, xferVars, portVars, devVars, RunnerAt, Respond, Happens
<1>u. ASSUME UNCHANGED <<resetting, allocated, status_qtd, portVars, devVars>>, DevicesObey' => DevicesObey PROVE BusInv'
  BY <1>u, SMTT(30) DEF BusInv, UnderReset, Apart, PortInv
<1>1. CASE ReportDisconnect
  <2>1. UNCHANGED <<status_qtd, port_reset>> /\ ~connected[P] /\ resetting'.step = "Idle"
       /\ resetting.step \in {"WaitingToStopReset", "WaitForPortToBeEnabled"} /\ status_qtd = "none"
    BY <1>1, ZenonT(30) DEF ReportDisconnect, Idle, TransferInv
  <2>2. UNCHANGED <<allocated, connected, high_speed, enabled, devVars, happened>>
    BY <1>1, ZenonT(30) DEF ReportDisconnect
  <2> SUFFICES ASSUME DevicesObey PROVE UnderReset' /\ Apart' /\ \A q \in Port : PortInv(q)'
    BY <2>2, ZenonT(30) DEF BusInv, DevicesObey
  <2>0. UnderReset /\ Apart /\ (\A q \in Port : PortInv(q)) /\ P \in Port
    BY DEF BusInv
  <2>3. UnderReset'
    BY <2>0, <2>1, <2>2 DEF UnderReset
  <2>4. Apart'
    BY <2>0, <2>2 DEF Apart
  <2>5. \A q \in Port : PortInv(q)'
    BY <2>0, <2>1, <2>2, SMTT(30) DEF PortInv, AtWork, UnderReset
  <2> QED
    BY <2>3, <2>4, <2>5
<1>2. CASE StopReset
  <2>1. UNCHANGED <<allocated, status_qtd, connected, high_speed, enabled, devVars, happened>>
    BY <1>2 DEF StopReset
  <2>2. /\ resetting.step = "WaitingToStopReset" /\ resetting'.step = "WaitForPortToBeEnabled" /\ ~resetting'.timer
        /\ resetting'.port = P /\ resetting'.addr = resetting.addr
    BY <1>2 DEF StopReset
  <2>3. ~port_reset'[P] /\ \A q \in Port \ {P} : port_reset'[q] = port_reset[q]
    BY <1>2 DEF StopReset
  <2> SUFFICES ASSUME DevicesObey PROVE UnderReset' /\ Apart' /\ \A q \in Port : PortInv(q)'
    BY <2>1 DEF BusInv, DevicesObey
  <2>0. UnderReset /\ Apart /\ (\A q \in Port : PortInv(q)) /\ P \in Port
    BY DEF BusInv
  <2>4. UnderReset'
    BY <2>0, <2>1, <2>2, <2>3 DEF UnderReset
  <2>5. Apart'
    BY <2>0, <2>1 DEF Apart
  <2>6. \A q \in Port : PortInv(q)'
    BY <2>0, <2>1, <2>2, <2>3, SMTT(30) DEF PortInv, AtWork
  <2> QED
    BY <2>4, <2>5, <2>6
<1>3. CASE SendSetAddress
  <2>1. PICK a \in FreeAddr : allocated' = allocated \cup {a} /\ resetting' = [resetting EXCEPT !.step = "WaitForSetAddr", !.addr = a]
    BY <1>3, ZenonT(30) DEF SendSetAddress, Allocate
  <2>2. a \notin allocated /\ a # NotReset
    BY <2>1 DEF FreeAddr
  <2>3. resetting'.addr = a /\ resetting'.port = P /\ resetting'.step = "WaitForSetAddr" /\ resetting.step = "WaitForPortToBeEnabled"
    BY <1>3, <2>1, ZenonT(30) DEF SendSetAddress
  <2>4. status_qtd' = "active" /\ UNCHANGED <<portVars, devVars, happened>>
    BY <1>3 DEF SendSetAddress
  <2> SUFFICES ASSUME DevicesObey PROVE UnderReset' /\ Apart' /\ \A q \in Port : PortInv(q)'
    BY <2>4 DEF BusInv, DevicesObey
  <2>0. UnderReset /\ Apart /\ (\A q \in Port : PortInv(q)) /\ P \in Port
    BY DEF BusInv
  <2>5. UnderReset'
    BY <2>0, <2>3, <2>4 DEF UnderReset
  <2>6. Apart'
    BY <2>0, <2>4 DEF Apart
  <2>7. \A q \in Port : PortInv(q)'
    BY <2>0, <2>1, <2>2, <2>3, <2>4, SMTT(30) DEF PortInv, AtWork
  <2> QED
    BY <2>5, <2>6, <2>7
<1>4. CASE PanicNoAddress
  BY <1>4, <1>u DEF PanicNoAddress, DevicesObey
<1>5. CASE ReportFullSpeed
  <2>1. UNCHANGED <<status_qtd, port_reset>> /\ ~enabled[P] /\ resetting.timer /\ resetting'.step = "Idle"
       /\ resetting.step = "WaitForPortToBeEnabled" /\ status_qtd = "none"
    BY <1>5 DEF ReportFullSpeed, Idle, TransferInv
  <2>2. UNCHANGED <<allocated, connected, high_speed, enabled, devVars, happened>>
    BY <1>5 DEF ReportFullSpeed
  <2> SUFFICES ASSUME DevicesObey PROVE UnderReset' /\ Apart' /\ \A q \in Port : PortInv(q)'
    BY <2>2 DEF BusInv, DevicesObey
  <2>0. UnderReset /\ Apart /\ (\A q \in Port : PortInv(q)) /\ P \in Port
    BY DEF BusInv
  <2>3. UnderReset'
    BY <2>0, <2>1, <2>2 DEF UnderReset
  <2>4. Apart'
    BY <2>0, <2>2 DEF Apart
  <2>5. \A q \in Port : PortInv(q)'
    BY <2>0, <2>1, <2>2, SMTT(30) DEF PortInv, AtWork, UnderReset
  <2> QED
    BY <2>3, <2>4, <2>5
<1>6. CASE RemoveQh
  <2>1. UNCHANGED <<status_qtd, port_reset>> /\ status_qtd # "active" /\ resetting.step = "WaitForSetAddr"
       /\ resetting'.step = "WaitForQhRemove" /\ resetting'.port = P /\ resetting'.addr = resetting.addr
       /\ resetting.addr \notin {0, NotReset}
    BY <1>6 DEF RemoveQh, TransferInv
  <2>2. UNCHANGED <<allocated, connected, high_speed, enabled, devVars, happened>>
    BY <1>6 DEF RemoveQh
  <2> SUFFICES ASSUME DevicesObey PROVE UnderReset' /\ Apart' /\ \A q \in Port : PortInv(q)'
    BY <2>2 DEF BusInv, DevicesObey
  <2>0. UnderReset /\ Apart /\ (\A q \in Port : PortInv(q)) /\ P \in Port
    BY DEF BusInv
  <2>3. UnderReset'
    BY <2>0, <2>1, <2>2 DEF UnderReset
  <2>4. Apart'
    BY <2>0, <2>2 DEF Apart
  <2>5. \A q \in Port : PortInv(q)'
    BY <2>0, <2>1, <2>2, SMTT(30) DEF PortInv, AtWork, UnderReset
  <2> QED
    BY <2>3, <2>4, <2>5
<1>7. CASE FinishReset
  <2>1. port_reset' = port_reset /\ status_qtd' = "none" /\ resetting.step = "WaitForQhRemove"
       /\ resetting'.step = "Idle" /\ resetting.addr \notin {0, NotReset}
    BY <1>7 DEF FinishReset, Idle, TransferInv
  <2>2. UNCHANGED <<allocated, connected, high_speed, enabled, devVars, happened>>
    BY <1>7 DEF FinishReset
  <2> SUFFICES ASSUME DevicesObey PROVE UnderReset' /\ Apart' /\ \A q \in Port : PortInv(q)'
    BY <2>2 DEF BusInv, DevicesObey
  <2>0. UnderReset /\ Apart /\ (\A q \in Port : PortInv(q)) /\ P \in Port
    BY DEF BusInv
  <2>3. UnderReset'
    BY <2>0, <2>1, <2>2 DEF UnderReset
  <2>4. Apart'
    BY <2>0, <2>2 DEF Apart
  <2>5. \A q \in Port : PortInv(q)'
    BY <2>0, <2>1, <2>2 DEF PortInv, AtWork, UnderReset
  <2> QED
    BY <2>3, <2>4, <2>5
<1>8. CASE TimerFires
  <2>1. UNCHANGED <<status_qtd, port_reset>>
       /\ resetting'.step = resetting.step /\ resetting'.port = P /\ resetting'.addr = resetting.addr
       /\ (resetting.step = "WaitForPortToBeEnabled" => ~(high_speed[P] /\ dev_addr[P] = 0 /\ ~enabled[P]))
    BY <1>8 DEF TimerFires
  <2>2. UNCHANGED <<allocated, connected, high_speed, enabled, devVars, happened>>
    BY <1>8 DEF TimerFires
  <2> SUFFICES ASSUME DevicesObey PROVE UnderReset' /\ Apart' /\ \A q \in Port : PortInv(q)'
    BY <2>2 DEF BusInv, DevicesObey
  <2>0. UnderReset /\ Apart /\ (\A q \in Port : PortInv(q)) /\ P \in Port
    BY DEF BusInv
  <2>3. UnderReset'
    BY <2>0, <2>1, <2>2 DEF UnderReset
  <2>4. Apart'
    BY <2>0, <2>2 DEF Apart
  <2>5. \A q \in Port : PortInv(q)'
    BY <2>0, <2>1, <2>2, SMTT(30) DEF PortInv, AtWork
  <2> QED
    BY <2>3, <2>4, <2>5
<1>9. CASE DeviceAccepts
  <2>1. status_qtd = "active" /\ status_qtd' = "done" /\ AtZero # {} /\ UNCHANGED <<allocated, resetting, portVars>>
    BY <1>9 DEF DeviceAccepts
  <2>2. DevicesObey' => DevicesObey /\ dev_addr' = Taken(dev_addr) /\ next_addr' = next_addr
    BY <1>9 DEF DeviceAccepts, DevicesObey
  <2> SUFFICES ASSUME DevicesObey' PROVE UnderReset' /\ Apart' /\ \A q \in Port : PortInv(q)'
    BY DEF BusInv
  <2>0. UnderReset /\ Apart /\ (\A q \in Port : PortInv(q)) /\ P \in Port
    BY <2>2 DEF BusInv
  <2>3. resetting.step = "WaitForSetAddr" /\ resetting.addr \in allocated \ {0} /\ resetting.addr # NotReset
    BY <2>1, SetAddressStep
  <2>4. AtZero = {P} /\ dev_addr[P] = 0 /\ enabled[P]
    BY <2>0, <2>1, SMTT(30) DEF AtZero, PortInv
  <2>5. dev_addr'[P] = resetting.addr /\ \A q \in Port \ {P} : dev_addr'[q] = dev_addr[q] /\ dev_addr[q] # resetting.addr
    BY <2>0, <2>1, <2>2, <2>4, SMTT(30) DEF Taken, PortInv
  <2>6. UnderReset'
    BY <2>0, <2>1, <2>3, <2>4, <2>5 DEF UnderReset
  <2>7. Apart'
    BY <2>0, <2>3, <2>5, SMTT(30) DEF Apart
  <2>8. PortInv(P)'
    BY <2>0, <2>1, <2>2, <2>3, <2>4, <2>5, SMTT(30) DEF PortInv
  <2>9. \A q \in Port \ {P} : PortInv(q)'
    BY <2>0, <2>1, <2>2, <2>3, <2>5, SMTT(30) DEF PortInv
  <2> QED
    BY <2>1, <2>6, <2>7, <2>8, <2>9
<1>10. CASE DeviceStalls
  BY <1>10 DEF DeviceStalls, BusInv, DevicesObey
<1>11. CASE QhRemoved
  BY <1>11, <1>u DEF QhRemoved, DevicesObey
<1>12. CASE UNCHANGED vars
  BY <1>12, <1>u DEF vars, DevicesObey
<1>13. ASSUME NEW p \in Port, StartReset(p) PROVE BusInv'
  <2>1. /\ UNCHANGED <<allocated, status_qtd, connected, high_speed, happened>> /\ status_qtd = "none"
        /\ resetting'.port = p /\ resetting'.step = "WaitingToStopReset" /\ resetting.step = "Idle"
    BY <1>13 DEF StartReset, TransferInv
  <2>2. port_reset'[p] /\ ~enabled'[p] /\ dev_addr'[p] = (IF connected[p] THEN 0 ELSE NotReset) /\ next_addr'[p] = NotReset
    BY <1>13 DEF StartReset
  <2>3. \A q \in Port \ {p} : port_reset'[q] = port_reset[q] /\ enabled'[q] = enabled[q] /\ dev_addr'[q] = dev_addr[q] /\ next_addr'[q] = next_addr[q]
    BY <1>13 DEF StartReset
  <2>4. status_qtd = "active" => resetting.addr \notin {0, NotReset}
    BY SetAddressStep
  <2> SUFFICES ASSUME DevicesObey PROVE UnderReset' /\ Apart' /\ \A q \in Port : PortInv(q)'
    BY <2>1 DEF BusInv, DevicesObey
  <2>0. UnderReset /\ Apart /\ (\A q \in Port : PortInv(q)) /\ P \in Port
    BY SMTT(30) DEF BusInv
  <2>5. UnderReset'
    BY <2>0, <2>1, <2>2, <2>3 DEF UnderReset, PortInv
  <2>6. Apart'
    BY <2>0, <2>1, <2>2, <2>3, SMTT(30) DEF Apart
  <2>7. PortInv(p)'
    BY <2>0, <2>1, <2>2, <2>4, SMTT(30) DEF PortInv
  <2>8. \A q \in Port \ {p} : PortInv(q)'
    BY <2>0, <2>1, <2>3, SMTT(30) DEF PortInv, AtWork
  <2> QED
    BY <2>5, <2>6, <2>7, <2>8
<1>14. ASSUME NEW p \in Port, EnablePort(p) PROVE BusInv'
  <2>1. UNCHANGED <<resetting, allocated, status_qtd, connected, high_speed, port_reset, devVars, happened>>
        /\ high_speed[p] /\ ~port_reset[p] /\ dev_addr[p] = 0
    BY <1>14 DEF EnablePort
  <2>2. enabled'[p] /\ \A q \in Port \ {p} : enabled'[q] = enabled[q]
    BY <1>14 DEF EnablePort
  <2> SUFFICES ASSUME DevicesObey PROVE UnderReset' /\ Apart' /\ \A q \in Port : PortInv(q)'
    BY <2>1 DEF BusInv, DevicesObey
  <2>0. UnderReset /\ Apart /\ (\A q \in Port : PortInv(q)) /\ P \in Port
    BY DEF BusInv
  <2>3. UnderReset'
    BY <2>0, <2>1, <2>2, ZenonT(30) DEF UnderReset
  <2>4. Apart'
    BY <2>0, <2>1 DEF Apart
  <2>5. \A q \in Port : PortInv(q)'
    BY <2>0, <2>1, <2>2, ZenonT(30) DEF PortInv
  <2> QED
    BY <2>3, <2>4, <2>5
<1>15. ASSUME NEW p \in Port, Plug(p) PROVE BusInv'
  <2>1. UNCHANGED <<allocated, status_qtd, enabled, port_reset, next_addr, happened, resetting>> /\ ~connected[p]
    BY <1>15 DEF Plug
  <2>2. connected'[p] /\ dev_addr'[p] = (IF port_reset[p] THEN 0 ELSE NotReset)
    BY <1>15 DEF Plug
  <2>3. \A q \in Port \ {p} : connected'[q] = connected[q] /\ high_speed'[q] = high_speed[q] /\ dev_addr'[q] = dev_addr[q]
    BY <1>15 DEF Plug
  <2>4. status_qtd = "active" => resetting.addr \notin {0, NotReset}
    BY SetAddressStep
  <2> SUFFICES ASSUME DevicesObey PROVE UnderReset' /\ Apart' /\ \A q \in Port : PortInv(q)'
    BY <2>1 DEF BusInv, DevicesObey
  <2>0. UnderReset /\ Apart /\ (\A q \in Port : PortInv(q)) /\ P \in Port
    BY DEF BusInv
  <2>5. UnderReset'
    BY <2>0, <2>1, <2>2, <2>3, SMTT(30) DEF UnderReset, PortInv
  <2>6. Apart'
    BY <2>0, <2>1, <2>2, <2>3, SMTT(30) DEF Apart
  <2>7. PortInv(p)'
    BY <2>0, <2>1, <2>2, <2>4, SMTT(30) DEF PortInv
  <2>8. \A q \in Port \ {p} : PortInv(q)'
    BY <2>0, <2>1, <2>3, SMTT(30) DEF PortInv
  <2> QED
    BY <2>5, <2>6, <2>7, <2>8
<1>16. ASSUME NEW p \in Port, Unplug(p) PROVE BusInv'
  <2>1. UNCHANGED <<allocated, status_qtd, port_reset, resetting>> /\ (DevicesObey' => DevicesObey)
    BY <1>16 DEF Unplug, DevicesObey
  <2>2. ~connected'[p] /\ ~high_speed'[p] /\ ~enabled'[p] /\ dev_addr'[p] = NotReset /\ next_addr'[p] = NotReset
    BY <1>16 DEF Unplug
  <2>3. \A q \in Port \ {p} : connected'[q] = connected[q] /\ high_speed'[q] = high_speed[q] /\ enabled'[q] = enabled[q]
                               /\ dev_addr'[q] = dev_addr[q] /\ next_addr'[q] = next_addr[q]
    BY <1>16, SMTT(30) DEF Unplug
  <2>4. status_qtd = "active" => resetting.addr \notin {0, NotReset}
    BY SetAddressStep
  <2> SUFFICES ASSUME DevicesObey PROVE UnderReset' /\ Apart' /\ \A q \in Port : PortInv(q)'
    BY <2>1 DEF BusInv, DevicesObey
  <2>0. UnderReset /\ Apart /\ (\A q \in Port : PortInv(q)) /\ P \in Port
    BY DEF BusInv
  <2>5. UnderReset'
    BY <2>0, <2>1, <2>2, <2>3, ZenonT(60) DEF UnderReset, PortInv
  <2>6. Apart'
    BY <2>0, <2>1, <2>2, <2>3, SMTT(30) DEF Apart
  <2>7. PortInv(p)'
    BY <2>0, <2>1, <2>2, <2>4 DEF PortInv
  <2>8. \A q \in Port \ {p} : PortInv(q)'
    BY <2>0, <2>1, <2>3, SMTT(30) DEF PortInv
  <2> QED
    BY <2>5, <2>6, <2>7, <2>8
<1>17. ASSUME NEW p \in Port, DeviceSwitches(p) PROVE BusInv'
  <2>1. next_addr[p] # NotReset /\ happened' = happened
    BY <1>17 DEF DeviceSwitches
  <2> QED
    BY <2>1, ZenonT(30) DEF BusInv, DevicesObey, PortInv
<1>18. ASSUME NEW p \in Port, reset_device(p) PROVE BusInv'
  BY <1>18, <1>u DEF reset_device, DevicesObey
<1>19. ASSUME NEW p \in Port, TakeResult(p) PROVE BusInv'
  BY <1>19, <1>u DEF TakeResult, DevicesObey
<1>20. ASSUME NEW p \in Port, CancelReset(p) PROVE BusInv'
  <2>1. UNCHANGED <<resetting, allocated, status_qtd, portVars, devVars>> /\ (DevicesObey' => DevicesObey)
    BY <1>20 DEF CancelReset, DevicesObey
  <2> QED
    BY <2>1, <1>u
<1> QED
  BY <1>1, <1>2, <1>3, <1>4, <1>5, <1>6, <1>7, <1>8, <1>9, <1>10, <1>11, <1>12, <1>13, <1>14, <1>15, <1>16, <1>17, <1>18, <1>19, <1>20, ZenonT(30) DEF Next, ResetLoop, Hardware, Caller

\* Every step keeps the device of an answer at its address.
LEMMA AnswerSteps ==
  ASSUME ResetTypeOK, TransferInv, BusInv, CallInv, AnswerInv, [Next]_vars
  PROVE  AnswerInv'
<1>0. res_signal \in [Port -> Result] /\ port_reset \in [Port -> BOOLEAN] /\ dev_addr \in [Port -> Addr \cup {NotReset}]
     /\ resetting \in [port : Port, call : Nat, step : Steps, addr : Addr \cup {NotReset}, timer : BOOLEAN]
  BY DEF ResetTypeOK
<1> USE <1>0, NoAddress DEF P, userVars, runnerVars, xferVars, portVars, devVars, RunnerAt, Respond, Happens
<1>u. ASSUME UNCHANGED <<res_signal, port_reset, dev_addr, happened>> PROVE AnswerInv'
  BY <1>u DEF AnswerInv, DevicesObey
<1>1. CASE ReportDisconnect
  <2>1. UNCHANGED <<port_reset, dev_addr, happened>> /\ \A q \in Port : res_signal'[q].addr \in {NotReset, res_signal[q].addr}
    BY <1>1 DEF ReportDisconnect
  <2> QED
    BY <2>1 DEF AnswerInv, DevicesObey
<1>2. CASE StopReset
  <2>1. UNCHANGED <<res_signal, dev_addr, happened>> /\ ~port_reset'[P] /\ \A q \in Port \ {P} : port_reset'[q] = port_reset[q]
    BY <1>2 DEF StopReset
  <2> QED
    BY <2>1 DEF AnswerInv, DevicesObey
<1>3. CASE SendSetAddress
  BY <1>3, <1>u DEF SendSetAddress
<1>4. CASE PanicNoAddress
  BY <1>4, <1>u DEF PanicNoAddress
<1>5. CASE ReportFullSpeed
  <2>1. UNCHANGED <<port_reset, dev_addr, happened>> /\ \A q \in Port : res_signal'[q].addr \in {NotReset, res_signal[q].addr}
    BY <1>5 DEF ReportFullSpeed
  <2> QED
    BY <2>1 DEF AnswerInv, DevicesObey
<1>6. CASE RemoveQh
  BY <1>6, <1>u DEF RemoveQh
<1>7. CASE FinishReset
  <2>1. /\ UNCHANGED <<port_reset, dev_addr, happened>> /\ resetting.step = "WaitForQhRemove"
        /\ \A q \in Port : res_signal'[q].addr = IF q = P THEN resetting.addr ELSE res_signal[q].addr
    BY <1>7, ZenonT(30) DEF FinishReset
  <2>2. DevicesObey => ~port_reset[P] /\ dev_addr[P] \in {resetting.addr, NotReset}
    BY <2>1, ZenonT(30) DEF BusInv, UnderReset
  <2> QED
    BY <2>1, <2>2 DEF AnswerInv, DevicesObey
<1>8. CASE TimerFires
  BY <1>8, <1>u DEF TimerFires
<1>9. CASE DeviceAccepts
  <2>1. status_qtd = "active" /\ UNCHANGED <<port_reset, res_signal>>
    BY <1>9, ZenonT(30) DEF DeviceAccepts
  <2>2. DevicesObey' => DevicesObey /\ dev_addr' = Taken(dev_addr) /\ happened' = happened
    BY <1>9 DEF DeviceAccepts, DevicesObey
  <2> SUFFICES ASSUME DevicesObey', "cancel" \notin happened' PROVE AnswerInv'
    BY ZenonT(30) DEF AnswerInv
  <2>3. \A q \in AtZero : q = P
    BY <2>2 DEF AtZero, BusInv, PortInv
  <2>4. \A q \in Port \ {P} : dev_addr'[q] = dev_addr[q]
    BY <2>2, <2>3 DEF Taken
  <2>5. res_signal[P].addr = NotReset
    BY <2>1, <2>2, SetAddressStep, SMTT(30) DEF CallInv, InFlight, Nothing
  <2> QED
    BY <2>1, <2>2, <2>4, <2>5 DEF AnswerInv
<1>10. CASE DeviceStalls
  BY <1>10 DEF DeviceStalls, AnswerInv, DevicesObey
<1>11. CASE QhRemoved
  BY <1>11, <1>u DEF QhRemoved
<1>12. CASE UNCHANGED vars
  BY <1>12, <1>u DEF vars
<1>13. ASSUME NEW p \in Port, StartReset(p) PROVE AnswerInv'
  <2>1. UNCHANGED <<res_signal, happened>> /\ req_signal[p] # NoCall
    BY <1>13, ZenonT(30) DEF StartReset
  <2>2. \A q \in Port \ {p} : dev_addr'[q] = dev_addr[q] /\ port_reset'[q] = port_reset[q]
    BY <1>13 DEF StartReset
  <2>3. "cancel" \notin happened => res_signal[p].addr = NotReset
    BY <2>1, SMTT(30) DEF CallInv, Nothing
  <2> QED
    BY <2>1, <2>2, <2>3 DEF AnswerInv, DevicesObey
<1>14. ASSUME NEW p \in Port, EnablePort(p) PROVE AnswerInv'
  BY <1>14, <1>u, ZenonT(30) DEF EnablePort
<1>15. ASSUME NEW p \in Port, Plug(p) PROVE AnswerInv'
  <2>1. UNCHANGED <<port_reset, res_signal, happened>>
    BY <1>15, ZenonT(30) DEF Plug
  <2>2. dev_addr'[p] = (IF port_reset[p] THEN 0 ELSE NotReset) /\ \A q \in Port \ {p} : dev_addr'[q] = dev_addr[q]
    BY <1>15 DEF Plug
  <2> QED
    BY <2>1, <2>2 DEF AnswerInv, DevicesObey
<1>16. ASSUME NEW p \in Port, Unplug(p) PROVE AnswerInv'
  <2>1. UNCHANGED <<port_reset, res_signal>> /\ happened \subseteq happened'
    BY <1>16 DEF Unplug
  <2>2. dev_addr'[p] = NotReset /\ \A q \in Port \ {p} : dev_addr'[q] = dev_addr[q]
    BY <1>16 DEF Unplug
  <2> QED
    BY <2>1, <2>2 DEF AnswerInv, DevicesObey
<1>17. ASSUME NEW p \in Port, DeviceSwitches(p) PROVE AnswerInv'
  <2>1. next_addr[p] # NotReset /\ happened' = happened
    BY <1>17, ZenonT(30) DEF DeviceSwitches
  <2> QED
    BY <2>1 DEF BusInv, AnswerInv, DevicesObey, PortInv
<1>18. ASSUME NEW p \in Port, reset_device(p) PROVE AnswerInv'
  BY <1>18, <1>u DEF reset_device
<1>19. ASSUME NEW p \in Port, TakeResult(p) PROVE AnswerInv'
  <2>1. UNCHANGED <<port_reset, dev_addr, happened>> /\ \A q \in Port : res_signal'[q].addr \in {NotReset, res_signal[q].addr}
    BY <1>19 DEF TakeResult, Nothing
  <2> QED
    BY <2>1 DEF AnswerInv, DevicesObey
<1>20. ASSUME NEW p \in Port, CancelReset(p) PROVE AnswerInv'
  BY <1>20 DEF CancelReset, AnswerInv
<1> QED
  BY <1>1, <1>2, <1>3, <1>4, <1>5, <1>6, <1>7, <1>8, <1>9, <1>10, <1>11, <1>12, <1>13, <1>14, <1>15, <1>16, <1>17, <1>18, <1>19, <1>20, ZenonT(30) DEF Next, ResetLoop, Hardware, Caller

-----------------------------------------------------------------------------
\* The inductive invariant: what holds of requests, addresses, ports and devices
\* after any number of resets, unplugs, stalls and abandoned calls.
THEOREM ResetInvariant == Spec => []ResetInv
<1>1. ResetInv /\ [Next]_vars => ResetInv'
  BY ResetTypes, TransferSteps, GivenSteps, CallSteps, BusSteps, AnswerSteps DEF ResetInv
<1> QED
  BY <1>1, ResetBegins, PTL DEF Spec

\* No two enabled devices share an address, for any number of ports: the reset
\* of a port begins only after the device before it has left address 0.
THEOREM AddressesAreUnique == Spec => []UniqueAddresses
<1>1. ResetInv => UniqueAddresses
  <2> SUFFICES ASSUME ResetInv, DevicesObey, NEW p \in Port, NEW q \in Port,
                      enabled[p], enabled[q], dev_addr[p] = dev_addr[q]
               PROVE  p = q
    BY DEF UniqueAddresses
  <2>1. Apart /\ PortInv(p) /\ PortInv(q)
    BY DEF ResetInv, BusInv
  <2> QED
    BY <2>1 DEF Apart, PortInv
<1> QED
  BY <1>1, ResetInvariant, PTL

\* The address in an answer is that of the device, until it is unplugged.
THEOREM AnswerNamesTheDevice == Spec => []DeviceHasItsAddress
<1>1. ResetInv => DeviceHasItsAddress
  BY DEF ResetInv, AnswerInv, DeviceHasItsAddress
<1> QED
  BY <1>1, ResetInvariant, PTL

\* The host controller is done with the queue head before the answer is sent.
THEOREM QhIsReturned == Spec => []QhReturnedBeforeAnswer
<1>1. ResetInv => QhReturnedBeforeAnswer
  BY SMTT(30) DEF ResetInv, TransferInv, QhReturnedBeforeAnswer, Idle
<1> QED
  BY <1>1, ResetInvariant, PTL

\* allocate_addr gives an address to one request, whatever devices and callers
\* do, for any number of ports and addresses.
THEOREM AddressesAreNotRepeated == Spec => []AddressHandedOutOnce
<1>1. ResetInv => AddressHandedOutOnce
  <2> SUFFICES ASSUME ResetInv PROVE AddressHandedOutOnce
    OBVIOUS
  <2>1. allocated \ {0} \subseteq allocated \cap (1..MaxAddr)
    BY ResetAssumption, SMTT(30) DEF ResetInv, ResetTypeOK, Addr
  <2>2. GivenInv
    BY DEF ResetInv
  <2> QED
    BY <2>1, <2>2 DEF AddressHandedOutOnce, GivenInv, Given
<1> QED
  BY <1>1, ResetInvariant, PTL

\* A call returns the answer to its own request when no call was given up.
THEOREM CallsGetTheirAnswer == Spec => AnswersOwnRequest
<1>1. ResetInv /\ [Next]_vars =>
        [\A p \in Port : got'[p] # got[p] => got'[p].call = calls[p] \/ "cancel" \in happened]_vars
  <2> SUFFICES ASSUME ResetInv, Next, NEW p \in Port, got'[p] # got[p], "cancel" \notin happened
               PROVE  got'[p].call = calls[p]
    BY DEF vars
  <2>1. PICK q \in Port : TakeResult(q)
    BY ZenonT(30) DEF Next, ResetLoop, Hardware, Caller, StartReset, ReportDisconnect, StopReset, SendSetAddress,
           PanicNoAddress, ReportFullSpeed, RemoveQh, FinishReset, TimerFires, DeviceAccepts,
           DeviceStalls, QhRemoved, EnablePort, Plug, Unplug, DeviceSwitches, reset_device,
           CancelReset, userVars
  <2>2. got \in [Port -> Result] /\ CallInv
    BY DEF ResetInv, ResetTypeOK
  <2>3. p = q /\ got'[p] = res_signal[p] /\ res_signal[p] # Nothing
    BY <2>1, <2>2 DEF TakeResult
  <2> QED
    BY <2>2, <2>3, ZenonT(30) DEF CallInv
<1> QED
  BY <1>1, ResetInvariant, PTL DEF Spec, AnswersOwnRequest
=============================================================================
