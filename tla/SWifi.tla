-------------------------------- MODULE SWifi -------------------------------
(***************************************************************************)
(* The Wi-Fi side of stage 2: the search for controllers on the PCI bus    *)
(* (wifi_autodetect.c), the registry and the interface state of            *)
(* wifi_core.c, and the seven drivers.  A driver is described by what its  *)
(* functions do: which registers an operation writes and in which order,   *)
(* and which of its own fields it keeps.  A request is the frame or the    *)
(* command that the operation builds; its bytes are left out.              *)
(***************************************************************************)
EXTENDS Integers, Sequences, FiniteSets, SequencesExt, FiniteSetsExt

CONSTANTS
  WFMachines,      \* machines: per bus slot the functions of its device
  WFDrivers,       \* drivers that register themselves
  WL_MAX_DETECTED, \* entries of the table of controllers
  WL_MAX_DRIVERS,  \* entries of the registry
  WL_MAX_SCAN,     \* scan results the interface keeps
  WFBssids, WFChannels,
  WFRssi           \* values of the signal register, signed bytes

VARIABLES
  wf_machine,  \* the machine
  wf_found,    \* wifi_autodetect.devices
  wf_active,   \* wifi_autodetect.active_index, from 1
  wf_drivers,  \* wifi_drivers: names of the registered drivers
  wf_iface,    \* wifi_iface
  wf_drv,      \* the drivers' static structures
  wf_dev,      \* device behind each base address; 0 is low memory
  wf_ready     \* wifi_autodetect_init returned 0
wfVars == <<wf_machine, wf_found, wf_active, wf_drivers, wf_iface, wf_drv, wf_dev, wf_ready>>

----------------------------------------------------------------------------
(* The drivers.  "request" fills the buffer or the arguments of a command,  *)
(* "go" starts it.  rebar: the driver takes over the base address of every  *)
(* call.  keeps: fields that an association sets.                           *)

\* The scan request has length 0, so none of it is written.
iwl_start == [vendor |-> \h8086, device |-> \h2526, scan |-> <<"go">>, clamped |-> TRUE]
ath_start == [vendor |-> \h168C, device |-> \h0030, scan |-> <<"request", "go">>, clamped |-> FALSE]
brcm_start == [vendor |-> \h14E4, device |-> \h4349, scan |-> <<"request", "go">>, clamped |-> FALSE]
rtl_start == [vendor |-> \h10EC, device |-> \h8176, scan |-> <<"request", "go">>, clamped |-> FALSE]
mt_start == [vendor |-> \h1814, device |-> \h3090, scan |-> <<"request", "go">>, clamped |-> FALSE]
prism_start == [vendor |-> \h1260, device |-> \h3890, scan |-> <<"request", "go">>, clamped |-> FALSE]
\* The command register comes before the arguments.
mrv_start == [vendor |-> \h11AB, device |-> \h2A03, scan |-> <<"go", "request">>, clamped |-> FALSE]

WriteThenGo == [mgmt |-> <<"request", "go">>, send |-> <<"request", "go">>, rebar |-> FALSE, keeps |-> {}, clears |-> FALSE]
iwl_driver == [WriteThenGo EXCEPT !.rebar = TRUE, !.keeps = {"bssid", "associated"}, !.clears = TRUE]
ath_driver == [WriteThenGo EXCEPT !.keeps = {"bssid"}]
brcm_driver == WriteThenGo
rtl_driver == WriteThenGo
mt_driver == WriteThenGo
prism_driver == WriteThenGo
mrv_driver == [WriteThenGo EXCEPT !.mgmt = <<"go", "request">>]

WFOps == [iwl |-> iwl_driver, ath |-> ath_driver, brcm |-> brcm_driver, rtl |-> rtl_driver,
          mt |-> mt_driver, prism |-> prism_driver, mrv |-> mrv_driver]
WFIds == [iwl |-> iwl_start, ath |-> ath_start, brcm |-> brcm_start, rtl |-> rtl_start,
          mt |-> mt_start, prism |-> prism_start, mrv |-> mrv_start]

----------------------------------------------------------------------------
(* wifi_autodetect.c: functions 1 to 7 of a multi-function device are       *)
(* entered whatever they are, function 0 when it is wireless or known.      *)

WFKnown == <<
  << {\h8086}, {\h08B1, \h095A, \h095B, \h24F3, \h24FD, \h2526, \hA370, \h2723, \h2725, \h272B, \h272C} >>,
  << {\h168C}, {\h002B, \h002E, \h0030, \h0032, \h0034, \h0036, \h0037, \h003C, \h0046, \h003E, \h0050} >>,
  << {\h14E4}, {\h4727, \h4357, \h4349, \h4331, \h43A3, \h43B1, \h43DF, \h4360, \h43E2, \h4405} >>,
  << {\h10EC}, {\h8176, \h8177, \h8723, \h8812, \h8813, \h8821, \hB822, \h8179, \h818B} >>,
  << {\h1814, \h14C3}, {\h0201, \h0301, \h0401, \h0601, \h3090, \h3290, \h539F, \h5592, \h7601, \h7603, \h7610,
                        \h7612, \h7615, \h7620, \h7622, \h7663, \h7961} >>,
  << {\h1260}, {\h3877, \h3880, \h3886, \h3887, \h3890} >>,
  << {\h11AB}, {\h2A01, \h2A02, \h2A03, \h2A04, \h2B38, \h2B39} >> >>
wifi_match_driver(vendor, device) ==
  \E k \in DOMAIN WFKnown : vendor \in WFKnown[k][1] /\ device \in WFKnown[k][2]

\* The controllers in a machine.  Firmware gives every one its own base address, so
\* that two that drivers are for share one only if they are the same.
Fitted(machine) == UNION {Range(machine[s]) : s \in DOMAIN machine}
ASSUME WifiAssumption ==
  /\ WL_MAX_DETECTED \in Nat /\ WFDrivers \subseteq DOMAIN WFOps
  /\ \A m \in WFMachines :
       /\ m \in Seq(Seq([vendor : Nat, device : Nat, wireless : BOOLEAN, bar : Nat]))
       /\ \A f, g \in Fitted(m) :
            wifi_match_driver(f.vendor, f.device) /\ wifi_match_driver(g.vendor, g.device) /\ f.bar = g.bar
            => f.vendor = g.vendor /\ f.device = g.device

Entry(f) == [vendor |-> f.vendor, device |-> f.device, bar |-> f.bar, matched |-> wifi_match_driver(f.vendor, f.device)]
SlotEntries(fs) ==
  IF fs = <<>> \/ ~(fs[1].wireless \/ wifi_match_driver(fs[1].vendor, fs[1].device)) THEN <<>>
  ELSE [i \in DOMAIN fs |-> Entry(fs[i])]

wifi_autodetect_scan(machine) ==
  LET upto[k \in 0 .. Len(machine)] == IF k = 0 THEN <<>> ELSE upto[k - 1] \o SlotEntries(machine[k])
      all == upto[Len(machine)]
      devices == SubSeq(all, 1, Min({Len(all), WL_MAX_DETECTED}))
      matched == {i \in DOMAIN devices : devices[i].matched}
  IN [devices |-> devices, active |-> IF matched = {} THEN 1 ELSE Min(matched)]

\* What the search finds does not depend on earlier ones: the table is cleared.
Detected == [m \in WFMachines |-> wifi_autodetect_scan(m)]

\* The first registered driver for exactly these numbers; "none" if there is none.
wifi_select_driver(vendor, device) ==
  LET hits == {i \in DOMAIN wf_drivers : WFIds[wf_drivers[i]].vendor = vendor /\ WFIds[wf_drivers[i]].device = device}
  IN IF hits = {} THEN "none" ELSE wf_drivers[Min(hits)]

Started(driver, bar) == [wf_drv EXCEPT ![driver] = [@ EXCEPT !.bar = bar, !.associated = FALSE]]

\* Every entry is tried in turn; no driver's init fails, so the first entry with
\* a driver is taken.  Without one the interface keeps what it had.
Searched(r) == wf_found' = r.devices /\ UNCHANGED <<wf_machine, wf_drivers, wf_dev>>
NoneFound(r) == wf_active' = r.active /\ wf_ready' = FALSE /\ UNCHANGED <<wf_iface, wf_drv>>
Selected(i, device, driver) ==
  /\ wf_active' = i /\ wf_ready' = TRUE
  /\ wf_iface' = [wf_iface EXCEPT !.driver = driver]
  /\ wf_drv' = Started(driver, device.bar)
DriverFor(device) == wifi_select_driver(device.vendor, device.device)
\* The entries that have a driver.
Usable(r) == {i \in DOMAIN r.devices : r.devices[i].matched /\ DriverFor(r.devices[i]) # "none"}

\* Mutant: an entry without a driver is taken with the one of an earlier search.
wifi_autodetect_init_stale ==
  wf_machine # <<>> /\ \E r \in {Detected[wf_machine]} :
    LET usable == {i \in DOMAIN r.devices : r.devices[i].matched /\ (wf_iface.driver # "none" \/ DriverFor(r.devices[i]) # "none")}
        Driver0(chosen) == IF chosen # "none" THEN chosen ELSE wf_iface.driver
    IN /\ Searched(r)
       /\ \/ usable = {} /\ NoneFound(r)
          \/ usable # {} /\ \E i \in {Min(usable)} : Selected(i, r.devices[i], Driver0(DriverFor(r.devices[i])))

wifi_autodetect_init ==
  wf_machine # <<>> /\ \E r \in {Detected[wf_machine]} :
    /\ Searched(r)
    /\ \/ Usable(r) = {} /\ NoneFound(r)
       \/ Usable(r) # {} /\ \E i \in {Min(Usable(r))} : Selected(i, r.devices[i], DriverFor(r.devices[i]))

----------------------------------------------------------------------------
(* wifi_core.c.  The core passes wifi_iface.bar0, which nothing sets.       *)

wifi_register_driver(name) ==
  /\ Len(wf_drivers) < WL_MAX_DRIVERS
  /\ wf_drivers' = Append(wf_drivers, name)
  /\ UNCHANGED <<wf_machine, wf_found, wf_active, wf_iface, wf_drv, wf_dev, wf_ready>>

wifi_init ==
  /\ wf_drivers' = <<>>
  /\ wf_iface' = [driver |-> "none", state |-> "disconnected", channel |-> 0, scan |-> <<>>, bssid |-> "none"]
  /\ wf_ready' = FALSE
  /\ UNCHANGED <<wf_machine, wf_found, wf_active, wf_drv, wf_dev>>

Op == WFOps[wf_iface.driver]
Own == wf_drv[wf_iface.driver]
\* The driver's base address in a call of the core, and the call's registers.
Bar == IF Op.rebar THEN 0 ELSE Own.bar
Program(writes, request) ==
  wf_dev' = [wf_dev EXCEPT ![Bar] = [buf |-> IF Len(writes) = 2 THEN request ELSE @.buf,
                                     air |-> IF Head(writes) = "request" THEN request ELSE @.buf]]
Driver(own) == wf_drv' = [wf_drv EXCEPT ![wf_iface.driver] = [own EXCEPT !.bar = Bar]]

wifi_scan_start(channel) ==
  /\ wf_iface.driver # "none"
  /\ wf_iface' = [wf_iface EXCEPT !.state = "scanning", !.channel = channel, !.scan = <<>>]
  /\ Program(WFIds[wf_iface.driver].scan, "scan") /\ Driver([Own EXCEPT !.channel = channel])
  /\ UNCHANGED <<wf_machine, wf_found, wf_active, wf_drivers, wf_ready>>

\* A byte: the sum of a signed byte and 100, cut at 100.  Intel's driver cuts
\* after the conversion, the others before it, where a sum below 0 passes.
Percent(rssi) == IF WFIds[wf_iface.driver].clamped THEN Min({100, (rssi + 100) % 256})
                 ELSE IF rssi + 100 > 100 THEN 100 ELSE (rssi + 100) % 256
wifi_scan_get(bssid, rssi) ==
  /\ wf_iface.driver # "none" /\ Len(wf_iface.scan) < WL_MAX_SCAN
  /\ wf_iface' = [wf_iface EXCEPT !.scan = Append(@, [bssid |-> bssid, channel |-> Own.channel, percent |-> Percent(rssi)])]
  /\ Driver(Own)
  /\ UNCHANGED <<wf_machine, wf_found, wf_active, wf_drivers, wf_dev, wf_ready>>

wifi_auth(bssid) ==
  /\ wf_iface.driver # "none"
  /\ wf_iface' = [wf_iface EXCEPT !.state = "authenticating", !.bssid = bssid]
  /\ Program(Op.mgmt, "auth") /\ Driver(Own)
  /\ UNCHANGED <<wf_machine, wf_found, wf_active, wf_drivers, wf_ready>>

wifi_assoc(bssid, channel) ==
  /\ wf_iface.driver # "none"
  /\ wf_iface' = [wf_iface EXCEPT !.state = "connected", !.channel = channel]
  /\ Program(Op.mgmt, "assoc")
  /\ Driver([Own EXCEPT !.bssid = IF "bssid" \in Op.keeps THEN bssid ELSE @, !.associated = @ \/ "associated" \in Op.keeps])
  /\ UNCHANGED <<wf_machine, wf_found, wf_active, wf_drivers, wf_ready>>

\* No driver tells the access point.
wifi_deauth ==
  /\ wf_iface.driver # "none"
  /\ wf_iface' = [wf_iface EXCEPT !.state = "disconnected", !.bssid = "none"]
  /\ wf_drv' = [wf_drv EXCEPT ![wf_iface.driver].associated = @ /\ ~Op.clears]
  /\ UNCHANGED <<wf_machine, wf_found, wf_active, wf_drivers, wf_dev, wf_ready>>

wifi_send ==
  /\ wf_iface.driver # "none"
  /\ Program(Op.send, "data") /\ Driver(Own)
  /\ UNCHANGED <<wf_machine, wf_found, wf_active, wf_drivers, wf_iface, wf_ready>>

\* Receiving, and asking for a scan result that is not there, only read.
wifi_recv ==
  /\ wf_iface.driver # "none"
  /\ Driver(Own)
  /\ UNCHANGED <<wf_machine, wf_found, wf_active, wf_drivers, wf_iface, wf_dev, wf_ready>>

\* The driver's own functions do not look at the channel of an association.
wifi_set_channel(channel) ==
  /\ wf_iface' = [wf_iface EXCEPT !.channel = channel]
  /\ IF wf_iface.driver = "none" THEN UNCHANGED wf_drv
     ELSE wf_drv' = [wf_drv EXCEPT ![wf_iface.driver].channel = channel]
  /\ UNCHANGED <<wf_machine, wf_found, wf_active, wf_drivers, wf_dev, wf_ready>>

PowerOn(machine) ==
  /\ wf_machine = <<>> /\ wf_machine' = machine
  /\ UNCHANGED <<wf_found, wf_active, wf_drivers, wf_iface, wf_drv, wf_dev, wf_ready>>

----------------------------------------------------------------------------
WFBars == {f.bar : f \in UNION {Fitted(m) : m \in WFMachines}}
WFInit ==
  /\ wf_machine = <<>> /\ wf_found = <<>> /\ wf_active = 1 /\ wf_drivers = <<>> /\ wf_ready = FALSE
  /\ wf_iface = [driver |-> "none", state |-> "disconnected", channel |-> 0, scan |-> <<>>, bssid |-> "none"]
  /\ wf_drv = [d \in DOMAIN WFOps |-> [bar |-> 0, channel |-> 0, associated |-> FALSE, bssid |-> "none"]]
  /\ wf_dev = [b \in WFBars \cup {0} |-> [buf |-> "none", air |-> "none"]]

WFNext ==
  \/ \E m \in WFMachines : PowerOn(m)
  \/ \E d \in WFDrivers : wifi_register_driver(d)
  \/ wifi_init \/ wifi_autodetect_init
  \/ \E c \in WFChannels : wifi_scan_start(c) \/ wifi_set_channel(c)
  \/ \E b \in WFBssids, r \in WFRssi : wifi_scan_get(b, r)
  \/ \E b \in WFBssids, c \in WFChannels : wifi_auth(b) \/ wifi_assoc(b, c)
  \/ wifi_deauth \/ wifi_send \/ wifi_recv

WFSpec == WFInit /\ [][WFNext]_wfVars

----------------------------------------------------------------------------
\* Once the search has succeeded, the interface's driver is one for exactly the
\* controller that the table calls active, however often the search ran before
\* and whatever was registered then, and it still talks to that controller:
\* Intel's does until its first call, when it takes over the address of the
\* interface, which is 0.  Frames of the other drivers are on the air as soon as
\* they were asked for, except Marvell's commands.
DriverServesDevice ==
  wf_ready =>
    LET d == wf_found[wf_active]
    IN /\ WFIds[wf_iface.driver].vendor = d.vendor /\ WFIds[wf_iface.driver].device = d.device
       /\ ~Op.rebar => Own.bar = d.bar
       /\ wf_iface.driver \notin {"iwl", "mrv"} => wf_dev[d.bar].air = wf_dev[d.bar].buf
=============================================================================
