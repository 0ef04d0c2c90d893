-------------------------------- MODULE Device --------------------------------
(***************************************************************************)
(* The firmware from power-on to power-off around its MIDI work: main.c    *)
(* and the two configurations, the Wi-Fi association (emul_start,          *)
(* network.c), and in the main loop the menu commands that change and save *)
(* the settings and the one that goes to the booster.  Power may be cut at *)
(* any moment, between two pages of a save too; flash is all that remains. *)
(*                                                                         *)
(* External, as network.c uses them: the CYW43 driver, which reports the   *)
(* link, and lwIP, which reports an address that changes; both call back   *)
(* from within cyw43_arch_poll.  SELECT resets nothing in this firmware:   *)
(* no one calls select_checkPushReset.                                     *)
(***************************************************************************)
EXTENDS SettingsFlash

CONSTANTS MaxAttempts, \* maxAttempts in emul_start
          Mode,        \* the index of ACONFIG_PARAM_MODE
          Edited,      \* the entries the menu edits: host, port, ..., room
          MaxEdits,    \* bound: menu commands that save
          MaxBoots     \* bound: times the device starts

ASSUME DeviceAssumption ==
  /\ MaxAttempts \in Nat \ {0} /\ MaxEdits \in Nat /\ MaxBoots \in Nat \ {0}
  /\ Edited \subseteq Entries \ {0} /\ Mode \in Entries \ Edited

VARIABLES
  owner, known, \* gconfig: whose BOOT_FEATURE, or "none"; the app has a sector
  mode, dhcp,   \* gconfig: WIFI_MODE; WIFI_DHCP
  flash,        \* the app's settings sector, page by page
  place,        \* where the firmware is
  config,       \* the app's settings in RAM
  page, ret,    \* settings_save: the next page to program, where it returns to
  attempt,      \* emul_start: attempt
  seen, late,   \* network_wifiStaConnect: status; wifiConnConnTimeout is over
  status, ip,   \* connectionStatus; currentIp is not 0.0.0.0
  reapply,      \* staReapplyPm
  asked, link,  \* CYW43: a join has been asked for; the link is up
  saving,       \* CYW43: its power-save mode is on
  addr,         \* lwIP: the interface has an address
  buffer, done, \* what the last save that erased has to program; it is done
  edits, boots

gconfVars == <<owner, known, mode, dhcp>>
saveVars  == <<page, ret, buffer, done>>
waitVars  == <<attempt, seen, late>>
chipVars  == <<reapply, asked, link, saving, addr>>
wifiVars  == <<waitVars, status, ip, chipVars>>
vars == <<gconfVars, flash, place, config, saveVars, wifiVars, edits, boots>>

WifiOff ==
  /\ attempt' = 0 /\ seen' = "down" /\ late' = FALSE
  /\ status' = "down" /\ ip' = FALSE
  /\ reapply' = FALSE /\ asked' = FALSE /\ link' = FALSE /\ saving' = TRUE
  /\ addr' = FALSE

(* A new device, or one that was switched off after a complete save. *)
Init ==
  /\ owner \in {"this", "other", "none"} /\ known \in BOOLEAN
  /\ mode \in {"sta", "ap"} /\ dhcp \in BOOLEAN
  /\ flash \in {Erased, [p \in Pages |-> Default]}
  /\ place = "gconfig" /\ config = Default
  /\ page = 0 /\ ret = "gconfig" /\ buffer = Default /\ done = (flash # Erased)
  /\ attempt = 0 /\ seen = "down" /\ late = FALSE
  /\ status = "down" /\ ip = FALSE
  /\ reapply = FALSE /\ asked = FALSE /\ link = FALSE /\ saving = TRUE
  /\ addr = FALSE
  /\ edits = 0 /\ boots = 1

-----------------------------------------------------------------------------
(* settings_save: with no memory for the padded buffer it returns before   *)
(* it touches the flash, and only main looks at what it returns.           *)
Save(to) ==
  \/ /\ place' = "erase" /\ ret' = to
     /\ UNCHANGED <<page, buffer, done, flash>>
  \/ /\ place' = IF place = "aconfig" THEN "booster" ELSE to
     /\ UNCHANGED <<saveVars, flash>>

Erase ==
  /\ place = "erase" /\ place' = "program"
  /\ flash' = Erased /\ page' = 0
  /\ buffer' = config /\ done' = FALSE
  /\ UNCHANGED <<gconfVars, config, ret, wifiVars, edits, boots>>

Program ==
  /\ place = "program"
  /\ flash' = [flash EXCEPT ![page] = buffer]
  /\ IF page + 1 \in Pages
       THEN page' = page + 1 /\ UNCHANGED <<place, done>>
       ELSE place' = ret /\ done' = TRUE /\ UNCHANGED page
  /\ UNCHANGED <<gconfVars, config, ret, buffer, wifiVars, edits, boots>>

-----------------------------------------------------------------------------
(* main. *)

(* gconfig_init: GCONFIG_INIT_ERROR and GCONFIG_MISMATCHED_APP both go to  *)
(* the booster.                                                            *)
GconfigInit ==
  /\ place = "gconfig"
  /\ place' = IF owner = "this" THEN "aconfig" ELSE "booster"
  /\ UNCHANGED <<gconfVars, flash, config, saveVars, wifiVars, edits, boots>>

(* aconfig_init, and what main does about its result. *)
AconfigInit ==
  /\ place = "aconfig"
  /\ config' = IF known THEN Loaded(flash) ELSE config
  /\ IF known /\ ~HasMagic(flash)
       THEN Save("net")
       ELSE /\ place' = IF known THEN "net" ELSE "booster"
            /\ UNCHANGED <<saveVars, flash>>
  /\ UNCHANGED <<gconfVars, wifiVars, edits, boots>>

-----------------------------------------------------------------------------
(* emul_start: the Wi-Fi.                                                  *)

(* network_wifiInit, which fails if the chip does. *)
WifiInit ==
  /\ place = "net"
  /\ \/ /\ mode = "ap" /\ place' = "loop" /\ UNCHANGED saving
     \/ /\ mode = "sta" /\ place' = "loop" /\ UNCHANGED saving
     \/ /\ mode = "sta" /\ place' = "connect" /\ saving' = FALSE
  /\ UNCHANGED <<gconfVars, flash, config, saveVars, waitVars, status, ip,
                 reapply, asked, link, addr, edits, boots>>

(* network_wifiStaConnect up to its wait.  Taking the STA interface down   *)
(* and up drops the link and the address; a static address is announced by *)
(* lwIP as soon as it is set, long before the join.  No MAC, no SSID, no   *)
(* authentication mode or a refused join end it.                           *)
ConnectUncounted ==
  /\ place = "connect"
  /\ UNCHANGED attempt
  /\ link' = FALSE
  /\ addr' = ~dhcp /\ ip' = ~dhcp
  /\ status' = IF dhcp THEN "down" ELSE "ip"
  /\ late' = FALSE /\ seen' = "down"
  /\ \/ place' = "wait" /\ asked' = TRUE
     \/ place' = "loop" /\ asked' = FALSE
  /\ UNCHANGED <<gconfVars, flash, config, saveVars, reapply, saving, edits, boots>>

Connect ==
  /\ place = "connect"
  /\ attempt' = attempt + 1
  /\ link' = FALSE
  /\ addr' = ~dhcp /\ ip' = ~dhcp
  /\ status' = IF dhcp THEN "down" ELSE "ip"
  /\ late' = FALSE /\ seen' = "down"
  /\ \/ place' = "wait" /\ asked' = TRUE
     \/ place' = "loop" /\ asked' = FALSE
  /\ UNCHANGED <<gconfVars, flash, config, saveVars, reapply, saving, edits, boots>>

(* The loop in emul_start tries again after a timeout only. *)
TimedOut == place' = IF attempt < MaxAttempts THEN "connect" ELSE "loop"

(* network_wifiConnStatus: what the driver says once a second, else what   *)
(* was last noted.                                                         *)
LinkStatus == IF link THEN IF addr THEN "ip" ELSE "noip" ELSE "down"

CheckStatus ==
  /\ place = "wait" /\ ~late
  /\ status' \in {status, LinkStatus}
  /\ seen' = status' /\ place' = "wait_poll"
  /\ UNCHANGED <<gconfVars, flash, config, saveVars, attempt, late, ip, chipVars,
                 edits, boots>>

WaitOver ==
  /\ place = "wait" /\ late
  /\ TimedOut
  /\ UNCHANGED <<gconfVars, flash, config, saveVars, wifiVars, edits, boots>>

(* network_safePoll, once cyw43_arch_poll has returned. *)
ApplyPm ==
  /\ saving' = (saving /\ ~reapply)
  /\ reapply' = FALSE

(* ... in the wait.  A link that is up when the time is over is reported   *)
(* as a timeout, and taken down again by the next attempt.                 *)
WaitPolled ==
  /\ place = "wait_poll"
  /\ ApplyPm
  /\ IF seen # "ip" THEN place' = "wait"
     ELSE IF late THEN TimedOut ELSE place' = "loop"
  /\ UNCHANGED <<gconfVars, flash, config, saveVars, waitVars, status, ip,
                 asked, link, addr, edits, boots>>

DeadlinePasses ==
  /\ place \in {"wait", "wait_poll"} /\ ~late
  /\ late' = TRUE
  /\ UNCHANGED <<gconfVars, flash, place, config, saveVars, attempt, seen,
                 status, ip, chipVars, edits, boots>>

-----------------------------------------------------------------------------
(* The callbacks that cyw43_arch_poll makes, in the wait and in the main   *)
(* loop.                                                                   *)
Polling == place \in {"wait_poll", "loop_poll"}

(* wifiLinkCallback, link up: a fresh association has power saving on.  An *)
(* ioctl from here would do nothing, so it is left to network_safePoll.    *)
LinkUpAppliesPm ==
  /\ Polling /\ asked /\ ~link
  /\ link' = TRUE /\ saving' = TRUE
  /\ UNCHANGED <<gconfVars, flash, place, config, saveVars, waitVars, status, ip,
                 reapply, asked, addr, edits, boots>>

LinkUp ==
  /\ Polling /\ asked /\ ~link
  /\ link' = TRUE /\ saving' = TRUE /\ reapply' = TRUE
  /\ UNCHANGED <<gconfVars, flash, place, config, saveVars, waitVars, status, ip,
                 asked, addr, edits, boots>>

(* wifiLinkCallback, link down: network_resetConnectionState.  lwIP keeps  *)
(* the address.                                                            *)
LinkDownKeepsIp ==
  /\ Polling /\ link
  /\ link' = FALSE
  /\ UNCHANGED <<gconfVars, flash, place, config, saveVars, waitVars, status, ip,
                 reapply, asked, saving, addr, edits, boots>>

LinkDown ==
  /\ Polling /\ link
  /\ link' = FALSE /\ ip' = FALSE /\ status' = "down"
  /\ UNCHANGED <<gconfVars, flash, place, config, saveVars, waitVars,
                 reapply, asked, saving, addr, edits, boots>>

(* networkStatusCallback: the lease is for another address than the one    *)
(* the interface had.  (The same address again changes nothing, so there   *)
(* is no call: after a link that came back currentIp may stay 0.)          *)
Leased ==
  /\ Polling /\ dhcp /\ link
  /\ addr' = TRUE /\ ip' = TRUE /\ status' = "ip"
  /\ UNCHANGED <<gconfVars, flash, place, config, saveVars, waitVars,
                 reapply, asked, link, saving, edits, boots>>

(* ... the lease is lost: the address is 0.0.0.0, the interface still up.  *)
LeaseLost ==
  /\ Polling /\ dhcp /\ addr
  /\ addr' = FALSE /\ ip' = FALSE /\ status' = "ip"
  /\ UNCHANGED <<gconfVars, flash, place, config, saveVars, waitVars,
                 reapply, asked, link, saving, edits, boots>>

-----------------------------------------------------------------------------
(* The main loop. *)

LoopPoll ==
  /\ place = "loop" /\ place' = "loop_poll"
  /\ UNCHANGED <<gconfVars, flash, config, saveVars, wifiVars, edits, boots>>

LoopPolled ==
  /\ place = "loop_poll" /\ place' = "loop"
  /\ ApplyPm
  /\ UNCHANGED <<gconfVars, flash, config, saveVars, waitVars, status, ip,
                 asked, link, addr, edits, boots>>

(* cmdHost, cmdPort, cmdTransport, cmdRoom.  midi_net_reload, which comes  *)
(* last, is in MidiNet.                                                    *)
Edit(i) ==
  /\ place = "loop" /\ edits < MaxEdits
  /\ edits' = edits + 1
  /\ config' = [config EXCEPT ![i] = edits + 1]
  /\ Save("loop")
  /\ UNCHANGED <<gconfVars, wifiVars, boots>>

(* cmdBooster, and the end of emul_start. *)
ToBooster ==
  /\ place = "loop"
  /\ config' = [config EXCEPT ![Mode] = 0]
  /\ Save("booster")
  /\ UNCHANGED <<gconfVars, wifiVars, edits, boots>>

-----------------------------------------------------------------------------
(* Power, and the booster.                                                 *)

Restart ==
  /\ boots < MaxBoots /\ boots' = boots + 1
  /\ place' = "gconfig" /\ config' = Default
  /\ WifiOff
  /\ UNCHANGED <<flash, saveVars, edits>>

PowerCut == Restart /\ UNCHANGED gconfVars

(* The booster makes the app the one to start, with a sector of its own. *)
BoosterLaunches ==
  /\ place = "booster"
  /\ owner' = "this" /\ known' = TRUE
  /\ UNCHANGED <<mode, dhcp>>
  /\ Restart

-----------------------------------------------------------------------------
Boot == \/ GconfigInit \/ AconfigInit \/ Erase \/ Program
        \/ WifiInit \/ Connect \/ CheckStatus \/ WaitOver \/ WaitPolled

Callback == LinkUp \/ LinkDown \/ Leased \/ LeaseLost

MainLoop == \/ LoopPoll \/ LoopPolled \/ ToBooster
            \/ \E i \in Edited : Edit(i)

Next == \/ Boot \/ DeadlinePasses \/ Callback \/ MainLoop
        \/ PowerCut \/ BoosterLaunches

Spec == Init /\ [][Next]_vars

(* The processor runs on, and thirty seconds pass. *)
FairSpec == Spec /\ WF_vars(Boot) /\ WF_vars(DeadlinePasses)

-----------------------------------------------------------------------------
(* Properties.                                                             *)

(* What the app starts with is its last complete save; after a power cut   *)
(* within a save, the first entries of that save and the defaults behind   *)
(* them: never a mixture of two saves, never an entry torn in two.         *)
LoadsLastSave ==
  place = "net" =>
    /\ done => config = buffer
    /\ \E n \in 0..NEntries :
         config = [i \in Entries |-> IF i < n THEN buffer[i] ELSE 0]

(* Every variable has its type. *)
TypeOK ==
  /\ owner \in {"this", "other", "none"} /\ mode \in {"sta", "ap"}
  /\ {known, dhcp, done, late, ip, reapply, asked, link, saving, addr} \subseteq BOOLEAN
  /\ place \in {"gconfig", "aconfig", "erase", "program", "net", "connect", "wait",
                 "wait_poll", "loop", "loop_poll", "booster"}
  /\ \A p \in Pages : flash[p] = Blank \/ flash[p] \in [Entries -> 0..MaxEdits]
  /\ {config, buffer} \subseteq [Entries -> 0..MaxEdits]
  /\ page \in Pages /\ ret \in {"gconfig", "net", "loop", "booster"}
  /\ attempt \in 0..MaxAttempts /\ {seen, status} \subseteq {"down", "noip", "ip"}
  /\ edits \in 0..MaxEdits /\ boots \in 1..MaxBoots

(* The invariant of the device: both of these. *)
DeviceInv == TypeOK /\ LoadsLastSave

(* D-15: "Wi-Fi power-save must be disabled and (re)applied after          *)
(* association": whenever the firmware is not within a poll, an associated *)
(* chip has it off.                                                        *)
PowerSaveOff == (link /\ ~Polling) => ~saving

(* network_getCurrentIp, on which midi_net_poll decides to connect, is not *)
(* the address of a link that is gone ("so callers don't keep serving      *)
(* stale values after a link drop").  A static address is announced before *)
(* there is a link.                                                        *)
IpMeansLink == (dhcp /\ ip) => (link /\ addr)

(* Whatever the network does, the device gets to its main loop or to the   *)
(* booster: three attempts that all time out are the worst case.           *)
BootEnds == place = "gconfig" ~> place \in {"loop", "booster"}
=============================================================================
