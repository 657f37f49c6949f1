---------------------------- MODULE EthernetPHY ----------------------------
(***************************************************************************)
(* The Ethernet drivers of pic32mz and the PHY, drivers/pic32mz-ethernet.c *)
(* (and the same code in pic32mz-ethernet-shared.c): the PHY is looked for *)
(* at each address of the management bus at boot, and asked for the link   *)
(* by every call of en_watchdog().  An operation on the bus may time out,  *)
(* before or after it took effect; the PHYs and the line are external.     *)
(***************************************************************************)
EXTENDS Integers, FiniteSetsExt

CONSTANTS
  LAST_ADDRESS,   \* of the bus, 31
  Strap,          \* the modes that a PHY advertises after a reset
  MAX_TIMEOUTS    \* operations that time out (a bound)

(* advertise_all, the four modes told apart as fast and slow; the modes of *)
(* the ADVRT register that are read where no PHY drives the bus, or after  *)
(* a timeout, whose -1 has every bit.                                      *)
Modes == {"10", "100"}
AllOnes == Modes

ASSUME PhyAssumption ==
  /\ LAST_ADDRESS \in Nat /\ MAX_TIMEOUTS \in Nat
  /\ Strap \subseteq Modes

VARIABLES
  phys,        \* the PHYs on the bus, by their addresses
  phy_addr,    \* e->phy_addr
  op,          \* the next operation on the bus
  timeouts,    \* operations that timed out
  line,        \* the link of the PHY that was found
  changed,     \* it changed since it was seen up
  receiving,   \* ETHCON1.RXEN: reception is enabled
  speed        \* the mode of the MAC

bus == <<phys, phy_addr, op, timeouts>>
link == <<line, changed, receiving, speed>>
phyVars == <<bus, link>>

Present == phy_addr \in DOMAIN phys
Timeout == timeouts < MAX_TIMEOUTS /\ timeouts' = timeouts + 1

-----------------------------------------------------------------------------
(* Operations on the bus.                                                  *)

(* phy_write() of the PHY's register, with its result.                     *)
Written(field, value) ==
  IF Present THEN [phys EXCEPT ![phy_addr][field] = value] ELSE phys

PhyWrite(field, value, ok) ==
  \/ ok /\ phys' = Written(field, value) /\ UNCHANGED timeouts
  \/ ~ok /\ Timeout /\ phys' \in {phys, Written(field, value)}

(* phy_read() of the ADVRT register.                                       *)
PhyReadAdvrt(modes) ==
  \/ modes = (IF Present THEN phys[phy_addr].advrt ELSE AllOnes) /\ UNCHANGED timeouts
  \/ modes = AllOnes /\ Timeout

(* phy_scan() until the reset bit is clear; it never is without a PHY.     *)
PhyScan_MutantNoWait(ok) == ok /\ UNCHANGED timeouts

PhyScan(ok) ==
  \/ ok /\ Present /\ ~phys[phy_addr].resetting /\ UNCHANGED timeouts
  \/ ~ok /\ Timeout
  \/ ~ok /\ ~Present /\ UNCHANGED timeouts

-----------------------------------------------------------------------------
(* phy_reset() of each address, until one succeeds.                        *)
Reject ==
  /\ phy_addr' = phy_addr + 1
  /\ op' = IF phy_addr = LAST_ADDRESS THEN "absent" ELSE "clear"

Proceed(to) == op' = to /\ UNCHANGED phy_addr

ClearAdvrt ==
  /\ op = "clear"
  /\ \E ok \in BOOLEAN : PhyWrite("advrt", {}, ok)
  /\ Proceed("is_clear")
  /\ UNCHANGED link

IsClear ==
  /\ op = "is_clear"
  /\ \E modes \in SUBSET Modes :
       PhyReadAdvrt(modes) /\ IF modes # {} THEN Reject ELSE Proceed("set")
  /\ UNCHANGED <<phys, link>>

SetAdvrt ==
  /\ op = "set"
  /\ \E ok \in BOOLEAN : PhyWrite("advrt", Modes, ok)
  /\ Proceed("is_set")
  /\ UNCHANGED link

IsSet ==
  /\ op = "is_set"
  /\ \E modes \in SUBSET Modes :
       PhyReadAdvrt(modes) /\ IF modes # Modes THEN Reject ELSE Proceed("reset")
  /\ UNCHANGED <<phys, link>>

SendReset ==
  /\ op = "reset"
  /\ \E ok \in BOOLEAN :
       PhyWrite("resetting", TRUE, ok) /\ IF ok THEN Proceed("scan") ELSE Reject
  /\ UNCHANGED link

WaitForReset ==
  /\ op = "scan"
  /\ \E ok \in BOOLEAN :
       PhyScan(ok) /\ IF ok THEN Proceed("advertise") ELSE Reject
  /\ UNCHANGED <<phys, link>>

Advertise ==
  /\ op = "advertise"
  /\ \E ok \in BOOLEAN : PhyWrite("advrt", Modes, ok)
  /\ Proceed("negotiate")
  /\ UNCHANGED link

Negotiate ==
  /\ op = "negotiate"
  /\ \E ok \in BOOLEAN : PhyWrite("restarted", TRUE, ok)
  /\ Proceed("idle")
  /\ UNCHANGED link

PhyReset ==
  \/ ClearAdvrt \/ IsClear \/ SetAdvrt \/ IsSet
  \/ SendReset \/ WaitForReset \/ Advertise \/ Negotiate

-----------------------------------------------------------------------------
(* en_watchdog(): is_phy_linked() reads the status of the PHY and, if the  *)
(* link is up and negotiated, its mode.                                    *)
IsLinked_MutantNegotiating == line.state # "down"

IsLinked == line.state = "up"

NoLink == receiving' = FALSE /\ UNCHANGED <<op, speed, changed>>

PollStatus ==
  /\ op = "idle"
  /\ \/ /\ IsLinked /\ op' = "special"
        /\ changed' = (changed /\ receiving)
        /\ UNCHANGED <<timeouts, receiving, speed>>
     \/ ~IsLinked /\ NoLink /\ UNCHANGED timeouts
     \/ Timeout /\ NoLink
  /\ UNCHANGED <<phys, phy_addr, line>>

(* phy_lan87x0a_poll(): 100 Mbps where the PHY does not tell, and after a  *)
(* timeout.  The MAC is set up when reception is enabled.                  *)
PollMode ==
  /\ op = "special" /\ op' = "idle"
  /\ \E mode \in Modes :
       /\ \/ mode = (IF line.state = "up" THEN line.mode ELSE "100") /\ UNCHANGED timeouts
          \/ mode = "100" /\ Timeout
       /\ speed' = IF receiving THEN speed ELSE mode
  /\ receiving' = TRUE
  /\ UNCHANGED <<phys, phy_addr, line, changed>>

-----------------------------------------------------------------------------
(* A reset ends: the registers have the values of the straps.              *)
ResetEnds ==
  /\ \E a \in DOMAIN phys :
       /\ phys[a].resetting
       /\ phys' = [phys EXCEPT ![a] = [advrt |-> Strap, resetting |-> FALSE,
                                       restarted |-> FALSE]]
  /\ UNCHANGED <<phy_addr, op, timeouts, link>>

(* The line comes and goes, and is negotiated again.                       *)
LineChanges ==
  /\ Present /\ op \in {"idle", "special"}
  /\ line' \in [state : {"down", "negotiating"}, mode : {line.mode}]
                 \cup [state : {"up"}, mode : phys[phy_addr].advrt]
  /\ line' # line /\ changed' = TRUE
  /\ UNCHANGED <<bus, receiving, speed>>

PhyInit ==
  /\ \E present \in SUBSET (0..LAST_ADDRESS) :
       phys = [a \in present |-> [advrt |-> Strap, resetting |-> FALSE,
                                  restarted |-> FALSE]]
  /\ phy_addr = 0 /\ op = "clear" /\ timeouts = 0
  /\ line = [state |-> "down", mode |-> "10"] /\ changed = FALSE
  /\ receiving = FALSE /\ speed = "10"

(* en_init() has returned: the hypervisor goes on without the driver.      *)
NotDetected == op = "absent" /\ UNCHANGED phyVars

PhyNext ==
  PhyReset \/ NotDetected \/ PollStatus \/ PollMode \/ ResetEnds \/ LineChanges

PhySpec == PhyInit /\ [][PhyNext]_phyVars

-----------------------------------------------------------------------------
Detected == op \in {"idle", "special"}

(* The driver never takes an address without a PHY for one, whatever times *)
(* out.  When nothing times out it finds the first PHY, which has finished *)
(* its reset and negotiates with all modes, and gives up only if there is  *)
(* none.                                                                   *)
PhyIsFound ==
  /\ Detected => Present
  /\ Detected /\ timeouts = 0 =>
       /\ phy_addr = Min(DOMAIN phys)
       /\ phys[phy_addr] = [advrt |-> Modes, resetting |-> FALSE, restarted |-> TRUE]
  /\ op = "absent" => DOMAIN phys = {} \/ timeouts > 0

(* Frames are received in the mode that was negotiated, as long as the     *)
(* line did not change after it was seen up: a change between two polls,   *)
(* or between the two reads of one, goes unnoticed.                        *)
LinkIsNegotiated ==
  /\ PhyIsFound
  /\ op = "idle" /\ receiving /\ ~changed /\ timeouts = 0 =>
       line.state = "up" /\ speed = line.mode
=============================================================================
