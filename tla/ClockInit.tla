------------------------------ MODULE ClockInit ------------------------------
(***************************************************************************)
(* SystemInit of the LPC1768: crystal, PLL0 and flash timing, with a       *)
(* timeout on every wait.  The program runs in one go, before main and     *)
(* with no interrupts; the crystal, the lock detector and the PLL switch   *)
(* act at any time, or never.                                              *)
(***************************************************************************)
EXTENDS Integers

CONSTANTS
  WaitLimit,     \* iterations of each wait loop: 1000000
  IrcMHz,        \* internal RC oscillator: 4
  XtalMHz,       \* crystal: 12
  FccoMHz,       \* PLL0 output for M = 12, N = 1: 288
  FastMHz,       \* fastest CCLK for FLASHTIM = 4: 100
  SlowMHz        \* fastest CCLK for the reset value of FLASHTIM: 80

ASSUME ClockAssumption ==
  /\ WaitLimit \in Nat \ {0}
  /\ {IrcMHz, XtalMHz, FccoMHz, FastMHz, SlowMHz} \subseteq Nat
  /\ XtalMHz <= SlowMHz /\ IrcMHz <= SlowMHz /\ FccoMHz \div 3 <= FastMHz
  /\ SlowMHz <= FastMHz        \* more wait states do not ask for a slower clock

VARIABLES
  pc,         \* next statement of SystemInit; "main" once it has returned
  i,          \* counter of the wait loop
  tier,       \* g_clock_tier
  \* registers
  oscen, oscstat, clksrcsel, pll0con, plock, plle, pllc, cclkcfg, flashtim

regs == <<oscen, clksrcsel, pll0con, cclkcfg, flashtim>>
stat == <<oscstat, plock, plle, pllc>>
vars == <<pc, i, tier, regs, stat>>

Pcs == {"oscen", "waitosc", "select", "config", "enable", "waitlock",
        "divide", "flash", "connect", "waitconnect", "main"}

Source  == IF clksrcsel = 1 THEN XtalMHz ELSE IrcMHz
CclkMHz == (IF plle /\ pllc THEN FccoMHz ELSE Source) \div (cclkcfg + 1)

-----------------------------------------------------------------------------
(* SystemInit                                                              *)

Step(from, to) == pc = from /\ pc' = to /\ i' = 0
Return(t)      == pc' = "main" /\ i' = 0 /\ tier' = t

EnableOsc ==
  /\ Step("oscen", "waitosc")
  /\ oscen' = TRUE
  /\ UNCHANGED <<tier, clksrcsel, pll0con, cclkcfg, flashtim, stat>>

WaitForever(at, ready, next) ==
  /\ pc = at
  /\ IF ready THEN pc' = next /\ i' = 0 ELSE UNCHANGED <<pc, i>>
  /\ UNCHANGED <<tier, regs, stat>>

WaitOneMore(at, ready, next) ==
  /\ pc = at
  /\ i <= WaitLimit
  /\ IF ready THEN pc' = next /\ i' = 0 ELSE pc' = at /\ i' = i + 1
  /\ UNCHANGED <<tier, regs, stat>>

\* for (i = 0; i < 1000000; i++) if (ready) break;
Wait(at, ready, next) ==
  /\ pc = at
  /\ i < WaitLimit
  /\ IF ready THEN pc' = next /\ i' = 0 ELSE pc' = at /\ i' = i + 1
  /\ UNCHANGED <<tier, regs, stat>>

WaitOsc == Wait("waitosc", oscstat, "select")

NoOsc ==
  /\ pc = "waitosc" /\ i = WaitLimit
  /\ Return(1)
  /\ UNCHANGED <<regs, stat>>

SelectOsc ==
  /\ Step("select", "config")
  /\ clksrcsel' = 1
  /\ UNCHANGED <<tier, oscen, pll0con, cclkcfg, flashtim, stat>>

\* The multiplier is FccoMHz; nothing else depends on PLL0CFG.
ConfigurePll ==
  /\ Step("config", "enable")
  /\ UNCHANGED <<tier, regs, stat>>

EnablePll ==
  /\ Step("enable", "waitlock")
  /\ pll0con' = 1 /\ plle' = TRUE
  /\ UNCHANGED <<tier, oscen, clksrcsel, cclkcfg, flashtim, oscstat, plock, pllc>>

WaitLock == Wait("waitlock", plock, "divide")

NoLock ==
  /\ pc = "waitlock" /\ i = WaitLimit
  /\ Return(2)
  /\ UNCHANGED <<regs, stat>>

DividerThree == 3                    \* the ratio instead of the ratio less one
Divider == 2
SetDivider ==
  /\ Step("divide", "flash")
  /\ cclkcfg' = Divider
  /\ UNCHANGED <<tier, oscen, clksrcsel, pll0con, flashtim, stat>>

FlashTimReset == 3
FlashTim == 4
SetFlashTiming ==
  /\ Step("flash", "connect")
  /\ flashtim' = FlashTim
  /\ UNCHANGED <<tier, oscen, clksrcsel, pll0con, cclkcfg, stat>>

ConnectPll ==
  /\ Step("connect", "waitconnect")
  /\ pll0con' = 3
  /\ UNCHANGED <<tier, oscen, clksrcsel, cclkcfg, flashtim, stat>>

\* The last wait ends SystemInit with the full clock.
WaitConnect ==
  /\ pc = "waitconnect" /\ i < WaitLimit
  /\ IF pllc /\ plle THEN Return(4)
     ELSE pc' = pc /\ i' = i + 1 /\ UNCHANGED tier
  /\ UNCHANGED <<regs, stat>>

NoConnectAsIs ==                     \* the PLL is left as it is
  /\ pc = "waitconnect" /\ i = WaitLimit
  /\ Return(3)
  /\ UNCHANGED <<regs, stat>>

NoConnect ==
  /\ pc = "waitconnect" /\ i = WaitLimit
  /\ Return(3)
  /\ pll0con' = 0 /\ plle' = FALSE /\ pllc' = FALSE
  /\ UNCHANGED <<oscen, clksrcsel, cclkcfg, flashtim, oscstat, plock>>

-----------------------------------------------------------------------------
(* The hardware: PLLE0 of PLL0STAT follows PLL0CON at once, PLLC0 when the *)
(* switch is made.                                                         *)

OscStarts ==
  /\ oscen /\ ~oscstat
  /\ oscstat' = TRUE
  /\ UNCHANGED <<pc, i, tier, regs, plock, plle, pllc>>

\* A PLL that is not in use yet may gain and lose its lock.
LockChanges ==
  /\ plle /\ ~pllc /\ oscstat
  /\ plock' = ~plock
  /\ UNCHANGED <<pc, i, tier, regs, oscstat, plle, pllc>>

Connects ==
  /\ pll0con = 3 /\ plle /\ plock /\ ~pllc
  /\ pllc' = TRUE
  /\ UNCHANGED <<pc, i, tier, regs, oscstat, plock, plle>>

-----------------------------------------------------------------------------
Init ==
  /\ pc = "oscen" /\ i = 0 /\ tier = 0
  /\ oscen = FALSE /\ oscstat = FALSE /\ clksrcsel = 0
  /\ pll0con = 0 /\ plock = FALSE /\ plle = FALSE /\ pllc = FALSE
  /\ cclkcfg = 0 /\ flashtim = FlashTimReset

Program == \/ EnableOsc \/ WaitOsc \/ NoOsc \/ SelectOsc \/ ConfigurePll
           \/ EnablePll \/ WaitLock \/ NoLock \/ SetDivider \/ SetFlashTiming
           \/ ConnectPll \/ WaitConnect \/ NoConnect
Hardware == OscStarts \/ LockChanges \/ Connects

Next == Program \/ Hardware
Spec == Init /\ [][Next]_vars
\* The core executes SystemInit; the hardware owes nothing.
FairSpec == Spec /\ WF_vars(Program)

-----------------------------------------------------------------------------
(* Properties                                                              *)

TypeOK ==
  /\ pc \in Pcs /\ i \in 0 .. WaitLimit /\ tier \in 0 .. 4
  /\ oscen \in BOOLEAN /\ oscstat \in BOOLEAN /\ plock \in BOOLEAN
  /\ plle \in BOOLEAN /\ pllc \in BOOLEAN
  /\ clksrcsel \in {0, 1} /\ pll0con \in {0, 1, 3}
  /\ cclkcfg \in 0 .. 255 /\ flashtim \in 0 .. 15

\* At no moment of the bring-up does the core outrun its flash: the divider
\* and the flash timing are in place before the PLL can become the clock,
\* whenever the hardware makes the switch.
FlashKeepsUp == CclkMHz <= IF flashtim = 4 THEN FastMHz ELSE SlowMHz

\* Without a crystal, without a lock and on success g_clock_tier names the clock
\* the core is left with, however late the crystal or the lock comes after its
\* wait was given up.
TierIsClock ==
  pc = "main" => /\ tier = 1 => CclkMHz = IrcMHz
                 /\ tier = 2 => CclkMHz = XtalMHz
                 /\ tier = 4 => CclkMHz = FccoMHz \div 3

\* The clock SystemInit leaves is the clock of the whole run, in every tier: a
\* crystal, a lock or a switch that comes after its wait was given up changes
\* nothing under the baud rates and half periods main derives from it.
ClockStays == [][pc = "main" => CclkMHz' = CclkMHz]_vars

\* What the comments of clock_config.cpp say of a PLL that locked and never
\* connected: "12MHz raw crystal", the "unmultiplied sysclk".  This property
\* should be violated: SystemInit gives up the PLL and leaves CCLKCFG dividing
\* the crystal by three.
FallbackIsCrystal == pc = "main" /\ tier = 3 => CclkMHz = XtalMHz

\* What FlashKeepsUp, TierIsClock and ClockStays rest on.  The PLL runs once it
\* is enabled and can be the clock only once it was asked for; by then source,
\* divider and flash timing are in place.  When SystemInit has returned nothing the hardware
\* may still do changes the clock.
BootInv ==
  /\ pc \in {"oscen", "waitosc", "select"} => clksrcsel = 0
  /\ pc \in {"config", "enable", "waitlock", "divide", "flash", "connect",
              "waitconnect"} => clksrcsel = 1
  /\ pc \in {"oscen", "waitosc", "select", "config", "enable"} => pll0con = 0
  /\ pc \in {"waitlock", "divide", "flash", "connect"} => pll0con = 1
  /\ pc = "waitconnect" => pll0con = 3
  /\ pc \in {"oscen", "waitosc", "select", "config", "enable", "waitlock",
              "divide"} => cclkcfg = 0
  /\ pc \in {"flash", "connect", "waitconnect"} => cclkcfg = Divider
  /\ flashtim = IF pc \in {"connect", "waitconnect"} \/ (pc = "main" /\ tier \in {3, 4})
                THEN FlashTim ELSE FlashTimReset
  /\ plle <=> pll0con # 0
  /\ pllc => pll0con = 3
  /\ pc = "main" =>
       \/ tier = 1 /\ clksrcsel = 0 /\ pll0con = 0 /\ cclkcfg = 0
       \/ tier = 2 /\ clksrcsel = 1 /\ pll0con = 1 /\ cclkcfg = 0
       \/ tier = 3 /\ clksrcsel = 1 /\ pll0con = 0 /\ cclkcfg = Divider
       \/ tier = 4 /\ clksrcsel = 1 /\ pll0con = 3 /\ cclkcfg = Divider /\ pllc

\* SystemInit returns whatever the hardware does.
BootNeverHangs == <>(pc = "main")
=============================================================================
