-------------------------- MODULE ClockInitProofs --------------------------
(***************************************************************************)
(* TLAPS proofs about ClockInit, for every number of wait iterations and   *)
(* all frequencies of crystal and PLL that the flash admits.               *)
(***************************************************************************)
EXTENDS ClockInit, TLAPS

USE ClockAssumption DEF ClockAssumption

-----------------------------------------------------------------------------
(* Type correctness                                                        *)

\* Registers and the wait counter stay in their ranges: no wait loop runs
\* past its limit.
THEOREM BootTypes == Spec => []TypeOK
<1> USE DEF TypeOK, Pcs
<1>1. Init => TypeOK
  <2> SUFFICES ASSUME Init PROVE TypeOK
    OBVIOUS
  <2>1. /\ pc \in Pcs /\ i \in 0 .. WaitLimit /\ tier \in 0 .. 4
        /\ clksrcsel \in {0, 1} /\ pll0con \in {0, 1, 3}
        /\ cclkcfg \in 0 .. 255 /\ flashtim \in 0 .. 15
    BY DEF Init, FlashTimReset
  <2>2. /\ oscen \in BOOLEAN /\ oscstat \in BOOLEAN /\ plock \in BOOLEAN
        /\ plle \in BOOLEAN /\ pllc \in BOOLEAN
    BY DEF Init
  <2> QED
    BY <2>1, <2>2
<1>2. TypeOK /\ [Next]_vars => TypeOK'
  <2> SUFFICES ASSUME TypeOK, [Next]_vars PROVE TypeOK'
    OBVIOUS
  <2> USE DEF regs, stat
  <2>1. CASE EnableOsc
    BY <2>1 DEF EnableOsc, Step
  <2>2. CASE WaitOsc
    BY <2>2 DEF WaitOsc, Wait
  <2>3. CASE NoOsc
    BY <2>3 DEF NoOsc, Return
  <2>4. CASE SelectOsc
    BY <2>4 DEF SelectOsc, Step
  <2>5. CASE ConfigurePll
    BY <2>5 DEF ConfigurePll, Step
  <2>6. CASE EnablePll
    BY <2>6 DEF EnablePll, Step
  <2>7. CASE WaitLock
    BY <2>7 DEF WaitLock, Wait
  <2>8. CASE NoLock
    BY <2>8 DEF NoLock, Return
  <2>9. CASE SetDivider
    BY <2>9 DEF SetDivider, Step, Divider
  <2>10. CASE SetFlashTiming
    BY <2>10 DEF SetFlashTiming, Step, FlashTim
  <2>11. CASE ConnectPll
    BY <2>11 DEF ConnectPll, Step
  <2>12. CASE WaitConnect
    BY <2>12 DEF WaitConnect, Return
  <2>13. CASE NoConnect
    <3>1. pc' \in Pcs /\ i' \in 0 .. WaitLimit /\ tier' \in 0 .. 4 /\ pll0con' \in {0, 1, 3}
      BY <2>13 DEF NoConnect, Return
    <3>2. plle' \in BOOLEAN /\ pllc' \in BOOLEAN
      BY <2>13 DEF NoConnect
    <3> QED
      BY <2>13, <3>1, <3>2 DEF NoConnect
  <2>14. CASE OscStarts
    BY <2>14 DEF OscStarts
  <2>15. CASE LockChanges
    BY <2>15 DEF LockChanges
  <2>16. CASE Connects
    BY <2>16 DEF Connects
  <2>17. CASE UNCHANGED vars
    BY <2>17 DEF vars
  <2> QED
    BY <2>1, <2>2, <2>3, <2>4, <2>5, <2>6, <2>7, <2>8, <2>9, <2>10, <2>11,
       <2>12, <2>13, <2>14, <2>15, <2>16, <2>17 DEF Next, Program, Hardware
<1> QED
  BY <1>1, <1>2, PTL DEF Spec

-----------------------------------------------------------------------------
(* The clock                                                               *)

\* The order of SystemInit holds the registers together, whenever the
\* crystal, the lock and the switch of the PLL come.
THEOREM BootInvariant == Spec => []BootInv
<1>1. Init => BootInv
  BY DEF Init, BootInv
<1>2. TypeOK /\ BootInv /\ [Next]_vars => BootInv'
  <2> SUFFICES ASSUME TypeOK, BootInv, [Next]_vars PROVE BootInv'
    OBVIOUS
  <2> USE DEF BootInv, regs, stat, Divider, FlashTim, FlashTimReset
  <2>1. CASE EnableOsc
    BY <2>1 DEF EnableOsc, Step
  <2>2. CASE WaitOsc
    BY <2>2 DEF WaitOsc, Wait
  <2>3. CASE NoOsc
    BY <2>3 DEF NoOsc, Return
  <2>4. CASE SelectOsc
    BY <2>4 DEF SelectOsc, Step
  <2>5. CASE ConfigurePll
    BY <2>5 DEF ConfigurePll, Step
  <2>6. CASE EnablePll
    BY <2>6 DEF EnablePll, Step
  <2>7. CASE WaitLock
    BY <2>7 DEF WaitLock, Wait
  <2>8. CASE NoLock
    BY <2>8 DEF NoLock, Return
  <2>9. CASE SetDivider
    BY <2>9 DEF SetDivider, Step
  <2>10. CASE SetFlashTiming
    BY <2>10 DEF SetFlashTiming, Step
  <2>11. CASE ConnectPll
    BY <2>11 DEF ConnectPll, Step
  <2>12. CASE WaitConnect
    BY <2>12 DEF WaitConnect, Return
  <2>13. CASE NoConnect
    BY <2>13 DEF NoConnect, Return
  <2>14. CASE OscStarts
    BY <2>14 DEF OscStarts
  <2>15. CASE LockChanges
    BY <2>15 DEF LockChanges
  <2>16. CASE Connects
    BY <2>16 DEF Connects, TypeOK
  <2>17. CASE UNCHANGED vars
    BY <2>17 DEF vars
  <2> QED
    BY <2>1, <2>2, <2>3, <2>4, <2>5, <2>6, <2>7, <2>8, <2>9, <2>10, <2>11,
       <2>12, <2>13, <2>14, <2>15, <2>16, <2>17 DEF Next, Program, Hardware
<1> QED
  BY <1>1, <1>2, BootTypes, PTL DEF Spec

\* A divider only slows a clock down, and a divider of one leaves it alone.
LEMMA Division ==
  ASSUME NEW f \in Nat
  PROVE  f \div 1 = f /\ f \div 3 \in Nat /\ f \div 3 <= f
OBVIOUS

\* CCLK at every moment of the bring-up: the PLL through the divider, the
\* crystal through the divider, or a source that is not divided.
LEMMA ClockCases ==
  ASSUME TypeOK, BootInv
  PROVE  \/ pllc /\ flashtim = FlashTim /\ CclkMHz = FccoMHz \div 3
         \/ ~pllc /\ clksrcsel = 1 /\ cclkcfg = Divider /\ CclkMHz = XtalMHz \div 3
         \/ ~pllc /\ cclkcfg = 0 /\ CclkMHz = Source
<1> USE DEF TypeOK, BootInv, Pcs, CclkMHz, Source, Divider, FlashTim, FlashTimReset
<1>1. CASE pllc
  <2>1. pll0con = 3 /\ plle
    BY <1>1
  <2>2. cclkcfg = 2 /\ flashtim = 4
    BY <1>1, <2>1
  <2> QED
    BY <1>1, <2>1, <2>2
<1>2. CASE ~pllc
  <2>1. cclkcfg = 0 \/ (cclkcfg = 2 /\ clksrcsel = 1)
    OBVIOUS
  <2>2. CclkMHz = Source \div (cclkcfg + 1)
    BY <1>2
  <2>3. Source \in Nat
    OBVIOUS
  <2>4. cclkcfg = 0 => CclkMHz = Source
    BY <2>2, <2>3, Division
  <2> QED
    BY <1>2, <2>1, <2>2, <2>4
<1> QED
  BY <1>1, <1>2

\* The core never outruns its flash.
THEOREM FlashAlwaysKeepsUp == Spec => []FlashKeepsUp
<1>1. TypeOK /\ BootInv => FlashKeepsUp
  <2> SUFFICES ASSUME TypeOK, BootInv PROVE FlashKeepsUp
    OBVIOUS
  <2>1. /\ Source \in Nat /\ Source <= SlowMHz /\ Source <= FastMHz
        /\ XtalMHz \div 3 <= SlowMHz /\ XtalMHz \div 3 <= FastMHz
    BY Division DEF Source
  <2> QED
    BY <2>1, ClockCases DEF FlashKeepsUp, FlashTim
<1> QED
  BY <1>1, BootTypes, BootInvariant, PTL

\* g_clock_tier names the clock the core is left with, from the return of
\* SystemInit on, unless a locked PLL was given up.
THEOREM TierNamesClock == Spec => []TierIsClock
<1>1. TypeOK /\ BootInv => TierIsClock
  BY ClockCases DEF TierIsClock, BootInv, TypeOK, Source, Divider
<1> QED
  BY <1>1, BootTypes, BootInvariant, PTL

\* Nothing the hardware does after SystemInit has returned changes CCLK.
THEOREM ClockNeverMoves == Spec => ClockStays
<1>1. TypeOK /\ BootInv /\ [Next]_vars => [pc = "main" => CclkMHz' = CclkMHz]_vars
  <2> SUFFICES ASSUME TypeOK, BootInv, Next, pc = "main"
               PROVE  CclkMHz' = CclkMHz
    OBVIOUS
  <2>1. ~Program
    BY DEF Program, EnableOsc, WaitOsc, NoOsc, SelectOsc, ConfigurePll, EnablePll,
           WaitLock, NoLock, SetDivider, SetFlashTiming, ConnectPll, WaitConnect,
           NoConnect, Step, Wait
  <2>2. ~Connects
    BY DEF Connects, BootInv
  <2>3. CASE OscStarts
    BY <2>3 DEF OscStarts, regs, CclkMHz, Source
  <2>4. CASE LockChanges
    BY <2>4 DEF LockChanges, regs, CclkMHz, Source
  <2> QED
    BY <2>1, <2>2, <2>3, <2>4 DEF Next, Hardware
<1> QED
  BY <1>1, BootTypes, BootInvariant, PTL DEF Spec, ClockStays
=============================================================================
