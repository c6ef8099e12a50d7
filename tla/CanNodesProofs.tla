--------------------------- MODULE CanNodesProofs ---------------------------
(***************************************************************************)
(* TLAPS proofs about CanNodes, for any number of polls, rounds, spoilt    *)
(* frames and failing SPI transactions.                                    *)
(***************************************************************************)
EXTENDS CanNodes, TLAPS

USE NodesAssumption, BoundsAssumption DEF NodesAssumption, BoundsAssumption

\* What the bounds are, one by one.
LEMMA Bounds ==
  /\ VerifyPolls \in Nat /\ VerifyPolls > 0
  /\ MaxSends \in Nat /\ MaxSends > 0
  /\ MaxErrors \in Nat /\ MaxSpiFaults \in Nat
OBVIOUS

\* There are two nodes, each the other's other one.
LEMMA OtherNode ==
  ASSUME NEW n \in Nodes
  PROVE  Other(n) \in Nodes /\ Other(n) # n /\ Other(Other(n)) = n
BY DEF Nodes, Other

\* The program counter and the progress counter of one node, as TypeOK has them.
Pcs == {"reset", "ost", "cnf", "mode", "request", "verify", "oneshot", "halt"}
         \cup Looping

Stage ==
  /\ pc \in [Nodes -> Pcs] /\ idx \in [Nodes -> Nat]
  /\ \A n \in Nodes : /\ pc[n] = "verify" => idx[n] < VerifyPolls
                      /\ pc[n] = "cnf" => idx[n] < 3

\* Going on to another transaction starts its counter afresh.
LEMMA GoStage ==
  ASSUME Stage, NEW n \in Nodes, NEW p \in Pcs, Go(n, p)
  PROVE  Stage'
BY Bounds DEF Stage, Go

-----------------------------------------------------------------------------
(* Type correctness                                                        *)

\* Every variable stays in its range: CANSTAT is not read more often than
\* VerifyPolls times and no CNF register beyond the third is written.
THEOREM NodeTypes == Spec => []TypeOK
<1> USE DEF TypeOK
<1>1. Init => TypeOK
  BY Bounds DEF Init, Nodes
<1>2. TypeOK /\ [Next]_vars => TypeOK'
  <2> SUFFICES ASSUME TypeOK, [Next]_vars PROVE TypeOK'
    OBVIOUS
  <2> USE Bounds, OtherNode DEF prog, ctl, bufs, hist, Looping, SpiOk, SpiFails,
        InitFails, Go, Again
  <2> DEFINE StoreTypes ==
        /\ rxb \in [Nodes -> 0 .. MaxSends] /\ rx0if \in [Nodes -> BOOLEAN]
        /\ arrived \in [Nodes -> BOOLEAN] /\ last \in [Nodes -> 0 .. MaxSends]
  <2>a. ASSUME NEW m \in Nodes, NEW f \in 0 .. MaxSends, Store(m, f)
        PROVE  StoreTypes'
    <3>1. CASE rx0if[m]
      BY <2>a, <3>1 DEF Store
    <3>2. CASE ~rx0if[m]
      <4>1. rxb' = [rxb EXCEPT ![m] = f] /\ last' = [last EXCEPT ![m] = f]
        BY <2>a, <3>2 DEF Store
      <4>2. rx0if' = [rx0if EXCEPT ![m] = TRUE] /\ arrived' = [arrived EXCEPT ![m] = TRUE]
        BY <2>a, <3>2 DEF Store
      <4>3. rxb' \in [Nodes -> 0 .. MaxSends] /\ last' \in [Nodes -> 0 .. MaxSends]
        BY <4>1
      <4>4. rx0if' \in [Nodes -> BOOLEAN] /\ arrived' \in [Nodes -> BOOLEAN]
        BY <4>2
      <4> QED
        BY <4>3, <4>4
    <3> QED
      BY <3>1, <3>2
  <2>1. ASSUME NEW n \in Nodes, Reset(n) PROVE TypeOK'
    <3>1. Stage'
      BY <2>1, GoStage DEF Reset, Stage, Pcs
    <3>2. spiFaults' \in 0 .. MaxSpiFaults
      BY <2>1 DEF Reset
    <3>3. /\ mode' \in [Nodes -> {"reset", "config", "normal", "loopback"}]
          /\ reqop' \in [Nodes -> {"config", "normal", "loopback"}]
          /\ cnf' \in [Nodes -> SUBSET AllCnf] /\ osm' \in [Nodes -> BOOLEAN]
          /\ txreq' \in [Nodes -> BOOLEAN] /\ rx0if' \in [Nodes -> BOOLEAN]
      <4>1. CASE ChipReset(n)
        <5>1. mode' \in [Nodes -> {"reset", "config", "normal", "loopback"}]
          BY <4>1 DEF ChipReset
        <5>2. reqop' \in [Nodes -> {"config", "normal", "loopback"}]
          BY <4>1 DEF ChipReset
        <5>3. cnf' \in [Nodes -> SUBSET AllCnf] /\ osm' \in [Nodes -> BOOLEAN]
          BY <4>1 DEF ChipReset
        <5>4. txreq' \in [Nodes -> BOOLEAN] /\ rx0if' \in [Nodes -> BOOLEAN]
          BY <4>1 DEF ChipReset
        <5> QED
          BY <5>1, <5>2, <5>3, <5>4
      <4>2. CASE UNCHANGED <<ctl, txreq, rx0if>>
        BY <4>2
      <4> QED
        BY <2>1, <4>1, <4>2 DEF Reset
    <3> QED
      BY <2>1, <3>1, <3>2, <3>3 DEF Reset, Stage, Pcs
  <2>2. ASSUME NEW n \in Nodes, Delay(n) PROVE TypeOK'
    BY <2>2 DEF Delay
  <2>3. ASSUME NEW n \in Nodes, WriteCnf(n) PROVE TypeOK'
    <3>1. Stage'
      BY <2>3, GoStage DEF WriteCnf, Stage, Pcs
    <3>2. CnfOrder[idx[n] + 1] \in AllCnf
      <4>1. idx[n] \in Nat /\ idx[n] < 3
        BY <2>3 DEF WriteCnf
      <4>2. idx[n] = 0 \/ idx[n] = 1 \/ idx[n] = 2
        BY <4>1
      <4> QED
        BY <4>2 DEF AllCnf, CnfOrder
    <3>3. cnf' \in [Nodes -> SUBSET AllCnf]
      BY <2>3, <3>2 DEF WriteCnf
    <3>4. spiFaults' \in 0 .. MaxSpiFaults
      BY <2>3 DEF WriteCnf
    <3> QED
      BY <2>3, <3>1, <3>3, <3>4 DEF WriteCnf, Stage, Pcs
  <2>4. ASSUME NEW n \in Nodes, ReadCanctrl(n) PROVE TypeOK'
    BY <2>4 DEF ReadCanctrl
  <2>5. ASSUME NEW n \in Nodes, WriteCanctrl(n) PROVE TypeOK'
    BY <2>5 DEF WriteCanctrl, Target
  <2>6. ASSUME NEW n \in Nodes, ReadCanstat(n) PROVE TypeOK'
    BY <2>6 DEF ReadCanstat, VerifyFails
  <2>7. ASSUME NEW n \in Nodes, SetOneShot(n) PROVE TypeOK'
    <3>1. Stage'
      BY <2>7, GoStage DEF SetOneShot, Stage, Pcs
    <3>2. osm' \in [Nodes -> BOOLEAN]
      BY <2>7 DEF SetOneShot, OneShotBit
    <3>3. spiFaults' \in 0 .. MaxSpiFaults
      BY <2>7 DEF SetOneShot
    <3> QED
      BY <2>7, <3>1, <3>2, <3>3 DEF SetOneShot, Stage, Pcs
  <2>8. ASSUME NEW n \in Nodes, Load(n) PROVE TypeOK'
    BY <2>8 DEF Load, SendFailed
  <2>9. ASSUME NEW n \in Nodes, Rts(n) PROVE TypeOK'
    <3>1. Stage'
      BY <2>9, GoStage DEF Rts, SendFailed, Stage, Pcs
    <3>2. txreq' \in [Nodes -> BOOLEAN]
      <4>1. txreq' = txreq \/ txreq' = [txreq EXCEPT ![n] = TRUE]
        BY <2>9 DEF Rts
      <4> QED
        BY <4>1
    <3>3. spiFaults' \in 0 .. MaxSpiFaults
      BY <2>9 DEF Rts
    <3> QED
      BY <2>9, <3>1, <3>2, <3>3 DEF Rts, Stage, Pcs
  <2>10. ASSUME NEW n \in Nodes, HasMessage(n) PROVE TypeOK'
    BY <2>10 DEF HasMessage
  <2>11. ASSUME NEW n \in Nodes, Confirm(n) PROVE TypeOK'
    BY <2>11 DEF Confirm
  <2>12. ASSUME NEW n \in Nodes, ReadHeader(n) PROVE TypeOK'
    <3>1. Stage'
      BY <2>12, GoStage DEF ReadHeader, NextPoll, Stage, Pcs
    <3>2. snap' \in [Nodes -> 0 .. MaxSends] /\ spiFaults' \in 0 .. MaxSpiFaults
      BY <2>12 DEF ReadHeader
    <3>3. rx0if' \in [Nodes -> BOOLEAN]
      BY <2>12 DEF ReadHeader
    <3> QED
      BY <2>12, <3>1, <3>2, <3>3 DEF ReadHeader, Stage, Pcs
  <2>13. ASSUME NEW n \in Nodes, ReadData(n) PROVE TypeOK'
    <3>1. Stage'
      BY <2>13, GoStage DEF ReadData, NextPoll, Stage, Pcs
    <3>2. snap' \in [Nodes -> 0 .. MaxSends]
      BY <2>13 DEF ReadData
    <3>3. heard' \in [Nodes -> BOOLEAN]
      <4>1. \E b \in BOOLEAN : heard' = [heard EXCEPT ![n] = b]
        BY <2>13 DEF ReadData
      <4> QED
        BY <4>1
    <3>4. rx0if' \in [Nodes -> BOOLEAN]
      BY <2>13 DEF ReadData
    <3> QED
      BY <2>13, <3>1, <3>2, <3>3, <3>4 DEF ReadData, Stage, Pcs
  <2>14. ASSUME NEW n \in Nodes, Report(n) PROVE TypeOK'
    BY <2>14 DEF Report
  <2>15. ASSUME NEW n \in Nodes, OstExpires(n) PROVE TypeOK'
    BY <2>15 DEF OstExpires
  <2>16. ASSUME NEW n \in Nodes, ModeFollows(n) PROVE TypeOK'
    BY <2>16 DEF ModeFollows
  <2>17. ASSUME NEW n \in Nodes, Transmit(n) PROVE TypeOK'
    <3>1. errors' \in 0 .. MaxErrors
      <4>1. \/ errors' = errors
            \/ errors < MaxErrors /\ errors' = errors + 1
        BY <2>17 DEF Transmit
      <4> QED
        BY <4>1
    <3>2. txreq' \in [Nodes -> BOOLEAN]
      BY <2>17 DEF Transmit, Attempted
    <3>3. StoreTypes'
      BY <2>17, <2>a DEF Transmit, StoreTypes
    <3> QED
      BY <2>17, <3>1, <3>2, <3>3 DEF Transmit, StoreTypes
  <2>18. ASSUME NEW n \in Nodes, LoopBack(n) PROVE TypeOK'
    <3>1. txreq' \in [Nodes -> BOOLEAN]
      BY <2>18 DEF LoopBack
    <3> QED
      BY <2>18, <2>a, <3>1 DEF LoopBack, StoreTypes
  <2>19. CASE UNCHANGED vars
    BY <2>19 DEF vars
  <2> QED
    BY <2>1, <2>2, <2>3, <2>4, <2>5, <2>6, <2>7, <2>8, <2>9, <2>10, <2>11,
       <2>12, <2>13, <2>14, <2>15, <2>16, <2>17, <2>18, <2>19
    DEF Next, Program, Chip, BoundReached
<1> QED
  BY <1>1, <1>2, PTL DEF Spec

-----------------------------------------------------------------------------
(* Every node that came out of init is configured                          *)

\* The stages of init hold, whichever transactions fail and however late the
\* chip changes its mode.
THEOREM ConfigInvariant == Spec => []ConfigInv
<1>1. Init => ConfigInv
  BY DEF Init, ConfigInv, InitProgress, Looping
<1>2. TypeOK /\ ConfigInv /\ [Next]_vars => ConfigInv'
  <2> SUFFICES ASSUME TypeOK, ConfigInv, [Next]_vars, NEW m \in Nodes
               PROVE  InitProgress(m)'
    BY DEF ConfigInv
  <2>0. InitProgress(m)
    BY DEF ConfigInv
  <2> USE <2>0 DEF TypeOK, InitProgress, Target, Looping, prog, ctl, bufs, hist,
        SpiOk, SpiFails, InitFails, Go, Again
  <2>1. ASSUME NEW n \in Nodes, Reset(n) PROVE InitProgress(m)'
    BY <2>1 DEF Reset, ChipReset
  <2>2. ASSUME NEW n \in Nodes, Delay(n) PROVE InitProgress(m)'
    BY <2>2 DEF Delay, OstWait
  <2>3. ASSUME NEW n \in Nodes, WriteCnf(n) PROVE InitProgress(m)'
    BY <2>3 DEF WriteCnf, CnfOrder, AllCnf
  <2>4. ASSUME NEW n \in Nodes, ReadCanctrl(n) PROVE InitProgress(m)'
    BY <2>4 DEF ReadCanctrl
  <2>5. ASSUME NEW n \in Nodes, WriteCanctrl(n) PROVE InitProgress(m)'
    BY <2>5 DEF WriteCanctrl
  <2>6. ASSUME NEW n \in Nodes, ReadCanstat(n) PROVE InitProgress(m)'
    BY <2>6 DEF ReadCanstat, VerifyFails, Verified
  <2>7. ASSUME NEW n \in Nodes, SetOneShot(n) PROVE InitProgress(m)'
    BY <2>7 DEF SetOneShot, OneShotBit
  <2>8. ASSUME NEW n \in Nodes, Load(n) PROVE InitProgress(m)'
    BY <2>8 DEF Load, SendFailed
  <2>9. ASSUME NEW n \in Nodes, Rts(n) PROVE InitProgress(m)'
    BY <2>9 DEF Rts, SendFailed
  <2>10. ASSUME NEW n \in Nodes, HasMessage(n) PROVE InitProgress(m)'
    BY <2>10 DEF HasMessage
  <2>11. ASSUME NEW n \in Nodes, Confirm(n) PROVE InitProgress(m)'
    BY <2>11 DEF Confirm
  <2>12. ASSUME NEW n \in Nodes, ReadHeader(n) PROVE InitProgress(m)'
    BY <2>12 DEF ReadHeader, NextPoll
  <2>13. ASSUME NEW n \in Nodes, ReadData(n) PROVE InitProgress(m)'
    BY <2>13 DEF ReadData, NextPoll
  <2>14. ASSUME NEW n \in Nodes, Report(n) PROVE InitProgress(m)'
    BY <2>14 DEF Report
  <2>15. ASSUME NEW n \in Nodes, OstExpires(n) PROVE InitProgress(m)'
    BY <2>15 DEF OstExpires
  <2>16. ASSUME NEW n \in Nodes, ModeFollows(n) PROVE InitProgress(m)'
    BY <2>16 DEF ModeFollows
  <2>17. ASSUME NEW n \in Nodes, Transmit(n) PROVE InitProgress(m)'
    BY <2>17 DEF Transmit, Store, Attempted
  <2>18. ASSUME NEW n \in Nodes, LoopBack(n) PROVE InitProgress(m)'
    BY <2>18 DEF LoopBack, Store
  <2>19. CASE UNCHANGED vars
    BY <2>19 DEF vars
  <2> QED
    BY <2>1, <2>2, <2>3, <2>4, <2>5, <2>6, <2>7, <2>8, <2>9, <2>10, <2>11,
       <2>12, <2>13, <2>14, <2>15, <2>16, <2>17, <2>18, <2>19
    DEF Next, Program, Chip, BoundReached
<1> QED
  BY <1>1, <1>2, NodeTypes, PTL DEF Spec

\* A node that sends and listens is in the mode asked for, with all of its
\* bit timing in place.
THEOREM Configured == Spec => []LoopingConfigured
<1>1. ConfigInv => LoopingConfigured
  BY DEF ConfigInv, InitProgress, LoopingConfigured, Looping
<1> QED
  BY <1>1, ConfigInvariant, PTL

-----------------------------------------------------------------------------
(* At most once, and in order                                              *)

\* SPI has worked so far if it has worked after a step.
LEMMA FaultsStay ==
  ASSUME TypeOK, [Next]_vars, spiFaults' = 0
  PROVE  spiFaults = 0
<1> USE DEF SpiOk, SpiFails
<1>1. spiFaults \in Nat
  BY DEF TypeOK
<1>2. ASSUME NEW n \in Nodes, Program(n) PROVE spiFaults = 0
  <2>1. spiFaults' = spiFaults \/ spiFaults' = spiFaults + 1
    BY <1>2 DEF Program, Reset, Delay, WriteCnf, ReadCanctrl, WriteCanctrl,
      ReadCanstat, SetOneShot, Load, Rts, HasMessage, Confirm, ReadHeader,
      ReadData, Report
  <2> QED
    BY <1>1, <2>1
<1>3. ASSUME NEW n \in Nodes, Chip(n) PROVE spiFaults = 0
  BY <1>3 DEF Chip, OstExpires, ModeFollows, Transmit, LoopBack
<1> QED
  BY <1>2, <1>3 DEF Next, BoundReached, vars

\* Only the bus and the loopback store a frame, the one in TXB0 of its sender.
LEMMA StoresLoaded ==
  ASSUME TypeOK, ConfigInv, NEW n \in Nodes, Transmit(n) \/ LoopBack(n),
         NEW m \in Nodes, last'[m] # last[m] \/ (rx0if'[m] /\ ~rx0if[m])
  PROVE  From(m) = n /\ txreq[n] /\ last'[m] = txb[n]
<1>0. \A k \in Nodes : InitProgress(k)
  BY DEF ConfigInv
<1> USE OtherNode DEF TypeOK, Store, hist
<1>1. CASE Transmit(n)
  <2>1. OnBus(Other(n)) /\ Store(Other(n), txb[n])
    BY <1>1 DEF Transmit
  <2>2. m = Other(n) /\ last'[m] = txb[n]
    BY <2>1
  <2>3. From(m) = n
    BY <1>0, <2>1, <2>2 DEF OnBus, InitProgress, Target, From
  <2> QED
    BY <1>1, <2>2, <2>3 DEF Transmit
<1>2. CASE LoopBack(n)
  <2>1. m = n /\ last'[m] = txb[n]
    BY <1>2 DEF LoopBack
  <2>2. From(n) = n
    BY <1>0, <1>2 DEF LoopBack, InitProgress, Target, From
  <2> QED
    BY <1>2, <2>1, <2>2 DEF LoopBack
<1> QED
  BY <1>1, <1>2

\* TXB0 is only ever loaded with a newer frame, pending or not.
LEMMA LoadsInOrder ==
  ASSUME TypeOK, ConfigInv, SendInv, [Next]_vars, NEW m \in Nodes
  PROVE  LoadedInOrder(m)'
<1>0. \A n \in Nodes : LoadedInOrder(n)
  BY DEF SendInv
<1> USE <1>0, OtherNode DEF TypeOK, LoadedInOrder, From, prog, ctl, bufs, hist
<1>1. ASSUME NEW n \in Nodes, Load(n) PROVE LoadedInOrder(m)'
  BY <1>1 DEF Load
<1>2. ASSUME NEW n \in Nodes, Transmit(n) \/ LoopBack(n) PROVE LoadedInOrder(m)'
  <2>1. UNCHANGED <<txb, sent, bench>>
    BY <1>2 DEF Transmit, LoopBack
  <2>2. \A k \in Nodes : last'[k] # last[k] => From(k) = n /\ last'[k] = txb[n]
    BY <1>2, StoresLoaded
  <2> QED
    BY <2>1, <2>2
<1>3. ASSUME NEW n \in Nodes, Program(n), ~Load(n) PROVE LoadedInOrder(m)'
  <2>1. UNCHANGED <<txb, sent, bench, last>>
    BY <1>3 DEF Program, Reset, Delay, WriteCnf, ReadCanctrl, WriteCanctrl,
      ReadCanstat, SetOneShot, Rts, HasMessage, Confirm, ReadHeader,
      ReadData, Report
  <2> QED
    BY <2>1
<1>4. ASSUME NEW n \in Nodes, OstExpires(n) \/ ModeFollows(n) PROVE LoadedInOrder(m)'
  BY <1>4 DEF OstExpires, ModeFollows
<1>5. CASE UNCHANGED vars
  BY <1>5 DEF vars
<1> QED
  BY <1>1, <1>2, <1>3, <1>4, <1>5 DEF Next, Chip, BoundReached

\* What is in TXB0 is never older than what arrived of it and, while SPI works,
\* newer for as long as it may still be sent.
THEOREM SendInvariant == Spec => []SendInv
<1>1. Init => SendInv
  BY DEF Init, SendInv, LoadedInOrder, SendProgress, Looping
<1>2. TypeOK /\ ConfigInv /\ SendInv /\ [Next]_vars => SendInv'
  <2> SUFFICES ASSUME TypeOK, ConfigInv, SendInv, [Next]_vars, spiFaults' = 0,
                      NEW m \in Nodes
               PROVE  SendProgress(m)'
    BY LoadsInOrder DEF SendInv
  <2>0. /\ spiFaults = 0
        /\ \A n \in Nodes : SendProgress(n) /\ LoadedInOrder(n) /\ InitProgress(n)
    BY FaultsStay DEF SendInv, ConfigInv
  <2> USE <2>0, OtherNode DEF TypeOK, SendProgress, LoadedInOrder, From, Looping, prog, ctl, bufs,
        hist, SpiOk, SpiFails, InitFails, Go, Again
  <2>1. ASSUME NEW n \in Nodes, Reset(n) PROVE SendProgress(m)'
    BY <2>1 DEF Reset, ChipReset
  <2>2. ASSUME NEW n \in Nodes, Delay(n) PROVE SendProgress(m)'
    BY <2>2 DEF Delay
  <2>3. ASSUME NEW n \in Nodes, WriteCnf(n) PROVE SendProgress(m)'
    BY <2>3 DEF WriteCnf
  <2>4. ASSUME NEW n \in Nodes, ReadCanctrl(n) PROVE SendProgress(m)'
    BY <2>4 DEF ReadCanctrl
  <2>5. ASSUME NEW n \in Nodes, WriteCanctrl(n) PROVE SendProgress(m)'
    BY <2>5 DEF WriteCanctrl
  <2>6. ASSUME NEW n \in Nodes, ReadCanstat(n) PROVE SendProgress(m)'
    BY <2>6 DEF ReadCanstat, VerifyFails, Verified
  <2>7. ASSUME NEW n \in Nodes, SetOneShot(n) PROVE SendProgress(m)'
    BY <2>7 DEF SetOneShot, OneShotBit
  <2>8. ASSUME NEW n \in Nodes, Load(n) PROVE SendProgress(m)'
    BY <2>8 DEF Load, SendFailed, RoundOver
  <2>9. ASSUME NEW n \in Nodes, Rts(n) PROVE SendProgress(m)'
    BY <2>9 DEF Rts, SendFailed
  <2>10. ASSUME NEW n \in Nodes, HasMessage(n) PROVE SendProgress(m)'
    BY <2>10 DEF HasMessage, Message
  <2>11. ASSUME NEW n \in Nodes, Confirm(n) PROVE SendProgress(m)'
    BY <2>11 DEF Confirm, Message
  <2>12. ASSUME NEW n \in Nodes, ReadHeader(n) PROVE SendProgress(m)'
    BY <2>12 DEF ReadHeader, NextPoll
  <2>13. ASSUME NEW n \in Nodes, ReadData(n) PROVE SendProgress(m)'
    BY <2>13 DEF ReadData, NextPoll
  <2>14. ASSUME NEW n \in Nodes, Report(n) PROVE SendProgress(m)'
    BY <2>14 DEF Report
  <2>15. ASSUME NEW n \in Nodes, OstExpires(n) PROVE SendProgress(m)'
    BY <2>15 DEF OstExpires
  <2>16. ASSUME NEW n \in Nodes, ModeFollows(n) PROVE SendProgress(m)'
    BY <2>16 DEF ModeFollows
  <2>17. ASSUME NEW n \in Nodes, Transmit(n) PROVE SendProgress(m)'
    <3>1. n \notin bench /\ osm[n]
      BY <2>17 DEF Transmit, InitProgress, Target
    <3>2. ~txreq'[n] /\ \A k \in Nodes : txreq'[k] => txreq[k]
      BY <2>17, <3>1 DEF Transmit, Attempted
    <3>3. \A k \in Nodes : last'[k] # last[k] => From(k) = n /\ last'[k] = txb[n]
      BY <2>17, StoresLoaded
    <3> QED
      BY <2>17, <3>2, <3>3 DEF Transmit
  <2>18. ASSUME NEW n \in Nodes, LoopBack(n) PROVE SendProgress(m)'
    <3>1. ~txreq'[n] /\ \A k \in Nodes : txreq'[k] => txreq[k]
      BY <2>18 DEF LoopBack
    <3>2. \A k \in Nodes : last'[k] # last[k] => From(k) = n /\ last'[k] = txb[n]
      BY <2>18, StoresLoaded
    <3> QED
      BY <2>18, <3>1, <3>2 DEF LoopBack
  <2>19. CASE UNCHANGED vars
    BY <2>19 DEF vars
  <2> QED
    BY <2>1, <2>2, <2>3, <2>4, <2>5, <2>6, <2>7, <2>8, <2>9, <2>10, <2>11,
       <2>12, <2>13, <2>14, <2>15, <2>16, <2>17, <2>18, <2>19
    DEF Next, Program, Chip, BoundReached
<1> QED
  BY <1>1, <1>2, NodeTypes, ConfigInvariant, PTL DEF Spec

\* No frame is stored behind a newer one and, as long as SPI works, none twice.
THEOREM StoredAtMostOnce == Spec => AtMostOnce
<1> DEFINE Fresh == \A n \in Nodes : rx0if'[n] /\ ~rx0if[n] =>
              last'[n] >= last[n] /\ (spiFaults = 0 => last'[n] # last[n])
<1>1. TypeOK /\ ConfigInv /\ SendInv /\ [Next]_vars => [Fresh]_vars
  <2> SUFFICES ASSUME TypeOK, ConfigInv, SendInv, [Next]_vars,
                      NEW m \in Nodes, rx0if'[m], ~rx0if[m]
               PROVE  last'[m] >= last[m] /\ (spiFaults = 0 => last'[m] # last[m])
    OBVIOUS
  <2> USE DEF prog, ctl, bufs, hist
  <2>1. ASSUME NEW n \in Nodes, Program(n) PROVE FALSE
    BY <2>1 DEF TypeOK, Program, Reset, ChipReset, Delay, WriteCnf, ReadCanctrl,
      WriteCanctrl, ReadCanstat, SetOneShot, Load, Rts, HasMessage, Confirm,
      ReadHeader, ReadData, Report
  <2>2. ASSUME NEW n \in Nodes, Transmit(n) \/ LoopBack(n)
        PROVE  last'[m] >= last[m] /\ (spiFaults = 0 => last'[m] # last[m])
    <3>1. From(m) = n /\ txreq[n] /\ last'[m] = txb[n]
      BY <2>2, StoresLoaded
    <3>2. last[m] <= txb[n] /\ (spiFaults = 0 => last[m] < txb[n])
      BY <3>1 DEF SendInv, LoadedInOrder, SendProgress
    <3>3. last[m] \in Nat /\ txb[n] \in Nat
      BY DEF TypeOK
    <3> QED
      BY <3>1, <3>2, <3>3
  <2>3. ASSUME NEW n \in Nodes, OstExpires(n) \/ ModeFollows(n) PROVE FALSE
    BY <2>3 DEF OstExpires, ModeFollows
  <2>4. CASE UNCHANGED vars
    BY <2>4 DEF vars
  <2> QED
    BY <2>1, <2>2, <2>3, <2>4 DEF Next, Chip, BoundReached
<1> QED
  BY <1>1, NodeTypes, ConfigInvariant, SendInvariant, PTL DEF Spec, AtMostOnce

-----------------------------------------------------------------------------
(* The loopback test                                                       *)

\* While SPI works each round of the test has exactly one frame, in TXB0, in
\* RXB0 or read.
THEOREM BenchInvariant == Spec => []BenchInv
<1>1. Init => BenchInv
  BY DEF Init, BenchInv, BenchProgress, Nodes
<1>2. TypeOK /\ ConfigInv /\ SendInv /\ BenchInv /\ [Next]_vars => BenchInv'
  <2> SUFFICES ASSUME TypeOK, ConfigInv, SendInv, BenchInv, [Next]_vars,
                      spiFaults' = 0, NEW m \in bench'
               PROVE  BenchProgress(m)'
    BY DEF BenchInv
  <2>0. /\ spiFaults = 0
        /\ \A n \in Nodes : SendProgress(n) /\ InitProgress(n)
    BY FaultsStay DEF SendInv, ConfigInv
  <2>a. bench' = bench
    BY DEF Next, Program, Chip, BoundReached, vars, Reset, Delay, WriteCnf,
      ReadCanctrl, WriteCanctrl, ReadCanstat, SetOneShot, Load, Rts, HasMessage,
      Confirm, ReadHeader, ReadData, Report, OstExpires, ModeFollows, Transmit,
      LoopBack
  <2>b. m \in bench /\ m \in Nodes /\ BenchProgress(m)
    BY <2>0, <2>a DEF BenchInv, TypeOK
  <2> USE <2>0, <2>a, <2>b, OtherNode DEF TypeOK, BenchProgress, Looping, prog, ctl,
        bufs, hist, SpiOk, SpiFails, InitFails, Go, Again
  <2>1. ASSUME NEW n \in Nodes, Reset(n) PROVE BenchProgress(m)'
    BY <2>1 DEF Reset, ChipReset
  <2>2. ASSUME NEW n \in Nodes, Delay(n) PROVE BenchProgress(m)'
    BY <2>2 DEF Delay
  <2>3. ASSUME NEW n \in Nodes, WriteCnf(n) PROVE BenchProgress(m)'
    BY <2>3 DEF WriteCnf
  <2>4. ASSUME NEW n \in Nodes, ReadCanctrl(n) PROVE BenchProgress(m)'
    BY <2>4 DEF ReadCanctrl
  <2>5. ASSUME NEW n \in Nodes, WriteCanctrl(n) PROVE BenchProgress(m)'
    BY <2>5 DEF WriteCanctrl
  <2>6. ASSUME NEW n \in Nodes, ReadCanstat(n) PROVE BenchProgress(m)'
    BY <2>6 DEF ReadCanstat, VerifyFails, Verified
  <2>7. ASSUME NEW n \in Nodes, SetOneShot(n) PROVE BenchProgress(m)'
    BY <2>7 DEF SetOneShot, OneShotBit
  <2>8. ASSUME NEW n \in Nodes, Load(n) PROVE BenchProgress(m)'
    BY <2>8 DEF Load, SendFailed, RoundOver
  <2>9. ASSUME NEW n \in Nodes, Rts(n) PROVE BenchProgress(m)'
    BY <2>9 DEF Rts, SendFailed
  <2>10. ASSUME NEW n \in Nodes, HasMessage(n) PROVE BenchProgress(m)'
    BY <2>10 DEF HasMessage, Message
  <2>11. ASSUME NEW n \in Nodes, Confirm(n) PROVE BenchProgress(m)'
    BY <2>11 DEF Confirm, Message
  <2>12. ASSUME NEW n \in Nodes, ReadHeader(n) PROVE BenchProgress(m)'
    BY <2>12 DEF ReadHeader, NextPoll
  <2>13. ASSUME NEW n \in Nodes, ReadData(n) PROVE BenchProgress(m)'
    BY <2>13 DEF ReadData, NextPoll
  <2>14. ASSUME NEW n \in Nodes, Report(n) PROVE BenchProgress(m)'
    BY <2>14 DEF Report
  <2>15. ASSUME NEW n \in Nodes, OstExpires(n) PROVE BenchProgress(m)'
    BY <2>15 DEF OstExpires
  <2>16. ASSUME NEW n \in Nodes, ModeFollows(n) PROVE BenchProgress(m)'
    BY <2>16 DEF ModeFollows
  <2>17. ASSUME NEW n \in Nodes, Transmit(n) PROVE BenchProgress(m)'
    <3>1. n # m /\ ~OnBus(m)
      BY <2>17 DEF Transmit, OnBus, InitProgress, Target
    <3>2. Other(n) = m
      BY <3>1 DEF Nodes, Other
    <3>3. UNCHANGED <<rxb, rx0if>> /\ txreq'[m] = txreq[m]
      BY <2>17, <3>1, <3>2 DEF Transmit, Attempted
    <3> QED
      BY <2>17, <3>3 DEF Transmit
  <2>18. ASSUME NEW n \in Nodes, LoopBack(n) PROVE BenchProgress(m)'
    BY <2>18 DEF LoopBack, Store
  <2>19. CASE UNCHANGED vars
    BY <2>19 DEF vars
  <2> QED
    BY <2>1, <2>2, <2>3, <2>4, <2>5, <2>6, <2>7, <2>8, <2>9, <2>10, <2>11,
       <2>12, <2>13, <2>14, <2>15, <2>16, <2>17, <2>18, <2>19
    DEF Next, Program, Chip, BoundReached
<1> QED
  BY <1>1, <1>2, NodeTypes, ConfigInvariant, SendInvariant, PTL DEF Spec

\* The loopback test passes in every round, as long as SPI works.
THEOREM BenchAlwaysPasses == Spec => []BenchPasses
<1>1. BenchInv => BenchPasses
  BY DEF BenchInv, BenchProgress, BenchPasses
<1> QED
  BY <1>1, BenchInvariant, PTL
=============================================================================
