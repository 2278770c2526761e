-------------------------- MODULE PmuOverflowProofs --------------------------
(***************************************************************************)
(* Theorems about PmuOverflow, for every word and any number of events.    *)
(***************************************************************************)
EXTENDS PmuOverflow, TLAPS

\* The products the prover has to know: one word more, and the quotient of a
\* multiple of the word and a rest.
LEMMA OneMore ==
    ASSUME NEW q \in Nat
    PROVE  Word * (q + 1) = Word * q + Word
  BY WordAssumption

LEMMA Quotient ==
    ASSUME NEW q \in Nat, NEW r \in 0 .. Word - 1
    PROVE  (Word * q + r) \div Word = q
  BY WordAssumption

\* What an update adds is a number, never negative.
LEMMA AdvanceIsNat ==
    ASSUME NEW value \in 0 .. Word - 1, NEW old \in 0 .. Word - 1
    PROVE  Advance(value, old) \in Nat
  BY WordAssumption DEF Advance

LEMMA TypeInit == Init => TypeOK
<1> SUFFICES ASSUME Init PROVE TypeOK
  OBVIOUS
<1>1. counting \in BOOLEAN /\ armed \in BOOLEAN
  BY Zenon DEF Init
<1>2. pc \in {"init", "running", "unloaded"} \union Exit
  BY DEF Init
<1>3. /\ cycles = 0 /\ old_cycles = 0 /\ reg = 0
      /\ total_cycles = 0 /\ overflows = 0 /\ sum = 0
      /\ events = 0 /\ begun = 0 /\ report = -1
      /\ counter \in 0 .. Word - 1
  BY DEF Init
<1> QED BY <1>1, <1>2, <1>3, WordAssumption DEF TypeOK

-----------------------------------------------------------------------------
\* No step of the timer or of the exit, in any order, takes a variable out of
\* its type: in particular no total becomes negative.
THEOREM TypeCorrect == SafetySpec => []TypeOK
<1>1. Init => TypeOK
  BY TypeInit
<1>2. TypeOK /\ [Next]_vars => TypeOK'
  <2> SUFFICES ASSUME TypeOK, [Next]_vars PROVE TypeOK'
    OBVIOUS
  <2> USE DEF TypeOK
  <2>1. CASE Start
    BY <2>1, WordAssumption DEF Start, exitVars
  <2>2. CASE Event
    BY <2>2, WordAssumption DEF Event, exitVars, totalVars
  <2>3. CASE Timer
    BY <2>3, AdvanceIsNat DEF Timer, exitVars, hardVars
  <2>4. CASE Remove
    BY <2>4 DEF Remove, Exit, exitVars, totalVars, hardVars
  <2>5. CASE ExitReads
    BY <2>5 DEF ExitReads, Exit, hardVars
  <2>6. CASE ExitAdds
    <3>1. PICK value \in {reg, cycles} :
              /\ sum' = total_cycles + Advance(value, old_cycles)
              /\ overflows' = overflows + (IF value < old_cycles THEN 1 ELSE 0)
      BY <2>6 DEF ExitAdds
    <3>2. sum' \in Nat /\ overflows' \in Nat
      BY <3>1, AdvanceIsNat
    <3> QED BY <2>6, <3>2 DEF ExitAdds, Exit, hardVars
  <2>7. CASE ExitStores
    BY <2>7 DEF ExitStores, Exit, exitVars, hardVars
  <2>8. CASE ExitKeeps
    BY <2>8 DEF ExitKeeps, Exit, exitVars, hardVars
  <2>9. CASE ExitPrints
    BY <2>9 DEF ExitPrints, Exit, totalVars, hardVars
  <2>10. CASE ExitDisables
    BY <2>10 DEF ExitDisables, Exit, exitVars, totalVars
  <2>11. CASE ExitDeletesTimer
    BY <2>11 DEF ExitDeletesTimer, exitVars, totalVars, hardVars
  <2>12. CASE UNCHANGED vars
    BY <2>12 DEF vars, exitVars, totalVars, hardVars
  <2> QED
    BY <2>1, <2>2, <2>3, <2>4, <2>5, <2>6, <2>7, <2>8, <2>9, <2>10, <2>11, <2>12
       DEF Next, Unload, Unloaded
<1> QED BY <1>1, <1>2, PTL DEF SafetySpec

-----------------------------------------------------------------------------
(* The inductive invariant. It speaks of whole words, not of remainders:   *)
(* the total is overflows words and the value read last, and the events    *)
(* are as many words, or one more when the counter has come round since.   *)

Fresh ==
    pc = "init" => /\ old_cycles = 0 /\ total_cycles = 0 /\ overflows = 0
                   /\ report = -1

InStep ==
    /\ total_cycles = Word * overflows + old_cycles
    /\ \/ counter >= old_cycles /\ events = Word * overflows + counter
       \/ counter < old_cycles /\ events = Word * overflows + Word + counter

CountInv == TypeOK /\ Fresh /\ (pc = "running" => InStep)

\* An update finds the events that have happened.
LEMMA UpdateIsExact ==
    ASSUME TypeOK, InStep
    PROVE  /\ total_cycles + Advance(counter, old_cycles) = events
           /\ events = Word * (overflows + (IF counter < old_cycles THEN 1 ELSE 0))
                           + counter
  <1>1. CASE counter >= old_cycles
    BY <1>1, WordAssumption DEF TypeOK, InStep, Advance
  <1>2. CASE counter < old_cycles
    BY <1>2, OneMore, WordAssumption DEF TypeOK, InStep, Advance
  <1> QED BY <1>1, <1>2 DEF TypeOK

\* An event, in the time between two updates, keeps the counter in step.
LEMMA EventKeepsStep ==
    ASSUME TypeOK, InStep, Event, events - total_cycles < Word - 1
    PROVE  InStep'
  <1>1. /\ counter' = IF counter + 1 < Word THEN counter + 1 ELSE 0
        /\ events' = events + 1
        /\ UNCHANGED <<old_cycles, total_cycles, overflows>>
    BY WordAssumption DEF Event, TypeOK, totalVars
  <1>2. Word * overflows \in Nat
    BY WordAssumption DEF TypeOK
  <1>3. CASE counter >= old_cycles
    BY <1>1, <1>2, <1>3, WordAssumption DEF TypeOK, InStep
  <1>4. CASE counter < old_cycles
    BY <1>1, <1>2, <1>4, WordAssumption DEF TypeOK, InStep
  <1> QED BY <1>3, <1>4 DEF TypeOK

\* In step, the total is the count of the last update.
LEMMA InStepIsExact ==
    ASSUME TypeOK, InStep
    PROVE  /\ total_cycles = events - ((counter - old_cycles) % Word)
           /\ overflows = total_cycles \div Word
  <1>1. CASE counter >= old_cycles
    <2>1. (counter - old_cycles) % Word = counter - old_cycles
      BY <1>1, WordAssumption DEF TypeOK
    <2> QED BY <1>1, <2>1, Quotient, WordAssumption DEF TypeOK, InStep
  <1>2. CASE counter < old_cycles
    <2>1. (counter - old_cycles) % Word = Word + counter - old_cycles
      BY <1>2, WordAssumption DEF TypeOK
    <2> QED BY <1>2, <2>1, Quotient, WordAssumption DEF TypeOK, InStep
  <1> QED BY <1>1, <1>2 DEF TypeOK

\* However often the counter comes round between the start and the removal of
\* the module, update_counters adds up every event and counts every overflow.
THEOREM CountsExactly == SafetySpec => []TotalIsExact
<1>1. Init => CountInv
  BY TypeInit DEF Init, CountInv, Fresh
<1>2. CountInv /\ TypeOK' /\ [Next]_vars => CountInv'
  <2> SUFFICES ASSUME CountInv, TypeOK', [Next]_vars
               PROVE  Fresh' /\ (pc' = "running" => InStep')
    BY DEF CountInv
  <2>1. CASE Start
    BY <2>1, WordAssumption DEF Start, CountInv, Fresh, InStep, TypeOK
  <2>2. CASE Event
    BY <2>2, EventKeepsStep DEF CountInv, Fresh, Event, totalVars, exitVars
  <2>3. CASE Timer
    <3>1. pc' # "init" /\ (pc' = "running" => pc = "running")
      BY <2>3 DEF Timer, Exit
    <3>2. ASSUME pc = "running" PROVE InStep'
      BY <2>3, <3>2, UpdateIsExact DEF CountInv, InStep, Timer, hardVars, TypeOK
    <3> QED BY <3>1, <3>2 DEF Fresh
  <2>4. CASE Remove \/ Unload
    BY <2>4 DEF Remove, Unload, ExitReads, ExitAdds, ExitStores, ExitKeeps,
                ExitPrints, ExitDisables, ExitDeletesTimer, Fresh
  <2>5. CASE UNCHANGED vars
    BY <2>5 DEF vars, totalVars, hardVars, exitVars, CountInv, Fresh, InStep
  <2> QED BY <2>1, <2>2, <2>3, <2>4, <2>5 DEF Next, Unloaded
<1>3. CountInv => TotalIsExact
  BY InStepIsExact DEF CountInv, TotalIsExact
<1> QED BY <1>1, <1>2, <1>3, TypeCorrect, PTL DEF SafetySpec

-----------------------------------------------------------------------------
(* The report. When the timer stays out of the exit, what the exit has in  *)
(* hand is at every step a count the counter had since the removal began.  *)

Within(n) == begun <= n /\ n <= events

ReportInv ==
    /\ pc \in {"running", "read"} => InStep
    /\ pc = "running" => report = -1
    /\ pc = "read" => begun <= events
    /\ pc = "add" => cycles = reg /\ Within(total_cycles + Advance(reg, old_cycles))
    /\ pc = "store" => Within(sum)
    /\ pc \in {"keep", "print"} => Within(total_cycles)
    /\ report >= 0 => Within(report)

ReportingInv == TypeOK /\ Fresh /\ ReportInv

\* The report is right if no timer expires while the module is being removed.
\* The hypothesis is needed: del_timer comes last in rasp_pi_pmu_exit, and the
\* run pmu_race shows what a timer before it does.
THEOREM ReportsTheCount ==
    ASSUME ~TimerInExit
    PROVE  SafetySpec => []ReportIsTheCount
<1>1. Init => ReportingInv
  BY TypeInit DEF Init, ReportingInv, ReportInv, Fresh
<1>2. ReportingInv /\ TypeOK' /\ [Next]_vars => ReportingInv'
  <2> SUFFICES ASSUME ReportingInv, TypeOK', [Next]_vars
               PROVE  Fresh' /\ ReportInv'
    BY DEF ReportingInv
  <2>1. CASE Start
    BY <2>1, WordAssumption
       DEF Start, exitVars, ReportingInv, ReportInv, Fresh, InStep, TypeOK, Within
  <2>2. CASE Event
    <3>1. /\ pc' = pc /\ events' = events + 1 /\ events \in Nat
          /\ UNCHANGED <<begun, reg, sum, report, cycles, old_cycles, total_cycles,
                         overflows>>
      BY <2>2 DEF Event, exitVars, totalVars, ReportingInv, TypeOK
    <3>2. pc \in {"running", "read"} => InStep'
      BY <2>2, EventKeepsStep DEF Event, ReportingInv, ReportInv
    <3>3. \A n \in Nat : Within(n) => Within(n)'
      BY <3>1 DEF Within, ReportingInv, TypeOK
    <3>4. total_cycles + Advance(reg, old_cycles) \in Nat
      BY AdvanceIsNat DEF ReportingInv, TypeOK
    <3>5. pc = "add" => cycles' = reg'
                /\ Within(total_cycles + Advance(reg, old_cycles))'
      BY <3>1, <3>3, <3>4 DEF ReportingInv, ReportInv, Within, Advance
    <3>6. pc = "read" => begun' <= events'
      BY <3>1 DEF ReportingInv, ReportInv, TypeOK
    <3> QED
      BY <3>1, <3>2, <3>3, <3>5, <3>6 DEF ReportingInv, ReportInv, Fresh, TypeOK, Within
  <2>3. CASE Timer
    <3>1. pc = "running" /\ pc' = pc /\ report' = report /\ events' = events
          /\ begun' = begun
      BY <2>3 DEF Timer, exitVars, hardVars
    <3>2. InStep'
      BY <2>3, <3>1, UpdateIsExact
         DEF ReportingInv, ReportInv, InStep, Timer, hardVars, TypeOK
    <3> QED BY <3>1, <3>2 DEF ReportingInv, ReportInv, Fresh, Within
  <2>4. CASE Remove
    BY <2>4 DEF Remove, exitVars, totalVars, hardVars, ReportingInv, ReportInv,
                Fresh, InStep, Within, TypeOK
  <2>5. CASE ExitReads
    <3>1. total_cycles + Advance(counter, old_cycles) = events
      BY <2>5, UpdateIsExact DEF ExitReads, ReportingInv, ReportInv
    <3> QED BY <2>5, <3>1 DEF ExitReads, hardVars, ReportingInv, ReportInv, Fresh,
                              Within, Advance, TypeOK
  <2>6. CASE ExitAdds
    <3>1. PICK value \in {reg, cycles} : sum' = total_cycles + Advance(value, old_cycles)
      BY <2>6 DEF ExitAdds
    <3>2. Within(sum)'
      BY <2>6, <3>1 DEF ExitAdds, hardVars, ReportingInv, ReportInv, Within
    <3>3. /\ pc' = "store" /\ report' = report
          /\ begun' = begun /\ events' = events
      BY <2>6 DEF ExitAdds, hardVars
    <3>4. Fresh' /\ (report' >= 0 => Within(report)')
      BY <3>3 DEF ReportingInv, ReportInv, Fresh, Within
    <3> QED BY ONLY <3>2, <3>3, <3>4 DEF ReportInv
  <2>7. CASE ExitStores
    BY <2>7 DEF ExitStores, exitVars, hardVars, ReportingInv, ReportInv, Fresh, Within
  <2>8. CASE ExitKeeps
    BY <2>8 DEF ExitKeeps, exitVars, hardVars, ReportingInv, ReportInv, Fresh, Within
  <2>9. CASE ExitPrints
    BY <2>9 DEF ExitPrints, totalVars, hardVars, ReportingInv, ReportInv, Fresh, Within
  <2>10. CASE ExitDisables \/ ExitDeletesTimer
    BY <2>10 DEF ExitDisables, ExitDeletesTimer, exitVars, totalVars, hardVars,
                 ReportingInv, ReportInv, Fresh, Within
  <2>11. CASE UNCHANGED vars
    BY <2>11 DEF vars, exitVars, totalVars, hardVars, ReportingInv, ReportInv, Fresh,
                 InStep, Within, Advance
  <2> QED
    BY <2>1, <2>2, <2>3, <2>4, <2>5, <2>6, <2>7, <2>8, <2>9, <2>10, <2>11
       DEF Next, Unload, Unloaded
<1>3. ReportingInv => ReportIsTheCount
  BY DEF ReportingInv, ReportInv, ReportIsTheCount, Within
<1> QED BY <1>1, <1>2, <1>3, TypeCorrect, PTL DEF SafetySpec

-----------------------------------------------------------------------------
Silent ==
    /\ pc \in {"delete", "unloaded"} => ~counting
    /\ pc = "unloaded" => ~armed

\* However the timer and the exit interleave, a module that is gone has left
\* neither a pending timer nor a counter that counts.
THEOREM LeavesNothingBehind == SafetySpec => []NoTimerOutlivesModule
<1>1. Init => Silent
  BY Zenon DEF Init, Silent
<1>2. Silent /\ [Next]_vars => Silent'
  <2> SUFFICES ASSUME Silent, [Next]_vars PROVE Silent'
    OBVIOUS
  <2>1. CASE Start \/ Remove
    BY <2>1 DEF Start, Remove, Silent
  <2>2. CASE Event \/ Timer
    BY <2>2 DEF Event, Timer, Exit, hardVars, Silent
  <2>3. CASE Unload
    BY <2>3 DEF Unload, ExitReads, ExitAdds, ExitStores, ExitKeeps, ExitPrints,
                ExitDisables, ExitDeletesTimer, hardVars, Silent
  <2>4. CASE UNCHANGED vars
    BY <2>4 DEF vars, hardVars, Silent
  <2> QED BY <2>1, <2>2, <2>3, <2>4 DEF Next, Unloaded
<1>3. Silent => NoTimerOutlivesModule
  BY DEF Silent, NoTimerOutlivesModule
<1> QED BY <1>1, <1>2, <1>3, PTL DEF SafetySpec
=============================================================================
