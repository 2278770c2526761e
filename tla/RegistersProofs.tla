--------------------------- MODULE RegistersProofs ---------------------------
(***************************************************************************)
(* Theorems about Registers, for any pairs of programs, any cores and any   *)
(* number of writes by the kernel.                                          *)
(***************************************************************************)
EXTENDS Registers, TLAPS

Word == [own : Bit, other : Bit]

\* A process is never past its last register, and the core after the last is never there.
Ranges ==
  /\ \A p \in Procs : k[p] \in 0..Last(job[p])
  /\ cores \subseteq 0..(LastCore - 1)

LEMMA LastInRange ==
  ASSUME NEW j \in Jobs
  PROVE  Last(j) \in 0..LastCore /\ (j.program \in Toggles => Last(j) = 1)
  BY RegistersAssumption DEF Jobs, Last, Prefetch, Toggles

LEMMA RegisterIsOne ==
  ASSUME NEW j \in Jobs, NEW n \in 0..Last(j)
  PROVE  Register(j, n) \in Registers
<1>1. n \in 0..LastCore
  BY LastInRange, RegistersAssumption
<1>2. CASE j.program \in Prefetch
  <2> DEFINE c == IF j.core = -1 THEN n ELSE j.core
  <2>1. c \in 0..LastCore
    BY <1>1, RegistersAssumption DEF Jobs
  <2>2. Register(j, n) = Msr(c)
    BY <1>2 DEF Register, Prefetch
  <2> QED BY <2>1, <2>2 DEF Registers
<1>3. CASE j.program \notin Prefetch /\ j.program = "rpirtscts"
  <2>1. PICK c \in {0, 1, 3} : Register(j, n) = Gpio(c)
    BY <1>3 DEF Register, GpioRegister
  <2> QED BY <2>1 DEF Registers
<1>4. CASE j.program \notin Prefetch /\ j.program # "rpirtscts"
  BY <1>4 DEF Register, Registers
<1> QED BY <1>2, <1>3, <1>4

LEMMA HereIsOne ==
  ASSUME TypeOK, Ranges, NEW p \in Procs
  PROVE  Here(p) \in Registers
  BY RegisterIsOne DEF TypeOK, Ranges, Here

LEMMA BitsAreBits ==
  ASSUME NEW j \in Jobs, NEW n \in 0..Last(j)
  PROVE  Bits(j, n) \in Bit
<1>1. j.program \in Toggles => n \in Bit
  BY LastInRange DEF Bit
<1> QED BY <1>1 DEF Bits, Bit

LEMMA NewValueIsWord ==
  ASSUME NEW j \in Jobs, NEW n \in 0..Last(j), NEW old \in Word
  PROVE  NewValue(j, n, old) \in Word
<1>1. Bits(j, n) \in Bit
  BY BitsAreBits
<1>2. CASE j.program = "nhm"
  BY <1>1, <1>2 DEF NewValue, Word, Bit
<1>3. CASE j.program # "nhm"
  <2>1. Field(j) \in {"own", "other"}
    BY DEF Field
  <2>2. [old EXCEPT ![Field(j)] = Bits(j, n)] \in Word
    BY <1>1, <2>1 DEF Word
  <2> QED BY <1>3, <2>2 DEF NewValue
<1> QED BY <1>2, <1>3

-----------------------------------------------------------------------------
Typed == TypeOK /\ Ranges

\* What the steps have in common keeps the types.
LEMMA VisitTyped ==
  ASSUME Typed, NEW p \in Procs, NextVisit(p)
  PROVE  /\ pc' \in [Procs -> Labels]
         /\ exit' \in [Procs -> {-1, 0, 1, 2, 3, 4, 127}]
         /\ k' \in [Procs -> 0..LastCore]
         /\ \A q \in Procs : k'[q] \in 0..Last(job[q])
<1>1. /\ pc \in [Procs -> Labels] /\ exit \in [Procs -> {-1, 0, 1, 2, 3, 4, 127}]
      /\ k \in [Procs -> 0..LastCore] /\ \A q \in Procs : job[q] \in Jobs /\ k[q] \in 0..Last(job[q])
  BY DEF Typed, TypeOK, Ranges
<1>2. \A q \in Procs : Last(job[q]) \in 0..LastCore
  BY <1>1, LastInRange
<1>3. k' = [k EXCEPT ![p] = IF @ = Last(job[p]) THEN @ ELSE @ + 1]
  BY DEF NextVisit
<1>4. \A q \in Procs : k'[q] \in 0..Last(job[q])
  <2>1. k'[p] \in 0..Last(job[p])
    BY <1>1, <1>2, <1>3, RegistersAssumption
  <2>2. \A q \in Procs : q # p => k'[q] = k[q]
    BY <1>1, <1>3
  <2> QED BY <1>1, <2>1, <2>2
<1>5. k' \in [Procs -> 0..LastCore]
  <2>1. \A q \in Procs : k'[q] \in 0..LastCore
    BY <1>2, <1>4, RegistersAssumption
  <2> QED BY <1>1, <1>3, <2>1
<1>6. CASE k[p] = Last(job[p])
  BY <1>1, <1>4, <1>5, <1>6 DEF NextVisit, Goto, Exit, Labels
<1>7. CASE k[p] # Last(job[p])
  BY <1>1, <1>4, <1>5, <1>7 DEF NextVisit, Goto, Exit, Labels
<1> QED BY <1>6, <1>7

LEMMA ReadsTyped ==
  ASSUME Typed, NEW p \in Procs, Reads(p)
  PROVE  /\ pc' \in [Procs -> Labels] /\ tmp' \in [Procs -> Word]
         /\ stale' \subseteq Procs /\ UNCHANGED <<wrote, meant, raced>>
<1>1. reg[Here(p)] \in Word
  BY HereIsOne DEF Typed, TypeOK, Word
<1> QED BY <1>1 DEF Typed, TypeOK, Reads, Goto, Labels, Word

LEMMA WritesTyped ==
  ASSUME Typed, NEW p \in Procs, Writes(p)
  PROVE  /\ reg' \in [Registers -> Word] /\ meant' \in [Registers -> Word]
         /\ wrote' \in [Procs -> SUBSET Registers] /\ stale' \subseteq Procs
         /\ raced' \subseteq Registers
<1> DEFINE r == Here(p)
<1>1. r \in Registers
  BY HereIsOne DEF Typed
<1>2. job[p] \in Jobs /\ k[p] \in 0..Last(job[p]) /\ tmp[p] \in Word
  BY DEF Typed, TypeOK, Ranges, Word
<1>3. NewValue(job[p], k[p], tmp[p]) \in Word
  BY <1>2, NewValueIsWord
<1>4. meant \in [Registers -> Word]
  BY DEF Typed, TypeOK, Word
<1>5. [meant[r] EXCEPT ![Field(job[p])] = Bits(job[p], k[p])] \in Word
  <2>1. Field(job[p]) \in {"own", "other"} /\ Bits(job[p], k[p]) \in Bit
    BY <1>2, BitsAreBits DEF Field
  <2> QED BY <1>1, <1>4, <2>1 DEF Word
<1> HIDE DEF r
<1>6. meant' = [meant EXCEPT ![r] = [meant[r] EXCEPT ![Field(job[p])] = Bits(job[p], k[p])]]
  BY <1>1, <1>4 DEF Writes, r
<1>7. reg' = [reg EXCEPT ![r] = NewValue(job[p], k[p], tmp[p])] /\ reg \in [Registers -> Word]
  BY DEF Writes, r, Typed, TypeOK, Word
<1>8. wrote' = [wrote EXCEPT ![p] = @ \cup {r}] /\ wrote \in [Procs -> SUBSET Registers]
  BY DEF Writes, r, Typed, TypeOK
<1>9. stale' \subseteq Procs /\ raced' \subseteq Registers
  BY <1>1 DEF Writes, r, Typed, TypeOK
<1> QED BY <1>1, <1>3, <1>4, <1>5, <1>6, <1>7, <1>8, <1>9

LEMMA TypedInit == Init => Typed
<1> SUFFICES ASSUME Init PROVE Typed
  OBVIOUS
<1>1. PICK pair \in Pairs : job = [p \in Procs |-> pair[p]]
  BY DEF Init
<1>2. pair[1] \in Jobs /\ pair[2] \in Jobs
  BY RegistersAssumption
<1>3. job \in [Procs -> Jobs]
  BY <1>1, <1>2 DEF Procs
<1>4. \A p \in Procs : Last(job[p]) \in 0..LastCore
  BY <1>3, LastInRange
<1>5. Ranges
  BY <1>4, RegistersAssumption DEF Init, Ranges
<1>6. reg \in [Registers -> Word] /\ meant \in [Registers -> Word]
  BY DEF Init, Word, Bit
<1>7. TypeOK
  <2>1. pc \in [Procs -> Labels] /\ exit \in [Procs -> {-1, 0, 1, 2, 3, 4, 127}]
    BY DEF Init, Labels
  <2>2. k \in [Procs -> 0..LastCore] /\ cores \subseteq 0..LastCore /\ kernel \in 0..MaxKernel
    BY RegistersAssumption DEF Init
  <2>3. tmp \in [Procs -> Word] /\ saved \in [Procs -> {"old", "hardware"}] /\ termios = "old"
    BY DEF Init, Word, Bit
  <2>5. late \in [Procs -> SUBSET (0..LastCore)]
    BY DEF Init
  <2>4. wrote \in [Procs -> SUBSET Registers] /\ stale = {} /\ raced = {} /\ crossed = FALSE
    BY DEF Init
  <2> QED BY <1>3, <1>6, <2>1, <2>2, <2>3, <2>4, <2>5 DEF TypeOK, Word
<1> QED BY <1>5, <1>7 DEF Typed

Statuses == {-1, 0, 1, 2, 3, 4, 127}
Controlled == pc' \in [Procs -> Labels] /\ exit' \in [Procs -> Statuses]

LEMMA GotoTyped ==
  ASSUME Typed, NEW p \in Procs, NEW label \in Labels, Goto(p, label), UNCHANGED exit
  PROVE  Controlled
  BY DEF Typed, TypeOK, Goto, Controlled, Statuses

LEMMA ExitTyped ==
  ASSUME Typed, NEW p \in Procs, NEW status \in Statuses, Exit(p, status)
  PROVE  Controlled
  BY DEF Typed, TypeOK, Goto, Exit, Controlled, Statuses, Labels

\* What WriteMsr does: it writes and goes on, or ends with a status that is no success.
Refusal(p) ==
  /\ \E status \in Statuses \ {0} : Exit(p, status)
  /\ UNCHANGED <<k, reg, history>>

LEMMA WriteMsrIs ==
  ASSUME NEW p \in Procs, WriteMsr(p)
  PROVE  \/ /\ Online(p) /\ Writes(p)
            /\ \/ job[p].program = "tool" /\ NextVisit(p)
               \/ job[p].program # "tool" /\ Goto(p, "verify") /\ UNCHANGED k /\ UNCHANGED exit
         \/ Refusal(p)
<1> DEFINE refusals == Refused(p)
              \cup (IF job[p].program # "tool" THEN {} ELSE IF Online(p) THEN {3} ELSE {2, 3})
<1>1. refusals \subseteq Statuses \ {0}
  BY DEF Refused, Statuses
<1> HIDE DEF refusals
<1>2. \/ /\ Online(p) /\ Writes(p)
         /\ IF job[p].program = "tool" THEN NextVisit(p)
            ELSE Goto(p, "verify") /\ UNCHANGED <<k, exit>>
      \/ (\E status \in refusals : Exit(p, status)) /\ UNCHANGED <<k, reg, history>>
  BY Zenon DEF WriteMsr, refusals
<1>3. CASE (\E status \in refusals : Exit(p, status)) /\ UNCHANGED <<k, reg, history>>
  BY <1>1, <1>3, Zenon DEF Refusal
<1>4. CASE /\ Online(p) /\ Writes(p)
           /\ IF job[p].program = "tool" THEN NextVisit(p)
              ELSE Goto(p, "verify") /\ UNCHANGED <<k, exit>>
  <2>1. CASE job[p].program = "tool"
    BY <1>4, <2>1, Zenon
  <2>2. CASE job[p].program # "tool"
    <3>1. Goto(p, "verify") /\ UNCHANGED <<k, exit>>
      BY <1>4, <2>2, Zenon
    <3>2. UNCHANGED k /\ UNCHANGED exit
      BY <3>1
    <3> QED BY <1>4, <2>2, <3>1, <3>2, Zenon
  <2> QED BY <2>1, <2>2
<1> QED BY <1>2, <1>3, <1>4

LEMMA TypedStep ==
  ASSUME Typed, NEW p \in Procs, Step(p)
  PROVE  Typed'
<1> USE DEF Typed, TypeOK, Ranges, Word
<1>0. {"open", "read", "write", "sleep", "verify"} \subseteq Labels /\ {0, 1, 2, 3, 4, 127, -1} \subseteq Statuses
  BY DEF Labels, Statuses
<1>1. CASE StartPrefetch(p)
  <2>1. Controlled
    BY <1>1, <1>0, GotoTyped, ExitTyped DEF StartPrefetch
  <2> QED BY <1>1, <2>1 DEF StartPrefetch, Controlled, Statuses, history
<1>2. CASE OpenMsr(p)
  <2>1. Controlled
    BY <1>2, <1>0, GotoTyped, ExitTyped DEF OpenMsr
  <2> QED BY <1>2, <2>1 DEF OpenMsr, Controlled, Statuses, history
<1>3. CASE OpenCore2(p)
  <2>1. \/ Goto(p, "read") /\ UNCHANGED k /\ UNCHANGED exit
        \/ NextVisit(p)
        \/ \E status \in Statuses : Exit(p, status) /\ UNCHANGED k
    BY <1>3, <1>0, Zenon DEF OpenCore2
  <2>2. Controlled
    BY <2>1, <1>0, GotoTyped, ExitTyped, VisitTyped DEF Controlled, Statuses
  <2>3. k' \in [Procs -> 0..LastCore] /\ \A q \in Procs : k'[q] \in 0..Last(job[q])
    BY <2>1, VisitTyped
  <2> QED BY <1>3, <2>2, <2>3 DEF OpenCore2, Controlled, Statuses, history
<1>4. CASE ReadMsr(p)
  <2>1. CASE Reads(p) /\ UNCHANGED exit
    BY <1>4, <2>1, ReadsTyped DEF ReadMsr
  <2>2. CASE (\E status \in Refused(p) : Exit(p, status)) /\ UNCHANGED <<tmp, history>>
    <3>1. Controlled
      BY <2>2, <1>0, ExitTyped DEF Refused
    <3> QED BY <1>4, <2>2, <3>1 DEF ReadMsr, Controlled, Statuses, history
  <2> QED BY <1>4, <2>1, <2>2 DEF ReadMsr
<1>5. CASE WriteMsr(p)
  <2>1. CASE Writes(p) /\ (NextVisit(p) \/ (Goto(p, "verify") /\ UNCHANGED k /\ UNCHANGED exit))
    <3>1. Writes(p) /\ (NextVisit(p) \/ (Goto(p, "verify") /\ UNCHANGED k /\ UNCHANGED exit))
      BY <2>1
    <3>2. Controlled
      BY <3>1, <1>0, GotoTyped, VisitTyped DEF Controlled, Statuses
    <3>3. k' \in [Procs -> 0..LastCore] /\ \A q \in Procs : k'[q] \in 0..Last(job[q])
      BY <3>1, VisitTyped
    <3> QED BY <1>5, <3>1, <3>2, <3>3, WritesTyped DEF WriteMsr, Controlled, Statuses
  <2>2. CASE Refusal(p)
    <3>1. Controlled
      BY <2>2, ExitTyped DEF Refusal
    <3> QED BY <1>5, <2>2, <3>1 DEF WriteMsr, Refusal, Controlled, Statuses, history
  <2> QED BY <1>5, <2>1, <2>2, WriteMsrIs
<1>6. CASE Verify(p)
  <2>1. NextVisit(p) \/ (Exit(p, 127) /\ UNCHANGED k)
    BY <1>6, Zenon DEF Verify
  <2>2. Controlled
    BY <2>1, <1>0, ExitTyped, VisitTyped DEF Controlled, Statuses
  <2>3. k' \in [Procs -> 0..LastCore] /\ \A q \in Procs : k'[q] \in 0..Last(job[q])
    BY <2>1, VisitTyped
  <2> QED BY <1>6, <2>2, <2>3 DEF Verify, Controlled, Statuses, history
<1>7. CASE StartPins(p)
  <2>1. Controlled
    BY <1>7, <1>0, GotoTyped, ExitTyped DEF StartPins
  <2> QED BY <1>7, <2>1 DEF StartPins, Controlled, Statuses, history
<1>8. CASE ReadPins(p)
  BY <1>8, ReadsTyped DEF ReadPins
<1>9. CASE WritePins(p)
  BY <1>9, VisitTyped, WritesTyped DEF WritePins
<1>10. CASE StartLines(p)
  <2>1. Controlled
    BY <1>10, <1>0, GotoTyped, ExitTyped DEF StartLines
  <2>2. saved' \in [Procs -> {"old", "hardware"}] /\ termios' \in {"old", "hardware"}
    BY <1>10 DEF StartLines
  <2>3. crossed' \in BOOLEAN
    BY <1>10, Zenon DEF StartLines
  <2> QED BY <1>10, <2>1, <2>2, <2>3 DEF StartLines, Controlled, Statuses, history
<1>11. CASE GetLines(p)
  <2>1. CASE Reads(p)
    BY <1>11, <2>1, ReadsTyped DEF GetLines
  <2>2. CASE Goto(p, "sleep") /\ UNCHANGED <<tmp, history>>
    <3>1. Controlled
      BY <1>11, <1>0, <2>2, GotoTyped DEF GetLines
    <3> QED BY <1>11, <2>2, <3>1 DEF GetLines, Controlled, Statuses, history
  <2> QED BY <1>11, <2>1, <2>2 DEF GetLines
<1>12. CASE SetLines(p)
  <2>1. Controlled
    BY <1>12, <1>0, GotoTyped DEF SetLines
  <2> QED BY <1>12, <2>1, WritesTyped DEF SetLines, Controlled, Statuses, history
<1>13. CASE SleepToggle(p)
  BY <1>13, VisitTyped DEF SleepToggle, history
<1>14. CASE SleepPulse(p)
  BY <1>14, LastInRange, RegistersAssumption DEF SleepPulse, Is, Toggles, Goto, Labels, history
<1> QED
  BY <1>1, <1>2, <1>3, <1>4, <1>5, <1>6, <1>7, <1>8, <1>9, <1>10, <1>11, <1>12, <1>13, <1>14 DEF Step

LEMMA TypedNext == Typed /\ [Next]_vars => Typed'
<1> SUFFICES ASSUME Typed, [Next]_vars PROVE Typed'
  OBVIOUS
<1> USE DEF Typed, TypeOK, Ranges
<1>1. ASSUME NEW p \in Procs, Step(p) PROVE Typed'
  BY <1>1, TypedStep
<1>2. ASSUME NEW p \in Procs, Kill(p) PROVE Typed'
  BY <1>2 DEF Kill, Goto, Labels, history
<1>3. CASE CoreOff
  BY <1>3 DEF CoreOff, history
<1>6. CASE CoreOn
  <2>1. PICK c \in 0..(LastCore - 1) :
           /\ cores' = cores \cup {c}
           /\ late' = [p \in Procs |->
                         IF c < k[p] \/ exit[p] = 0 THEN late[p] \cup {c} ELSE late[p]]
    BY <1>6 DEF CoreOn
  <2>2. c \in 0..LastCore /\ cores \subseteq 0..(LastCore - 1)
    BY RegistersAssumption
  <2>3. cores' \subseteq 0..(LastCore - 1) /\ cores' \subseteq 0..LastCore
    BY <2>1, <2>2, RegistersAssumption
  <2>4. late' \in [Procs -> SUBSET (0..LastCore)]
    BY <2>1, <2>2
  <2> QED BY <1>6, <2>3, <2>4 DEF CoreOn, history
<1>4. CASE KernelWrites
  <2>1. PICK r \in {Here(p) : p \in Procs} \ {Lines}, v \in Bit :
           reg' = [reg EXCEPT ![r].other = v] /\ meant' = [meant EXCEPT ![r].other = v]
    BY <1>4 DEF KernelWrites, Bit
  <2>2. r \in Registers
    BY HereIsOne
  <2>3. [reg[r] EXCEPT !.other = v] \in Word /\ [meant[r] EXCEPT !.other = v] \in Word
    BY <2>2 DEF Word
  <2>4. reg' \in [Registers -> Word] /\ meant' \in [Registers -> Word]
    BY <2>1, <2>2, <2>3 DEF Word
  <2>5. stale' \subseteq Procs /\ kernel' \in 0..MaxKernel
    BY <1>4, RegistersAssumption DEF KernelWrites
  <2> QED BY <1>4, <2>4, <2>5 DEF KernelWrites, Word
<1>5. CASE UNCHANGED vars
  BY <1>5 DEF vars, history
<1> QED BY <1>1, <1>2, <1>3, <1>4, <1>5, <1>6 DEF Next, Done

\* Whatever is run at once, killed or taken off line, the variables keep their types: no
\* process goes past its last register.
THEOREM TypeCorrect == Spec => []TypeOK
<1>1. Typed => TypeOK
  BY DEF Typed
<1> QED BY <1>1, TypedInit, TypedNext, PTL DEF Spec
-----------------------------------------------------------------------------
\* What a step of process p does to what the others have, and to the registers: it reads its
\* register, or writes it, or leaves them all alone and is not about to write.
OthersKeep(p) ==
  \A q \in Procs \ {p} : pc'[q] = pc[q] /\ k'[q] = k[q] /\ tmp'[q] = tmp[q] /\ saved'[q] = saved[q]
                          /\ exit'[q] = exit[q]
StepReads(p) == Reads(p) /\ UNCHANGED <<k, reg>>
StepWrites(p) == pc[p] = "write" /\ Writes(p) /\ pc'[p] # "write" /\ UNCHANGED tmp
StepElse(p) == pc'[p] # "write" /\ UNCHANGED <<tmp, reg, history>>

LEMMA NextVisitMoves ==
  ASSUME Typed, NEW p \in Procs, NextVisit(p)
  PROVE  /\ pc'[p] \in {"open", "exit"}
         /\ \A q \in Procs \ {p} : pc'[q] = pc[q] /\ k'[q] = k[q] /\ exit'[q] = exit[q]
         /\ k[p] = Last(job[p]) => pc'[p] = "exit" /\ exit'[p] = 0 /\ k'[p] = k[p]
         /\ k[p] # Last(job[p]) => pc'[p] = "open" /\ exit'[p] = exit[p] /\ k'[p] = k[p] + 1
  BY DEF NextVisit, Goto, Exit, Typed, TypeOK

LEMMA StepKinds ==
  ASSUME Typed, NEW p \in Procs, Step(p)
  PROVE  /\ UNCHANGED <<job, cores, late, kernel>> /\ OthersKeep(p)
         /\ StepReads(p) \/ StepWrites(p) \/ StepElse(p)
<1> USE DEF Typed, TypeOK, OthersKeep, StepReads, StepWrites, StepElse
<1>1. CASE StartPrefetch(p)
  BY <1>1 DEF StartPrefetch, Goto, Exit
<1>2. CASE OpenMsr(p)
  BY <1>2 DEF OpenMsr, Goto, Exit
<1>3. CASE OpenCore2(p)
  BY <1>3, NextVisitMoves DEF OpenCore2, Goto, Exit
<1>4. CASE ReadMsr(p)
  BY <1>4 DEF ReadMsr, Reads, Goto, Exit
<1>5. CASE WriteMsr(p)
  BY <1>5, NextVisitMoves DEF WriteMsr, Is, Goto, Exit
<1>6. CASE Verify(p)
  BY <1>6, NextVisitMoves DEF Verify, Goto, Exit
<1>7. CASE StartPins(p)
  BY <1>7 DEF StartPins, Goto, Exit
<1>8. CASE ReadPins(p)
  BY <1>8 DEF ReadPins, Reads, Goto
<1>9. CASE WritePins(p)
  BY <1>9, NextVisitMoves DEF WritePins, Is
<1>10. CASE StartLines(p)
  BY <1>10 DEF StartLines, Goto, Exit
<1>11. CASE GetLines(p)
  BY <1>11 DEF GetLines, Reads, Goto
<1>12. CASE SetLines(p)
  BY <1>12 DEF SetLines, Is, Goto
<1>13. CASE SleepToggle(p)
  BY <1>13, NextVisitMoves DEF SleepToggle
<1>14. CASE SleepPulse(p)
  BY <1>14 DEF SleepPulse, Goto
<1> QED
  BY <1>1, <1>2, <1>3, <1>4, <1>5, <1>6, <1>7, <1>8, <1>9, <1>10, <1>11, <1>12, <1>13, <1>14 DEF Step

-----------------------------------------------------------------------------
\* A process about to write a register nobody wrote since it read it has what is in it.
Fresh == \A p \in Procs : pc[p] = "write" /\ p \notin stale => tmp[p] = reg[Here(p)]
Kept == Fresh /\ NoUpdateLost

LEMMA WritesKeep ==
  ASSUME Typed, Kept, NEW p \in Procs, StepWrites(p), OthersKeep(p), UNCHANGED job
  PROVE  Kept'
<1> DEFINE r == Here(p)
           f == Field(job[p])
           b == Bits(job[p], k[p])
<1>1. r \in Registers /\ f \in {"own", "other"} /\ job[p] \in Jobs
  BY HereIsOne DEF Typed, TypeOK, Field
<1>2. /\ reg' = [reg EXCEPT ![r] = NewValue(job[p], k[p], tmp[p])]
      /\ meant' = [meant EXCEPT ![r] = [meant[r] EXCEPT ![f] = b]]
      /\ reg \in [Registers -> Word] /\ meant \in [Registers -> Word]
  BY <1>1 DEF StepWrites, Writes, Typed, TypeOK, Word
<1>3. /\ \A q \in Procs : wrote[q] \subseteq wrote'[q]
      /\ r \in wrote'[p] /\ raced \subseteq raced' /\ (p \in stale => r \in raced')
  BY DEF StepWrites, Writes, Typed, TypeOK
<1>4. Fresh'
  <2> SUFFICES ASSUME NEW q \in Procs, pc'[q] = "write", q \notin stale'
               PROVE  tmp'[q] = reg'[Here(q)']
    BY DEF Fresh
  <2>1. q # p /\ pc[q] = "write" /\ tmp'[q] = tmp[q] /\ Here(q)' = Here(q)
    BY DEF StepWrites, OthersKeep, Here
  <2>2. Here(q) # r /\ q \notin stale
    BY <2>1 DEF StepWrites, Writes
  <2>3. Here(q) \in Registers /\ tmp[q] = reg[Here(q)]
    BY <2>1, <2>2, HereIsOne DEF Kept, Fresh, Typed
  <2> QED BY <1>2, <2>1, <2>2, <2>3
<1>5. NoUpdateLost'
  <2> SUFFICES ASSUME NEW s \in Registers, s \notin raced',
                      \A q \in Procs : s \in wrote'[q] => job[q].program # "nhm"
               PROVE  reg'[s] = meant'[s]
    BY DEF NoUpdateLost, StepWrites
  <2>1. reg[s] = meant[s]
    BY <1>3 DEF Kept, NoUpdateLost
  <2>2. CASE s = r
    <3>1. p \notin stale /\ job[p].program # "nhm"
      BY <1>3, <2>2
    <3>2. tmp[p] = reg[r]
      BY <3>1 DEF Kept, Fresh, StepWrites
    <3>3. NewValue(job[p], k[p], tmp[p]) = [reg[r] EXCEPT ![f] = b]
      BY <3>1, <3>2 DEF NewValue
    <3> HIDE DEF r, f, b
    <3> QED BY <1>1, <1>2, <2>1, <2>2, <3>3
  <2>3. CASE s # r
    BY <1>2, <2>1, <2>3
  <2> QED BY <2>2, <2>3
<1> QED BY <1>4, <1>5 DEF Kept

LEMMA KeptNext == Typed /\ Kept /\ [Next]_vars => Kept'
<1> SUFFICES ASSUME Typed, Kept, [Next]_vars PROVE Kept'
  OBVIOUS
<1>1. ASSUME NEW p \in Procs, Step(p) PROVE Kept'
  <2>1. UNCHANGED job /\ OthersKeep(p)
    BY <1>1, StepKinds
  <2>2. CASE StepReads(p)
    <3>1. /\ tmp' = [tmp EXCEPT ![p] = reg[Here(p)]] /\ stale' = stale \ {p}
          /\ UNCHANGED <<k, reg, wrote, meant, raced>>
      BY <2>2 DEF StepReads, Reads
    <3>2. \A q \in Procs : Here(q)' = Here(q)
      BY <2>1, <3>1 DEF Here
    <3>3. Fresh'
      BY <2>1, <3>1, <3>2 DEF Kept, Fresh, OthersKeep, Typed, TypeOK
    <3>4. NoUpdateLost'
      BY <2>1, <3>1 DEF Kept, NoUpdateLost
    <3> QED BY <3>3, <3>4 DEF Kept
  <2>3. CASE StepWrites(p)
    BY <2>1, <2>3, WritesKeep
  <2>4. CASE StepElse(p)
    BY <2>1, <2>4 DEF StepElse, OthersKeep, Kept, Fresh, NoUpdateLost, Here, history
  <2> QED BY <1>1, <2>2, <2>3, <2>4, StepKinds
<1>2. ASSUME NEW p \in Procs, Kill(p) PROVE Kept'
  <2>1. \A q \in Procs : pc'[q] = "write" => pc[q] = "write"
    BY <1>2 DEF Kill, Goto, Typed, TypeOK
  <2> QED BY <1>2, <2>1 DEF Kill, Kept, Fresh, NoUpdateLost, Here, history
<1>3. CASE CoreOff
  BY <1>3 DEF CoreOff, Kept, Fresh, NoUpdateLost, Here, history
<1>6. CASE CoreOn
  BY <1>6 DEF CoreOn, Kept, Fresh, NoUpdateLost, Here, history
<1>4. CASE KernelWrites
  <2>1. PICK r \in {Here(p) : p \in Procs} \ {Lines}, v \in 0..1 :
           /\ reg' = [reg EXCEPT ![r].other = v] /\ meant' = [meant EXCEPT ![r].other = v]
           /\ stale' = stale \cup {q \in Procs : Here(q) = r /\ pc[q] = "write"}
    BY <1>4 DEF KernelWrites
  <2>2. UNCHANGED <<job, pc, k, tmp, wrote, raced>>
    BY <1>4 DEF KernelWrites
  <2>3. \A s \in Registers : s # r => reg'[s] = reg[s] /\ meant'[s] = meant[s]
    BY <2>1 DEF Typed, TypeOK
  <2>4. reg[r] = meant[r] => reg'[r] = meant'[r]
    BY <2>1, HereIsOne DEF Typed, TypeOK
  <2>5. Fresh'
    BY <2>1, <2>2, <2>3, HereIsOne DEF Kept, Fresh, Here, Typed
  <2>6. NoUpdateLost'
    BY <2>2, <2>3, <2>4 DEF Kept, NoUpdateLost
  <2> QED BY <2>5, <2>6 DEF Kept
<1>5. CASE UNCHANGED vars
  BY <1>5 DEF vars, history, Kept, Fresh, NoUpdateLost, Here
<1> QED BY <1>1, <1>2, <1>3, <1>4, <1>5, <1>6 DEF Next, Done

\* No update is lost: whatever two of these programs and the kernel do, every bit of a register
\* is as its owner wrote it last, unless a program wrote the register after somebody else had
\* since it read it (rpirtscts.c:218-226; intel-prefetch-disable.c:359-373; toggle_rts.c:31-62).
THEOREM UpdatesAreKept == Spec => []NoUpdateLost
<1>1. Init => Kept
  <2> SUFFICES ASSUME Init PROVE Kept
    OBVIOUS
  <2>1. \A p \in Procs : pc[p] # "write"
    BY DEF Init
  <2> QED BY <2>1 DEF Init, Kept, Fresh, NoUpdateLost
<1>2. Kept => NoUpdateLost
  BY DEF Kept
<1> QED BY <1>1, <1>2, KeptNext, TypedInit, TypedNext, PTL DEF Spec

-----------------------------------------------------------------------------
\* What a process that goes over all cores has behind it: intel-prefetch-disable verifies what
\* it wrote, a tool of core2-prefetch has written the cores before its own that are on line, but
\* those that came on line too late.
SweptOf(p) ==
  /\ pc[p] = "verify" => job[p].program \in {"nhm", "core2"} /\ Here(p) \in wrote[p]
  /\ job[p].program = "tool" /\ job[p].core = -1 =>
       /\ \A c \in cores \ late[p] : c < k[p] => Msr(c) \in wrote[p]
       /\ exit[p] = 0 => \A c \in cores \ late[p] : c < MAX_CPUS => Msr(c) \in wrote[p]
  /\ job[p].program \in {"nhm", "core2"} /\ job[p].core = -1 =>
       exit[p] # 0 /\ \A c \in 0..(k[p] - 1) : Msr(c) \in wrote[p]
Swept == \A p \in Procs : SweptOf(p)

LEMMA SweptIsReached == Swept => CoresReached
  BY DEF Swept, SweptOf, CoresReached, Prefetch

\* It stays behind it when it goes nowhere, but to an end that is no success.
LEMMA SweptStays ==
  ASSUME NEW p \in Procs, SweptOf(p), UNCHANGED job, k'[p] = k[p],
         cores' \subseteq cores, late'[p] = late[p],
         wrote[p] \subseteq wrote'[p], pc'[p] \in {pc[p]} \cup (Labels \ {"verify"}),
         exit'[p] = exit[p] \/ exit'[p] # 0
  PROVE  SweptOf(p)'
  BY DEF SweptOf, Here

LEMMA WroteGrows ==
  ASSUME Typed, NEW p \in Procs, StepReads(p) \/ StepWrites(p) \/ StepElse(p)
  PROVE  \A q \in Procs : wrote[q] \subseteq wrote'[q]
  BY DEF StepReads, StepWrites, StepElse, Reads, Writes, history, Typed, TypeOK

\* A tool goes past a core it has written or that is off line.
LEMMA ToolMoves ==
  ASSUME Typed, NEW p \in Procs, SweptOf(p), NextVisit(p), UNCHANGED <<job, cores, late>>,
         job[p].program = "tool", wrote[p] \subseteq wrote'[p],
         Online(p) => Here(p) \in wrote'[p]
  PROVE  SweptOf(p)'
<1>1. pc'[p] # "verify"
  BY NextVisitMoves
<1>2. CASE job[p].core # -1
  BY <1>1, <1>2 DEF SweptOf
<1>3. CASE job[p].core = -1
  <2>1. Here(p) = Msr(k[p]) /\ Last(job[p]) = MAX_CPUS - 1
    BY <1>3 DEF Here, Register, Last, Prefetch
  <2>2. k[p] \in cores => Msr(k[p]) \in wrote'[p]
    BY <2>1 DEF Online
  <2>3. k[p] \in Nat /\ MAX_CPUS \in Nat /\ cores \subseteq Nat
    BY RegistersAssumption DEF Typed, TypeOK
  <2>4. \A c \in cores \ late[p] : c =< k[p] => Msr(c) \in wrote'[p]
    BY <1>3, <2>2, <2>3 DEF SweptOf
  <2>5. CASE k[p] = Last(job[p])
    <3>1. k'[p] = k[p] /\ exit'[p] = 0
      BY <2>5, NextVisitMoves
    <3> QED BY <1>1, <2>1, <2>3, <2>4, <2>5, <3>1 DEF SweptOf
  <2>6. CASE k[p] # Last(job[p])
    <3>1. k'[p] = k[p] + 1 /\ exit'[p] = exit[p]
      BY <2>6, NextVisitMoves
    <3> QED BY <1>1, <1>3, <2>3, <2>4, <3>1 DEF SweptOf
  <2> QED BY <2>5, <2>6
<1> QED BY <1>2, <1>3

\* intel-prefetch-disable goes past a core it has verified, and LastCore is not there.
LEMMA VerifiedMoves ==
  ASSUME Typed, NEW p \in Procs, SweptOf(p), NextVisit(p), UNCHANGED <<job, cores, late>>,
         job[p].program \in {"nhm", "core2"}, UNCHANGED wrote, Online(p), pc[p] = "verify"
  PROVE  SweptOf(p)'
<1>1. pc'[p] # "verify"
  BY NextVisitMoves
<1>2. CASE job[p].core # -1
  BY <1>1, <1>2 DEF SweptOf
<1>3. CASE job[p].core = -1
  <2>1. Here(p) = Msr(k[p]) /\ Last(job[p]) = LastCore
    BY <1>3 DEF Here, Register, Last, Prefetch
  <2>2. k[p] \in cores /\ Msr(k[p]) \in wrote[p]
    BY <2>1 DEF Online, Msr, SweptOf
  <2>3. k[p] \in Nat /\ k[p] # LastCore
    BY <2>2, RegistersAssumption DEF Typed, TypeOK, Ranges
  <2>4. k'[p] = k[p] + 1 /\ exit'[p] = exit[p]
    BY <2>1, <2>3, NextVisitMoves
  <2>5. \A c \in 0..(k'[p] - 1) : c = k[p] \/ c \in 0..(k[p] - 1)
    BY <2>3, <2>4
  <2> QED BY <1>1, <1>3, <2>2, <2>4, <2>5 DEF SweptOf
<1> QED BY <1>2, <1>3

LEMMA SweptStep ==
  ASSUME Typed, Swept, NEW p \in Procs, Step(p)
  PROVE  Swept'
<1>1. /\ UNCHANGED <<job, cores, late>> /\ OthersKeep(p)
      /\ \A q \in Procs : wrote[q] \subseteq wrote'[q]
      /\ pc' \in [Procs -> Labels]
  BY StepKinds, WroteGrows, TypedStep DEF Typed, TypeOK
<1>2. \A q \in Procs \ {p} : SweptOf(q)'
  BY <1>1, SweptStays DEF Swept, OthersKeep
<1>3. SweptOf(p)
  BY DEF Swept
<1> SUFFICES SweptOf(p)'
  BY <1>2 DEF Swept
<1>4. ASSUME k'[p] = k[p], pc'[p] # "verify", exit'[p] = exit[p] \/ exit'[p] # 0
      PROVE  SweptOf(p)'
  BY <1>1, <1>3, <1>4, SweptStays
<1>5. ASSUME job[p].program \notin Prefetch, pc'[p] # "verify" PROVE SweptOf(p)'
  BY <1>1, <1>5 DEF SweptOf, Prefetch
<1> USE DEF Typed, TypeOK
<1>6. CASE StartPrefetch(p)
  BY <1>4, <1>6 DEF StartPrefetch, Goto, Exit
<1>7. CASE OpenMsr(p)
  BY <1>4, <1>7 DEF OpenMsr, Goto, Exit
<1>8. CASE OpenCore2(p)
  <2>1. CASE ~Online(p) /\ NextVisit(p)
    BY <1>1, <1>3, <1>8, <2>1, ToolMoves DEF OpenCore2, Is
  <2>2. CASE ~(~Online(p) /\ NextVisit(p))
    BY <1>4, <1>8, <2>2 DEF OpenCore2, Goto, Exit
  <2> QED BY <2>1, <2>2
<1>9. CASE ReadMsr(p)
  BY <1>4, <1>9 DEF ReadMsr, Reads, Goto, Exit, Refused
<1>10. CASE WriteMsr(p)
  <2>1. CASE Refusal(p)
    BY <1>4, <2>1 DEF Refusal, Goto, Exit
  <2>2. CASE Writes(p) /\ job[p].program = "tool" /\ NextVisit(p)
    <3>1. Writes(p) /\ NextVisit(p)
      BY <2>2
    <3>2. Here(p) \in wrote'[p]
      BY <3>1 DEF Writes
    <3> QED BY <1>1, <1>3, <2>2, <3>1, <3>2, ToolMoves
  <2>3. CASE Writes(p) /\ job[p].program # "tool" /\ UNCHANGED k /\ UNCHANGED exit
    <3>1. Writes(p) /\ UNCHANGED k /\ UNCHANGED exit /\ job[p].program \in {"nhm", "core2"}
      BY <1>10, <2>3 DEF WriteMsr, Is, Prefetch
    <3>2. Here(p) \in wrote'[p] /\ Here(p)' = Here(p)
      BY <1>1, <3>1 DEF Writes, Here
    <3> QED BY <1>1, <1>3, <3>1, <3>2 DEF SweptOf
  <2> QED BY <1>10, <2>1, <2>2, <2>3, WriteMsrIs
<1>11. CASE Verify(p)
  <2>1. job[p].program \in {"nhm", "core2"} /\ UNCHANGED wrote /\ pc[p] = "verify"
    BY <1>3, <1>11 DEF Verify, SweptOf, history
  <2>2. CASE Online(p) /\ NextVisit(p)
    BY <1>1, <1>3, <2>1, <2>2, VerifiedMoves
  <2>3. CASE Exit(p, 127) /\ UNCHANGED k
    BY <1>4, <2>3 DEF Goto, Exit
  <2> QED BY <1>11, <2>2, <2>3 DEF Verify
<1>12. CASE StartPins(p)
  BY <1>5, <1>12 DEF StartPins, Is, Prefetch, Goto, Exit
<1>13. CASE ReadPins(p)
  BY <1>5, <1>13 DEF ReadPins, Reads, Is, Prefetch, Goto
<1>14. CASE WritePins(p)
  BY <1>5, <1>14, NextVisitMoves DEF WritePins, Is, Prefetch
<1>15. CASE StartLines(p)
  BY <1>5, <1>15 DEF StartLines, Is, Prefetch, Toggles, Goto, Exit
<1>16. CASE GetLines(p)
  BY <1>5, <1>16 DEF GetLines, Reads, Is, Prefetch, Toggles, Goto
<1>17. CASE SetLines(p)
  BY <1>5, <1>17 DEF SetLines, Is, Prefetch, Toggles, Goto
<1>18. CASE SleepToggle(p)
  BY <1>5, <1>18, NextVisitMoves DEF SleepToggle, Is, Prefetch
<1>19. CASE SleepPulse(p)
  BY <1>5, <1>19 DEF SleepPulse, Is, Prefetch, Goto
<1> QED
  BY <1>6, <1>7, <1>8, <1>9, <1>10, <1>11, <1>12, <1>13, <1>14, <1>15, <1>16, <1>17, <1>18, <1>19 DEF Step

LEMMA SweptInit == Init => Swept
<1> SUFFICES ASSUME Init, NEW p \in Procs PROVE SweptOf(p)
  BY DEF Swept
<1>1. k[p] = 0 /\ exit[p] = -1 /\ pc[p] # "verify" /\ cores \subseteq 0..(LastCore - 1)
  BY RegistersAssumption DEF Init
<1>2. \A c \in cores : ~(c < k[p])
  BY <1>1, RegistersAssumption
<1> QED BY <1>1, <1>2 DEF SweptOf

LEMMA SweptNext == Typed /\ Swept /\ [Next]_vars => Swept'
<1> SUFFICES ASSUME Typed, Swept, [Next]_vars PROVE Swept'
  OBVIOUS
<1>1. ASSUME NEW p \in Procs, Step(p) PROVE Swept'
  BY <1>1, SweptStep
<1>2. ASSUME NEW p \in Procs, Kill(p) PROVE Swept'
  <2>1. \A q \in Procs : pc'[q] \in {pc[q]} \cup (Labels \ {"verify"})
    BY <1>2 DEF Kill, Goto, Labels, Typed, TypeOK
  <2>2. UNCHANGED <<job, k, exit, cores, late, wrote>>
    BY <1>2 DEF Kill, history
  <2> QED BY <2>1, <2>2, SweptStays DEF Swept
<1>3. CASE CoreOff
  BY <1>3, SweptStays DEF CoreOff, Swept, history
<1>6. CASE CoreOn
  <2> SUFFICES ASSUME NEW p \in Procs PROVE SweptOf(p)'
    BY DEF Swept
  <2>1. PICK c \in 0..(LastCore - 1) :
           /\ cores' = cores \cup {c}
           /\ late' = [q \in Procs |->
                         IF c < k[q] \/ exit[q] = 0 THEN late[q] \cup {c} ELSE late[q]]
    BY <1>6 DEF CoreOn
  <2>2. UNCHANGED <<job, pc, k, exit, wrote>>
    BY <1>6 DEF CoreOn, history
  <2>3. late[p] \subseteq late'[p] /\ (c < k[p] \/ exit[p] = 0 => c \in late'[p])
    BY <2>1
  <2>4. \A d \in cores' \ late'[p] : d \in cores \ late[p] \/ ~(d < k[p] \/ exit[p] = 0)
    BY <2>1, <2>3
  <2> QED BY <2>2, <2>4 DEF Swept, SweptOf, Here
<1>4. CASE KernelWrites
  BY <1>4, SweptStays DEF KernelWrites, Swept
<1>5. CASE UNCHANGED vars
  BY <1>5, SweptStays DEF vars, history, Swept
<1> QED BY <1>1, <1>2, <1>3, <1>4, <1>5, <1>6 DEF Next, Done

\* Asked for all cores, intel-prefetch-disable has changed every core before the one it is at,
\* and never ends well; a tool of core2-prefetch that ends well has changed every core on line
\* of those it knows, but those that came on line when it was past them
\* (intel-prefetch-disable.c:227-265; disable_core2_prefetch.c:20-105).
THEOREM EveryCoreIsReached == Spec => []CoresReached
  BY SweptInit, SweptIsReached, SweptNext, TypedInit, TypedNext, PTL DEF Spec

-----------------------------------------------------------------------------
\* While no two toggles had the port at once, one at most has it, with the settings kept that
\* were found, and the port has these settings when none does.
Taken ==
  ~crossed =>
    /\ \A p, q \in Procs : Holds(p) /\ Holds(q) => p = q
    /\ \A p \in Procs : Holds(p) => saved[p] = "old"
    /\ (\A p \in Procs : ~Holds(p)) => termios = "old"

\* A step that leaves the settings alone and after which p has the port only if it had it.
LEMMA TakenStays ==
  ASSUME Taken, NEW p \in Procs, UNCHANGED <<job, saved, crossed, termios>>,
         \A q \in Procs \ {p} : pc'[q] = pc[q], Holds(p)' <=> Holds(p)
  PROVE  Taken'
<1>1. \A q \in Procs : Holds(q)' <=> Holds(q)
  BY DEF Holds
<1> QED BY <1>1 DEF Taken

LEMMA TakenStep ==
  ASSUME Typed, Swept, Taken, NEW p \in Procs, Step(p)
  PROVE  Taken'
<1>1. UNCHANGED job /\ OthersKeep(p) /\ \A q \in Procs \ {p} : pc'[q] = pc[q] /\ saved'[q] = saved[q]
  BY StepKinds DEF OthersKeep
<1>2. \A q \in Procs \ {p} : Holds(q)' <=> Holds(q)
  BY <1>1 DEF Holds
<1>3. ASSUME job[p].program \notin Toggles, UNCHANGED <<saved, crossed, termios>> PROVE Taken'
  BY <1>1, <1>3, TakenStays DEF Holds
<1>4. CASE StartPrefetch(p)
  BY <1>3, <1>4 DEF StartPrefetch, Is, Prefetch, Toggles
<1>5. CASE OpenMsr(p)
  BY <1>3, <1>5 DEF OpenMsr, Is, Toggles
<1>6. CASE OpenCore2(p)
  BY <1>3, <1>6 DEF OpenCore2, Is, Toggles
<1>7. CASE ReadMsr(p)
  BY <1>3, <1>7 DEF ReadMsr, Is, Prefetch, Toggles
<1>8. CASE WriteMsr(p)
  BY <1>3, <1>8 DEF WriteMsr, Is, Prefetch, Toggles
<1>9. CASE Verify(p)
  <2>1. job[p].program \notin Toggles
    BY <1>9 DEF Verify, Swept, SweptOf, Toggles
  <2> QED BY <1>3, <1>9, <2>1 DEF Verify
<1>10. CASE StartPins(p)
  BY <1>3, <1>10 DEF StartPins, Is, Toggles
<1>11. CASE ReadPins(p)
  BY <1>3, <1>11 DEF ReadPins, Is, Toggles
<1>12. CASE WritePins(p)
  BY <1>3, <1>12 DEF WritePins, Is, Toggles
<1> USE DEF Typed, TypeOK
<1>13. CASE StartLines(p)
  <2>1. ~Holds(p)
    BY <1>13 DEF StartLines, Is, Holds
  <2>2. CASE Goto(p, "open")
    <3>1. saved'[p] = termios /\ (crossed' <=> crossed \/ \E q \in Procs : Holds(q)) /\ Holds(p)'
      BY <1>13, <2>2 DEF StartLines, Goto, Exit, Is, Holds
    <3>2. ~crossed' => ~crossed /\ (\A q \in Procs : ~Holds(q)) /\ termios = "old"
      BY <3>1 DEF Taken
    <3>3. ~crossed' => \A q \in Procs : Holds(q)' => q = p
      BY <1>2, <3>2
    <3>4. ~crossed' => saved'[p] = "old"
      BY <3>1, <3>2
    <3> QED BY <3>1, <3>3, <3>4 DEF Taken
  <2>3. CASE ~Goto(p, "open")
    BY <1>1, <1>13, <2>1, <2>3, TakenStays DEF StartLines, Goto, Exit, Holds
  <2> QED BY <2>2, <2>3
<1>14. CASE GetLines(p)
  BY <1>1, <1>14, TakenStays DEF GetLines, Reads, Is, Goto, Holds
<1>15. CASE SetLines(p)
  BY <1>1, <1>15, TakenStays DEF SetLines, Is, Goto, Holds
<1>16. CASE SleepToggle(p)
  <2>1. Last(job[p]) = 1 /\ Holds(p)
    BY <1>16, LastInRange DEF SleepToggle, Is, Holds, Toggles
  <2>2. CASE k[p] = 1
    <3>1. pc'[p] = "exit" /\ UNCHANGED saved
      BY <1>16, <2>1, <2>2, NextVisitMoves DEF SleepToggle
    <3>2. ~Holds(p)'
      BY <3>1 DEF Holds
    <3>3. crossed' \/ (termios' = saved[p] /\ (crossed' <=> crossed))
      BY <1>16, <2>2 DEF SleepToggle
    <3> QED BY <1>2, <2>1, <3>1, <3>2, <3>3 DEF Taken
  <2>3. CASE k[p] # 1
    <3>1. pc'[p] = "open" /\ UNCHANGED <<saved, crossed, termios>>
      BY <1>16, <2>1, <2>3, NextVisitMoves DEF SleepToggle
    <3> QED BY <1>1, <2>1, <3>1, TakenStays DEF Holds
  <2> QED BY <2>2, <2>3
<1>17. CASE SleepPulse(p)
  BY <1>1, <1>17, TakenStays DEF SleepPulse, Is, Goto, Holds
<1> QED
  BY <1>4, <1>5, <1>6, <1>7, <1>8, <1>9, <1>10, <1>11, <1>12, <1>13, <1>14, <1>15, <1>16, <1>17 DEF Step

LEMMA TakenNext == Typed /\ Swept /\ Taken /\ [Next]_vars => Taken'
<1> SUFFICES ASSUME Typed, Swept, Taken, [Next]_vars PROVE Taken'
  OBVIOUS
<1>1. ASSUME NEW p \in Procs, Step(p) PROVE Taken'
  BY <1>1, TakenStep
<1>2. ASSUME NEW p \in Procs, Kill(p) PROVE Taken'
  <2>1. UNCHANGED <<job, saved, termios>> /\ \A q \in Procs \ {p} : pc'[q] = pc[q]
    BY <1>2 DEF Kill, Goto, Typed, TypeOK
  <2>2. ~Holds(p)'
    BY <1>2 DEF Kill, Goto, Holds, Typed, TypeOK
  <2>3. crossed' <=> crossed \/ Holds(p)
    BY <1>2 DEF Kill
  <2>4. CASE Holds(p)
    BY <2>3, <2>4 DEF Taken
  <2>5. CASE ~Holds(p)
    <3>1. \A q \in Procs : Holds(q)' <=> Holds(q)
      BY <2>1, <2>2, <2>5 DEF Holds
    <3> QED BY <2>1, <2>3, <3>1 DEF Taken
  <2> QED BY <2>4, <2>5
<1>3. CASE CoreOff
  BY <1>3 DEF CoreOff, Taken, Holds
<1>6. CASE CoreOn
  BY <1>6 DEF CoreOn, Taken, Holds
<1>4. CASE KernelWrites
  BY <1>4 DEF KernelWrites, Taken, Holds
<1>5. CASE UNCHANGED vars
  BY <1>5 DEF vars, Taken, Holds
<1> QED BY <1>1, <1>2, <1>3, <1>4, <1>5, <1>6 DEF Next, Done

\* The toggles leave the port with the settings they found, unless one started while another had
\* it, was killed with it or could not set it back (toggle_rts.c:96-133).
THEOREM SettingsAreRestored == Spec => []SettingsRestored
<1>1. Init => Taken
  BY DEF Init, Taken, Holds
<1>2. Taken => SettingsRestored
  BY DEF Taken, SettingsRestored
<1> QED BY <1>1, <1>2, TakenNext, SweptInit, SweptNext, TypedInit, TypedNext, PTL DEF Spec
=============================================================================
