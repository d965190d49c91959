-------------------------- MODULE DoorVerifyProofs --------------------------
(***************************************************************************)
(* Proofs about DoorVerify for every set of ids and codes, every set of key   *)
(* and clock states, and every bound on the attempts of one boot.             *)
(***************************************************************************)
EXTENDS DoorVerify, TLAPS

USE DEF core1, core0, request, response, world

(* While the bound on the attempts holds, the uint32_t nonce does not wrap.   *)
LEMMA NonceDoesNotWrap ==
    ASSUME NEW n \in 0..MaxAttempts, n < MaxAttempts
    PROVE  /\ NextNonce(n) = n + 1
           /\ NextNonce(n) \in 0..MaxAttempts
BY NonceAssumption DEF NextNonce

-----------------------------------------------------------------------------
(* The state after a boot satisfies the invariant, whatever the key files     *)
(* and the clock hold.                                                       *)
LEMMA BootHandshake ==
    ASSUME BootState, keys \in KeyStates, valid \in ClockStates
    PROVE  HandshakeInv
<1>. USE DEF BootState
<1>1. TypeOK
  <2>1. [id |-> 0, code |-> 0] \in Entry
    BY InputAssumption DEF Entry
  <2>2. keys \in [Ids -> KeyStatus] /\ valid \in SUBSET Entry
    BY KeyStatesAssumption, ClockStatesAssumption
  <2>3. 0 \in 0..MaxAttempts
    BY NonceAssumption
  <2>. QED BY <2>1, <2>2, <2>3, InputAssumption DEF TypeOK, Pc1, Pc0
<1>2. NonceOrder
  BY DEF NonceOrder, Writing, Judging
<1>3. PayloadGuarded
  BY DEF PayloadGuarded
<1>4. CopyFaithful
  BY DEF CopyFaithful, Judging
<1>5. VerdictIsMine
  BY DEF VerdictIsMine
<1>. QED BY <1>1, <1>2, <1>3, <1>4, <1>5 DEF HandshakeInv

(* Every step of either core, of the environment and a reset preserves it.    *)
LEMMA StepHandshake == HandshakeInv /\ [Next]_vars => HandshakeInv'
<1>. SUFFICES ASSUME HandshakeInv, [Next]_vars
              PROVE  HandshakeInv'
  OBVIOUS
<1>. USE DEF HandshakeInv
<1>1. CASE Submit
  <2>1. nextSeq' = nextSeq + 1 /\ nextSeq' \in 0..MaxAttempts
    BY <1>1, NonceDoesNotWrap DEF Submit, TypeOK
  <2>2. TypeOK'
    BY <1>1, <2>1 DEF Submit, TypeOK, Pc1, Entry
  <2>3. NonceOrder'
    BY <1>1, <2>1 DEF Submit, TypeOK, NonceOrder, Writing, Judging
  <2>4. PayloadGuarded'
    BY <1>1, <2>1 DEF Submit, PayloadGuarded
  <2>5. CopyFaithful'
    BY <1>1, <2>1 DEF Submit, TypeOK, CopyFaithful, NonceOrder, Writing
  <2>6. VerdictIsMine'
    BY <1>1 DEF Submit, VerdictIsMine
  <2>. QED BY <2>2, <2>3, <2>4, <2>5, <2>6
<1>2. CASE WriteRequestCode
  <2>1. TypeOK'
    BY <1>2 DEF WriteRequestCode, TypeOK, Pc1, Entry
  <2>2. NonceOrder'
    BY <1>2 DEF WriteRequestCode, NonceOrder, Writing, Judging
  <2>3. PayloadGuarded' /\ CopyFaithful' /\ VerdictIsMine'
    BY <1>2 DEF WriteRequestCode, PayloadGuarded, CopyFaithful, VerdictIsMine
  <2>. QED BY <2>1, <2>2, <2>3
<1>3. CASE WriteRequestSeq
  <2>1. TypeOK'
    BY <1>3 DEF WriteRequestSeq, TypeOK, Pc1
  <2>2. NonceOrder'
    BY <1>3 DEF WriteRequestSeq, TypeOK, NonceOrder, Writing, Judging
  <2>3. PayloadGuarded' /\ CopyFaithful' /\ VerdictIsMine'
    BY <1>3 DEF WriteRequestSeq, PayloadGuarded, CopyFaithful, VerdictIsMine
  <2>. QED BY <2>1, <2>2, <2>3
<1>4. CASE DeadlinePasses
  <2>1. TypeOK'
    BY <1>4 DEF DeadlinePasses, TypeOK, Pc1
  <2>2. NonceOrder' /\ PayloadGuarded'
    BY <1>4 DEF DeadlinePasses, TypeOK, NonceOrder, PayloadGuarded, Writing,
         Judging
  <2>3. CopyFaithful' /\ VerdictIsMine'
    BY <1>4 DEF DeadlinePasses, TypeOK, NonceOrder, PayloadGuarded,
         CopyFaithful, VerdictIsMine, Writing, Judging
  <2>. QED BY <2>1, <2>2, <2>3
<1>5. CASE PollResponse
  <2>1. TypeOK'
    BY <1>5 DEF PollResponse, TypeOK, Pc1
  <2>2. NonceOrder' /\ PayloadGuarded'
    BY <1>5 DEF PollResponse, TypeOK, NonceOrder, PayloadGuarded, Writing,
         Judging
  <2>3. CopyFaithful' /\ VerdictIsMine'
    BY <1>5 DEF PollResponse, TypeOK, NonceOrder, PayloadGuarded, CopyFaithful,
         VerdictIsMine, Writing, Judging
  <2>. QED BY <2>1, <2>2, <2>3
<1>6. CASE GiveUp
  <2>1. TypeOK'
    BY <1>6 DEF GiveUp, TypeOK, Pc1
  <2>2. NonceOrder' /\ PayloadGuarded'
    BY <1>6 DEF GiveUp, TypeOK, NonceOrder, PayloadGuarded, Writing, Judging
  <2>3. CopyFaithful' /\ VerdictIsMine'
    BY <1>6 DEF GiveUp, TypeOK, NonceOrder, PayloadGuarded, CopyFaithful,
         VerdictIsMine, Writing, Judging
  <2>. QED BY <2>1, <2>2, <2>3
<1>7. CASE PollAgain
  <2>1. TypeOK'
    BY <1>7 DEF PollAgain, TypeOK, Pc1
  <2>2. NonceOrder' /\ PayloadGuarded'
    BY <1>7 DEF PollAgain, TypeOK, NonceOrder, PayloadGuarded, Writing, Judging
  <2>3. CopyFaithful' /\ VerdictIsMine'
    BY <1>7 DEF PollAgain, TypeOK, NonceOrder, PayloadGuarded, CopyFaithful,
         VerdictIsMine, Writing, Judging
  <2>. QED BY <2>1, <2>2, <2>3
<1>8. CASE ReadVerdict
  <2>1. TypeOK'
    BY <1>8 DEF ReadVerdict, TypeOK, Pc1
  <2>2. NonceOrder' /\ PayloadGuarded'
    BY <1>8 DEF ReadVerdict, TypeOK, NonceOrder, PayloadGuarded, Writing,
         Judging
  <2>3. CopyFaithful' /\ VerdictIsMine'
    BY <1>8 DEF ReadVerdict, TypeOK, NonceOrder, PayloadGuarded, CopyFaithful,
         VerdictIsMine, Writing, Judging
  <2>. QED BY <2>1, <2>2, <2>3
<1>9. CASE LatchOn
  <2>1. TypeOK'
    BY <1>9 DEF LatchOn, TypeOK, Pc1
  <2>2. NonceOrder' /\ PayloadGuarded'
    BY <1>9 DEF LatchOn, TypeOK, NonceOrder, PayloadGuarded, Writing, Judging
  <2>3. CopyFaithful' /\ VerdictIsMine'
    BY <1>9 DEF LatchOn, TypeOK, NonceOrder, PayloadGuarded, CopyFaithful,
         VerdictIsMine, Writing, Judging
  <2>. QED BY <2>1, <2>2, <2>3
<1>10. CASE LatchOff
  <2>1. TypeOK'
    BY <1>10 DEF LatchOff, TypeOK, Pc1
  <2>2. NonceOrder' /\ PayloadGuarded'
    BY <1>10 DEF LatchOff, TypeOK, NonceOrder, PayloadGuarded, Writing, Judging
  <2>3. CopyFaithful' /\ VerdictIsMine'
    BY <1>10 DEF LatchOff, TypeOK, NonceOrder, PayloadGuarded, CopyFaithful,
         VerdictIsMine, Writing, Judging
  <2>. QED BY <2>1, <2>2, <2>3
<1>11. CASE BootDone
  <2>1. TypeOK'
    BY <1>11 DEF BootDone, TypeOK, Pc0
  <2>2. NonceOrder' /\ PayloadGuarded'
    BY <1>11 DEF BootDone, TypeOK, NonceOrder, PayloadGuarded, Writing, Judging
  <2>3. CopyFaithful' /\ VerdictIsMine'
    BY <1>11 DEF BootDone, TypeOK, NonceOrder, PayloadGuarded, CopyFaithful,
         VerdictIsMine, Writing, Judging
  <2>. QED BY <2>1, <2>2, <2>3
<1>12. CASE NothingPending
  <2>1. TypeOK'
    BY <1>12 DEF NothingPending, TypeOK, Pc0
  <2>2. NonceOrder' /\ PayloadGuarded'
    BY <1>12 DEF NothingPending, TypeOK, NonceOrder, PayloadGuarded, Writing,
         Judging
  <2>3. CopyFaithful' /\ VerdictIsMine'
    BY <1>12 DEF NothingPending, TypeOK, NonceOrder, PayloadGuarded,
         CopyFaithful, VerdictIsMine, Writing, Judging
  <2>. QED BY <2>1, <2>2, <2>3
<1>13. CASE ReadRequestSeq
  <2>1. TypeOK'
    BY <1>13 DEF ReadRequestSeq, TypeOK, Pc0
  <2>2. NonceOrder' /\ PayloadGuarded'
    BY <1>13 DEF ReadRequestSeq, TypeOK, NonceOrder, PayloadGuarded, Writing,
         Judging
  <2>3. CopyFaithful' /\ VerdictIsMine'
    BY <1>13 DEF ReadRequestSeq, TypeOK, NonceOrder, PayloadGuarded,
         CopyFaithful, VerdictIsMine, Writing, Judging
  <2>. QED BY <2>1, <2>2, <2>3
<1>14. CASE ReadRequestId
  <2>1. TypeOK'
    BY <1>14 DEF ReadRequestId, TypeOK, Pc0
  <2>2. NonceOrder' /\ PayloadGuarded'
    BY <1>14 DEF ReadRequestId, TypeOK, NonceOrder, PayloadGuarded, Writing,
         Judging
  <2>3. CopyFaithful' /\ VerdictIsMine'
    BY <1>14 DEF ReadRequestId, TypeOK, NonceOrder, PayloadGuarded,
         CopyFaithful, VerdictIsMine, Writing, Judging
  <2>. QED BY <2>1, <2>2, <2>3
<1>15. CASE ReadRequestCode
  <2>1. TypeOK'
    BY <1>15 DEF ReadRequestCode, TypeOK, Pc0
  <2>2. NonceOrder' /\ PayloadGuarded'
    BY <1>15 DEF ReadRequestCode, TypeOK, NonceOrder, PayloadGuarded, Writing,
         Judging
  <2>3. CopyFaithful' /\ VerdictIsMine'
    BY <1>15 DEF ReadRequestCode, TypeOK, NonceOrder, PayloadGuarded,
         CopyFaithful, VerdictIsMine, Writing, Judging
  <2>. QED BY <2>1, <2>2, <2>3
<1>16. CASE Lookup
  <2>1. TypeOK'
    BY <1>16 DEF Lookup, TypeOK, Pc0
  <2>2. NonceOrder' /\ PayloadGuarded'
    BY <1>16 DEF Lookup, TypeOK, NonceOrder, PayloadGuarded, Writing, Judging
  <2>3. CopyFaithful' /\ VerdictIsMine'
    BY <1>16 DEF Lookup, TypeOK, NonceOrder, PayloadGuarded, CopyFaithful,
         VerdictIsMine, Writing, Judging
  <2>. QED BY <2>1, <2>2, <2>3
<1>17. CASE CheckTotp
  <2>1. TypeOK'
    BY <1>17 DEF CheckTotp, TypeOK, Pc0
  <2>2. NonceOrder' /\ PayloadGuarded'
    BY <1>17 DEF CheckTotp, TypeOK, NonceOrder, PayloadGuarded, Writing, Judging
  <2>3. CopyFaithful' /\ VerdictIsMine'
    BY <1>17 DEF CheckTotp, TypeOK, NonceOrder, PayloadGuarded, CopyFaithful,
         VerdictIsMine, Writing, Judging
  <2>. QED BY <2>1, <2>2, <2>3
<1>18. CASE WriteGranted
  <2>1. TypeOK'
    BY <1>18 DEF WriteGranted, TypeOK, Pc0
  <2>2. NonceOrder' /\ PayloadGuarded'
    BY <1>18 DEF WriteGranted, TypeOK, NonceOrder, PayloadGuarded, Writing,
         Judging
  <2>3. CopyFaithful' /\ VerdictIsMine'
    BY <1>18 DEF WriteGranted, TypeOK, NonceOrder, PayloadGuarded,
         CopyFaithful, VerdictIsMine, Writing, Judging
  <2>. QED BY <2>1, <2>2, <2>3
<1>19. CASE WriteResponseSeq
  <2>1. TypeOK'
    BY <1>19 DEF WriteResponseSeq, TypeOK, Pc0
  <2>2. NonceOrder' /\ PayloadGuarded'
    BY <1>19 DEF WriteResponseSeq, TypeOK, NonceOrder, PayloadGuarded, Writing,
         Judging
  <2>3. CopyFaithful' /\ VerdictIsMine'
    BY <1>19 DEF WriteResponseSeq, TypeOK, NonceOrder, PayloadGuarded,
         CopyFaithful, VerdictIsMine, Writing, Judging
  <2>. QED BY <2>1, <2>2, <2>3
<1>20. CASE DutiesDone
  <2>1. TypeOK'
    BY <1>20 DEF DutiesDone, TypeOK, Pc0
  <2>2. NonceOrder' /\ PayloadGuarded'
    BY <1>20 DEF DutiesDone, TypeOK, NonceOrder, PayloadGuarded, Writing,
         Judging
  <2>3. CopyFaithful' /\ VerdictIsMine'
    BY <1>20 DEF DutiesDone, TypeOK, NonceOrder, PayloadGuarded, CopyFaithful,
         VerdictIsMine, Writing, Judging
  <2>. QED BY <2>1, <2>2, <2>3
<1>21. CASE EditKeys
  <2>1. TypeOK'
    BY <1>21, KeyStatesAssumption DEF EditKeys, TypeOK
  <2>2. NonceOrder' /\ PayloadGuarded' /\ CopyFaithful' /\ VerdictIsMine'
    BY <1>21 DEF EditKeys, NonceOrder, PayloadGuarded, CopyFaithful,
                 VerdictIsMine, Judging
  <2>. QED BY <2>1, <2>2
<1>22. CASE TestLatchOn
  <2>1. TypeOK'
    BY <1>22 DEF TestLatchOn, TypeOK, Pc0
  <2>2. NonceOrder' /\ PayloadGuarded'
    BY <1>22 DEF TestLatchOn, TypeOK, NonceOrder, PayloadGuarded, Writing,
         Judging
  <2>3. CopyFaithful' /\ VerdictIsMine'
    BY <1>22 DEF TestLatchOn, TypeOK, NonceOrder, PayloadGuarded, CopyFaithful,
         VerdictIsMine, Writing, Judging
  <2>. QED BY <2>1, <2>2, <2>3
<1>23. CASE TestLatchOff
  <2>1. TypeOK'
    BY <1>23 DEF TestLatchOff, TypeOK, Pc0
  <2>2. NonceOrder' /\ PayloadGuarded'
    BY <1>23 DEF TestLatchOff, TypeOK, NonceOrder, PayloadGuarded, Writing,
         Judging
  <2>3. CopyFaithful' /\ VerdictIsMine'
    BY <1>23 DEF TestLatchOff, TypeOK, NonceOrder, PayloadGuarded,
         CopyFaithful, VerdictIsMine, Writing, Judging
  <2>. QED BY <2>1, <2>2, <2>3
<1>24. CASE ClockMoves
  <2>1. TypeOK'
    BY <1>24, ClockStatesAssumption DEF ClockMoves, TypeOK
  <2>2. NonceOrder' /\ PayloadGuarded' /\ CopyFaithful' /\ VerdictIsMine'
    BY <1>24 DEF ClockMoves, NonceOrder, PayloadGuarded, CopyFaithful,
                 VerdictIsMine
  <2>. QED BY <2>1, <2>2
<1>25. CASE Reset
  <2>1. TypeOK'
    <3>1. [id |-> 0, code |-> 0] \in Entry
      BY InputAssumption DEF Entry
    <3>2. valid' \in SUBSET Entry /\ 0 \in 0..MaxAttempts
      BY <1>25, ClockStatesAssumption, NonceAssumption DEF Reset
    <3>. QED BY <1>25, <3>1, <3>2, InputAssumption DEF Reset, TypeOK, Pc1, Pc0
  <2>2. NonceOrder' /\ PayloadGuarded' /\ CopyFaithful' /\ VerdictIsMine'
    BY <1>25 DEF Reset, NonceOrder, PayloadGuarded, CopyFaithful,
                 VerdictIsMine, Writing, Judging
  <2>. QED BY <2>1, <2>2
<1>26. CASE UNCHANGED vars
  BY <1>26 DEF vars, TypeOK, NonceOrder, PayloadGuarded, CopyFaithful,
       VerdictIsMine
<1>. QED
  BY <1>1, <1>2, <1>3, <1>4, <1>5, <1>6, <1>7, <1>8, <1>9, <1>10, <1>11, <1>12,
       <1>13, <1>14, <1>15, <1>16, <1>17, <1>18, <1>19, <1>20, <1>21, <1>22,
       <1>23, <1>24, <1>25, <1>26
     DEF Next, Core1Step, Core0Step, HandleDoorVerify

(* TypeOK, the order of the nonces and the three payload facts hold in every
     *)
(* reachable state: no interleaving of the cores breaks the handshake.
     *)
THEOREM HandshakeSafe == Spec => []HandshakeInv
<1>1. Init => HandshakeInv
  BY BootHandshake DEF Init
<1>. QED BY <1>1, StepHandshake, PTL DEF Spec

(* The latch pin is high only while a core is inside latch_open.              *)
THEOREM LatchHeld == Spec => []LatchOnlyWhileHeld
<1>1. Init => LatchOnlyWhileHeld
  BY DEF Init, BootState, LatchOnlyWhileHeld
<1>2. HandshakeInv /\ LatchOnlyWhileHeld /\ [Next]_vars => LatchOnlyWhileHeld'
  <2>. SUFFICES ASSUME latch \in BOOLEAN, LatchOnlyWhileHeld, [Next]_vars
                PROVE  LatchOnlyWhileHeld'
    BY DEF HandshakeInv, TypeOK
  <2>. USE DEF LatchOnlyWhileHeld
  <2>1. CASE Submit \/ DeadlinePasses \/ Core1Step
    BY <2>1 DEF Submit, DeadlinePasses, Core1Step, WriteRequestCode,
                WriteRequestSeq, PollResponse, GiveUp, PollAgain, ReadVerdict,
                LatchOn, LatchOff
  <2>2. CASE BootDone \/ Core0Step \/ EditKeys \/ TestLatchOn
    BY <2>2 DEF BootDone, Core0Step, HandleDoorVerify, NothingPending,
                ReadRequestSeq, ReadRequestId, ReadRequestCode, Lookup,
                CheckTotp, WriteGranted, WriteResponseSeq, DutiesDone,
                EditKeys, TestLatchOn, TestLatchOff
  <2>3. CASE ClockMoves \/ Reset \/ UNCHANGED vars
    BY <2>3 DEF ClockMoves, Reset, vars
  <2>. QED BY <2>1, <2>2, <2>3 DEF Next
<1>. QED BY <1>1, <1>2, HandshakeSafe, PTL DEF Spec

-----------------------------------------------------------------------------
(* No step stores to the response while core 1 is about to read it.           *)
LEMMA ResponseWriters ==
    ASSUME HandshakeInv, [Next]_vars, ~Reset, pc1 = "rd_granted"
    PROVE  UNCHANGED response
<1>1. CASE WriteGranted \/ WriteResponseSeq
  BY <1>1 DEF WriteGranted, WriteResponseSeq, HandshakeInv, TypeOK, NonceOrder,
              VerdictIsMine, Judging, Writing
<1>2. CASE Submit \/ DeadlinePasses \/ Core1Step
  BY <1>2 DEF Submit, DeadlinePasses, Core1Step, WriteRequestCode,
              WriteRequestSeq, PollResponse, GiveUp, PollAgain, ReadVerdict,
              LatchOn, LatchOff
<1>3. CASE BootDone \/ EditKeys \/ TestLatchOn \/ ClockMoves \/ UNCHANGED vars
  BY <1>3 DEF BootDone, EditKeys, TestLatchOn, ClockMoves, vars
<1>4. CASE Core0Step /\ ~(WriteGranted \/ WriteResponseSeq)
  BY <1>4 DEF Core0Step, HandleDoorVerify, NothingPending, ReadRequestSeq,
              ReadRequestId, ReadRequestCode, Lookup, CheckTotp, DutiesDone,
              TestLatchOff
<1>. QED BY <1>1, <1>2, <1>3, <1>4 DEF Next

(* Only the two stores of core0_handle_door_verify end the steps at which an   *)
(* answer is written, and what they write is what core 0 copied.               *)
LEMMA AnswerStores ==
    ASSUME HandshakeInv, [Next]_vars, pc0 = "wr_seq", pc0' = "duties"
    PROVE  respSeq' = seq0
<1>1. CASE WriteResponseSeq
  BY <1>1 DEF WriteResponseSeq
<1>2. CASE Submit \/ DeadlinePasses \/ Core1Step
  BY <1>2 DEF Submit, DeadlinePasses, Core1Step, WriteRequestCode,
              WriteRequestSeq, PollResponse, GiveUp, PollAgain, ReadVerdict,
              LatchOn, LatchOff, core0
<1>3. CASE BootDone \/ EditKeys \/ TestLatchOn \/ ClockMoves \/ Reset
           \/ UNCHANGED vars
  BY <1>3 DEF BootDone, EditKeys, TestLatchOn, ClockMoves, Reset, vars, core0
<1>4. CASE Core0Step /\ ~WriteResponseSeq
  BY <1>4 DEF Core0Step, HandleDoorVerify, NothingPending, ReadRequestSeq,
              ReadRequestId, ReadRequestCode, Lookup, CheckTotp, WriteGranted,
              DutiesDone, TestLatchOff
<1>. QED BY <1>1, <1>2, <1>3, <1>4 DEF Next

(* Core 0 never writes the response while core 1 is about to read it.          *)
THEOREM VerdictStable == Spec => VerdictStableUnderReader
<1>1. HandshakeInv /\ [Next]_vars
        => [pc1 = "rd_granted" => UNCHANGED response \/ Reset]_vars
  BY ResponseWriters
<1>. QED BY <1>1, HandshakeSafe, PTL DEF Spec, VerdictStableUnderReader

(* No request is judged or answered twice: every store to the response, of    *)
(* the verdict or of the nonce, serves a request newer than the last answered.*)
THEOREM AnsweredOnce == Spec => SingleShot
<1>1. HandshakeInv /\ [Next]_vars
        => [/\ pc0 = "wr_granted" /\ pc0' = "wr_seq" => respSeq < seq0
            /\ pc0 = "wr_seq" /\ pc0' = "duties" => respSeq < respSeq']_vars
  <2>. SUFFICES ASSUME HandshakeInv, [Next]_vars
                PROVE  /\ pc0 = "wr_granted" => respSeq < seq0
                       /\ pc0 = "wr_seq" /\ pc0' = "duties"
                            => respSeq < respSeq'
    OBVIOUS
  <2>1. pc0 \in {"wr_granted", "wr_seq"} => respSeq < seq0
    BY DEF HandshakeInv, NonceOrder, Judging
  <2>2. pc0 = "wr_seq" /\ pc0' = "duties" => respSeq' = seq0
    BY AnswerStores
  <2>. QED BY <2>1, <2>2
<1>. QED BY <1>1, HandshakeSafe, PTL DEF Spec, SingleShot

-----------------------------------------------------------------------------
(* The refinement.                                                            *)

(* The boot state of the handshake is an initial state of the abstract door. *)
LEMMA InitRefines == Init => DA!Init
<1>1. [id |-> 0, code |-> 0] \in Entry
  BY InputAssumption DEF Entry
<1>. QED BY <1>1 DEF Init, BootState, DA!Init, AttemptPhase, AttemptVerdict

(* Every step of either core is a step of the abstract door or leaves it alone. *)
LEMMA StepRefines == HandshakeInv /\ [Next]_vars => [DA!Next]_(DA!vars)
<1>. SUFFICES ASSUME HandshakeInv, [Next]_vars
              PROVE  DA!Next \/ UNCHANGED DA!vars
  OBVIOUS
<1>. USE DEF HandshakeInv, AttemptPhase, AttemptVerdict, VerdictOf
(* A new attempt starts with no verdict: its nonce is ahead of everything.     *)
<1>1. ASSUME Submit PROVE DA!Submit
  <2>1. nextSeq' = nextSeq + 1
    BY <1>1, NonceDoesNotWrap DEF Submit, TypeOK
  <2>2. AttemptVerdict' = "none"
    BY <1>1, <2>1 DEF Submit, TypeOK, NonceOrder, Writing
  <2>. QED BY <1>1, <2>2 DEF Submit, DA!Submit
(* Publishing, polling and the deadline are invisible.                        *)
<1>2. ASSUME WriteRequestCode \/ WriteRequestSeq \/ DeadlinePasses
             \/ PollResponse \/ PollAgain
      PROVE  UNCHANGED DA!vars
  BY <1>2 DEF WriteRequestCode, WriteRequestSeq, DeadlinePasses, PollResponse,
              PollAgain, DA!vars
<1>3. ASSUME GiveUp \/ LatchOff PROVE DA!Finish
  BY <1>3 DEF GiveUp, LatchOff, DA!Finish
<1>4. ASSUME ReadVerdict PROVE DA!Finish \/ UNCHANGED DA!vars
  BY <1>4 DEF ReadVerdict, DA!Finish, DA!vars
<1>5. ASSUME LatchOn PROVE DA!Open
  BY <1>5 DEF LatchOn, DA!Open, VerdictIsMine
(* Core 0 reaches a verdict: on the current attempt it is the judgement ...    *)
<1>6. ASSUME Lookup PROVE DA!Judge \/ UNCHANGED DA!vars
  <2>1. CASE seq0 = nextSeq /\ pc1 # "keypad" /\ pc0' = "wr_granted"
    <3>1. respSeq # nextSeq
      BY <1>6, <2>1 DEF Lookup, TypeOK, NonceOrder, Judging
    <3>2. pc1 # "hold" /\ AttemptVerdict = "none"
      BY <1>6, <2>1, <3>1 DEF Lookup, VerdictIsMine
    <3>3. ~DA!Accepted(entry)
      BY <1>6, <2>1 DEF Lookup, CopyFaithful, DA!Accepted, Judging
    <3>4. AttemptVerdict' = "denied"
      BY <1>6, <2>1, <3>1 DEF Lookup
    <3>. QED BY <1>6, <2>1, <3>2, <3>3, <3>4 DEF Lookup, DA!Judge
  <2>2. CASE ~(seq0 = nextSeq /\ pc1 # "keypad" /\ pc0' = "wr_granted")
    BY <1>6, <2>2 DEF Lookup, DA!vars
  <2>. QED BY <2>1, <2>2
<1>7. ASSUME CheckTotp PROVE DA!Judge \/ UNCHANGED DA!vars
  <2>1. CASE seq0 = nextSeq /\ pc1 # "keypad"
    <3>1. respSeq # nextSeq
      BY <1>7, <2>1 DEF CheckTotp, TypeOK, NonceOrder, Judging
    <3>2. pc1 # "hold" /\ AttemptVerdict = "none"
      BY <1>7, <2>1, <3>1 DEF CheckTotp, VerdictIsMine
    <3>3. entry = [id |-> id0, code |-> code0]
      BY <1>7, <2>1 DEF CheckTotp, CopyFaithful, Judging, TypeOK, Entry
    <3>4. granted0' = DA!Accepted(entry)
      BY <1>7, <2>1, <3>3 DEF CheckTotp, CopyFaithful, DA!Accepted
    <3>5. AttemptVerdict' = IF DA!Accepted(entry) THEN "granted" ELSE "denied"
      BY <1>7, <2>1, <3>1, <3>4 DEF CheckTotp
    <3>. QED BY <1>7, <2>1, <3>2, <3>5 DEF CheckTotp, DA!Judge
  <2>2. CASE ~(seq0 = nextSeq /\ pc1 # "keypad")
    BY <1>7, <2>2 DEF CheckTotp, DA!vars
  <2>. QED BY <2>1, <2>2
(* ... and storing it in the mailbox changes nothing about it.                *)
<1>8. ASSUME WriteGranted PROVE UNCHANGED DA!vars
  <2>1. respSeq = nextSeq => pc1 \in Writing
    BY <1>8 DEF WriteGranted, TypeOK, NonceOrder, Judging
  <2>2. respSeq # nextSeq
    BY <2>1 DEF TypeOK, NonceOrder, Writing
  <2>. QED BY <1>8, <2>2 DEF WriteGranted, DA!vars
<1>9. ASSUME WriteResponseSeq PROVE UNCHANGED DA!vars
  <2>1. respSeq # nextSeq
    BY <1>9 DEF WriteResponseSeq, TypeOK, NonceOrder, Judging, Writing
  <2>. QED BY <1>9, <2>1 DEF WriteResponseSeq, VerdictIsMine, DA!vars
(* Copying the request, and the other duties, are invisible too.               *)
<1>10. ASSUME NothingPending \/ ReadRequestSeq
       PROVE  UNCHANGED DA!vars
  <2>1. seq0' = reqSeq /\ pc0 = "poll" /\ pc0' \in {"duties", "rd_id"}
    BY <1>10 DEF NothingPending, ReadRequestSeq
  <2>. QED BY <1>10, <2>1 DEF NothingPending, ReadRequestSeq, DA!vars
<1>11. ASSUME BootDone \/ ReadRequestId \/ ReadRequestCode \/ DutiesDone
              \/ TestLatchOn \/ TestLatchOff
       PROVE  UNCHANGED DA!vars
  BY <1>11 DEF BootDone, ReadRequestId, ReadRequestCode, DutiesDone,
               TestLatchOn, TestLatchOff, DA!vars
<1>12. ASSUME EditKeys \/ ClockMoves PROVE DA!Environment
  BY <1>12 DEF EditKeys, ClockMoves, DA!Environment
<1>13. ASSUME Reset PROVE DA!Reset
  <2>1. [id |-> 0, code |-> 0] \in Entry
    BY InputAssumption DEF Entry
  <2>. QED BY <1>13, <2>1 DEF Reset, DA!Reset
<1>14. ASSUME UNCHANGED vars PROVE UNCHANGED DA!vars
  BY <1>14 DEF vars, DA!vars
<1>. QED
  BY <1>1, <1>2, <1>3, <1>4, <1>5, <1>6, <1>7, <1>8, <1>9, <1>10, <1>11, <1>12,
     <1>13, <1>14
     DEF Next, Core1Step, Core0Step, HandleDoorVerify, DA!Next

(* Every behaviour of the two cores is a behaviour of DoorAccess: the latch is *)
(* driven for an attempt only if that attempt was judged, at one instant after *)
(* it was submitted, to name an enabled key and a code the clock accepted.     *)
THEOREM CoresImplementDoorAccess == Spec => ImplementsDoorAccess
<1>. QED BY InitRefines, StepRefines, HandshakeSafe, PTL
         DEF Spec, ImplementsDoorAccess, DA!Spec
=============================================================================
