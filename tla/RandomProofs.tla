---------------------------- MODULE RandomProofs ----------------------------
(***************************************************************************)
(* For every number of threads, every set of lengths, every descriptor     *)
(* table and every pool: a call of dev_random's randombytes that returns   *)
(* success has filled its buffer, and no descriptor is leaked or shared.   *)
(* At the end, what holds of dev_urandom and bcryptgen.                    *)
(***************************************************************************)
EXTENDS DevRandom, TLAPS

\* The two goals lean on each other through ReadProgress: a call may only return
\* success from "close_success", where completed = len and filled is the prefix of
\* length completed.
IInv == TypeOK /\ ReadProgress /\ SuccessMeansFilled /\ DescriptorsAccounted

LEMMA InitIInv == Init => IInv
BY DeviceAssumption, PoolAssumption, SMTT(30)
   DEF Init, DeviceInit, IInv, TypeOK, DeviceTypeOK, PCs, ReadProgress,
       SuccessMeansFilled, DescriptorsAccounted, HasDevice, Fds,
       ED25519_ERROR, ED25519_SUCCESS

\* The types are kept by every step.
LEMMA TypeStep == TypeOK /\ ReadProgress /\ [Next]_vars => TypeOK'
<1> SUFFICES ASSUME TypeOK, ReadProgress, [Next]_vars PROVE TypeOK'
  OBVIOUS
<1> USE DeviceAssumption, PoolAssumption
    DEF TypeOK, DeviceTypeOK, PCs, Fds, Goto, ED25519_ERROR, ED25519_SUCCESS,
        deviceVars
<1>1. CASE Refill
  BY <1>1 DEF Refill
<1>2. ASSUME NEW c \in Callers, Call(c) PROVE TypeOK'
  BY <1>2 DEF Call, CallRandombytes
<1>3. ASSUME NEW c \in Callers, Open(c) PROVE TypeOK'
  BY <1>3 DEF Open, OpenDevice
<1>4. ASSUME NEW c \in Callers, OpenError(c) PROVE TypeOK'
  BY <1>4 DEF OpenError, OpenFails
<1>5. ASSUME NEW c \in Callers, ReadSome(c) PROVE TypeOK'
  BY <1>5 DEF ReadSome
<1>6. ASSUME NEW c \in Callers, ReadNothing(c) PROVE TypeOK'
  BY <1>6 DEF ReadNothing, vars
<1>7. ASSUME NEW c \in Callers, ReadError(c) PROVE TypeOK'
  BY <1>7 DEF ReadError, ReadFails
<1>8. ASSUME NEW c \in Callers, LoopEnds(c) PROVE TypeOK'
  BY <1>8 DEF LoopEnds
<1>9. ASSUME NEW c \in Callers, Close(c) PROVE TypeOK'
  BY <1>9 DEF Close, CloseAndReturn
<1>10. CASE UNCHANGED vars
  BY <1>10 DEF vars
<1> QED
  BY <1>1, <1>2, <1>3, <1>4, <1>5, <1>6, <1>7, <1>8, <1>9, <1>10 DEF Next, Step

\* The loop's invariant is kept by every step.
LEMMA ProgressStep == TypeOK /\ ReadProgress /\ [Next]_vars => ReadProgress'
<1> SUFFICES ASSUME TypeOK, ReadProgress, [Next]_vars PROVE ReadProgress'
  OBVIOUS
<1> USE DeviceAssumption
    DEF TypeOK, DeviceTypeOK, PCs, Goto, ReadProgress, HasDevice, deviceVars
<1>1. CASE Refill
  BY <1>1 DEF Refill
<1>2. ASSUME NEW c \in Callers, Call(c) PROVE ReadProgress'
  BY <1>2 DEF Call, CallRandombytes
<1>3. ASSUME NEW c \in Callers, Open(c) PROVE ReadProgress'
  BY <1>3 DEF Open, OpenDevice
<1>4. ASSUME NEW c \in Callers, OpenError(c) PROVE ReadProgress'
  BY <1>4 DEF OpenError, OpenFails
<1>5. ASSUME NEW c \in Callers, ReadSome(c) PROVE ReadProgress'
  <2> PICK result \in 1 .. pool :
        /\ result <= len[c] - completed[c]
        /\ filled' = [filled EXCEPT ![c] =
                        @ \cup completed[c] .. completed[c] + result - 1]
        /\ completed' = [completed EXCEPT ![c] = @ + result]
    BY <1>5 DEF ReadSome
  <2>1. pc' = pc /\ len' = len /\ pc[c] = "read"
    BY <1>5 DEF ReadSome
  <2>2. filled'[c] = 0 .. completed'[c] - 1
    <3>1. filled[c] = 0 .. completed[c] - 1
      BY <2>1
    <3>2. completed[c] \in Nat /\ result \in Nat
      OBVIOUS
    <3> QED BY <3>1, <3>2
  <2>3. completed'[c] <= len'[c]
    BY <2>1
  <2> QED BY <2>1, <2>2, <2>3
<1>6. ASSUME NEW c \in Callers, ReadNothing(c) PROVE ReadProgress'
  BY <1>6 DEF ReadNothing, vars
<1>7. ASSUME NEW c \in Callers, ReadError(c) PROVE ReadProgress'
  BY <1>7 DEF ReadError, ReadFails
<1>8. ASSUME NEW c \in Callers, LoopEnds(c) PROVE ReadProgress'
  BY <1>8 DEF LoopEnds
<1>9. ASSUME NEW c \in Callers, Close(c) PROVE ReadProgress'
  BY <1>9 DEF Close, CloseAndReturn
<1>10. CASE UNCHANGED vars
  BY <1>10 DEF vars
<1> QED
  BY <1>1, <1>2, <1>3, <1>4, <1>5, <1>6, <1>7, <1>8, <1>9, <1>10 DEF Next, Step

\* A call that returns success leaves from "close_success", its buffer full.
LEMMA SuccessStep ==
  TypeOK /\ ReadProgress /\ SuccessMeansFilled /\ [Next]_vars => SuccessMeansFilled'
<1> SUFFICES ASSUME TypeOK, ReadProgress, SuccessMeansFilled, [Next]_vars
             PROVE  SuccessMeansFilled'
  OBVIOUS
<1> USE DEF TypeOK, DeviceTypeOK, PCs, Goto, SuccessMeansFilled, deviceVars
<1>1. CASE Refill
  BY <1>1 DEF Refill
<1>2. ASSUME NEW c \in Callers, Call(c) PROVE SuccessMeansFilled'
  BY <1>2 DEF Call, CallRandombytes
<1>3. ASSUME NEW c \in Callers, Open(c) PROVE SuccessMeansFilled'
  BY <1>3 DEF Open, OpenDevice
<1>4. ASSUME NEW c \in Callers, OpenError(c) PROVE SuccessMeansFilled'
  BY <1>4 DEF OpenError, OpenFails
<1>5. ASSUME NEW c \in Callers, ReadSome(c) PROVE SuccessMeansFilled'
  BY <1>5 DEF ReadSome
<1>6. ASSUME NEW c \in Callers, ReadNothing(c) PROVE SuccessMeansFilled'
  BY <1>6 DEF ReadNothing, vars
<1>7. ASSUME NEW c \in Callers, ReadError(c) PROVE SuccessMeansFilled'
  BY <1>7 DEF ReadError, ReadFails
<1>8. ASSUME NEW c \in Callers, LoopEnds(c) PROVE SuccessMeansFilled'
  BY <1>8 DEF LoopEnds
<1>9. ASSUME NEW c \in Callers, Close(c) PROVE SuccessMeansFilled'
  <2>1. pc[c] = "close_success" => filled[c] = 0 .. len[c] - 1
    BY <1>9 DEF ReadProgress, HasDevice
  <2> QED
    BY <1>9, <2>1 DEF Close, CloseAndReturn, ED25519_ERROR, ED25519_SUCCESS
<1>10. CASE UNCHANGED vars
  BY <1>10 DEF vars
<1> QED
  BY <1>1, <1>2, <1>3, <1>4, <1>5, <1>6, <1>7, <1>8, <1>9, <1>10 DEF Next, Step

\* open adds a descriptor no call holds; close removes one only its call holds.
LEMMA DescriptorsStep ==
  TypeOK /\ DescriptorsAccounted /\ [Next]_vars => DescriptorsAccounted'
<1> SUFFICES ASSUME TypeOK, DescriptorsAccounted, [Next]_vars
             PROVE  DescriptorsAccounted'
  OBVIOUS
<1> USE DEF TypeOK, DeviceTypeOK, PCs, Goto, DescriptorsAccounted, HasDevice, deviceVars
<1>1. CASE Refill
  BY <1>1 DEF Refill
<1>2. ASSUME NEW c \in Callers, Call(c) PROVE DescriptorsAccounted'
  BY <1>2 DEF Call, CallRandombytes
<1>3. ASSUME NEW c \in Callers, Open(c) PROVE DescriptorsAccounted'
  BY <1>3 DEF Open, OpenDevice
<1>4. ASSUME NEW c \in Callers, OpenError(c) PROVE DescriptorsAccounted'
  BY <1>4 DEF OpenError, OpenFails
<1>5. ASSUME NEW c \in Callers, ReadSome(c) PROVE DescriptorsAccounted'
  BY <1>5 DEF ReadSome
<1>6. ASSUME NEW c \in Callers, ReadNothing(c) PROVE DescriptorsAccounted'
  BY <1>6 DEF ReadNothing, vars
<1>7. ASSUME NEW c \in Callers, ReadError(c) PROVE DescriptorsAccounted'
  BY <1>7 DEF ReadError, ReadFails
<1>8. ASSUME NEW c \in Callers, LoopEnds(c) PROVE DescriptorsAccounted'
  BY <1>8 DEF LoopEnds
<1>9. ASSUME NEW c \in Callers, Close(c) PROVE DescriptorsAccounted'
  BY <1>9 DEF Close, CloseAndReturn
<1>10. CASE UNCHANGED vars
  BY <1>10 DEF vars
<1> QED
  BY <1>1, <1>2, <1>3, <1>4, <1>5, <1>6, <1>7, <1>8, <1>9, <1>10 DEF Next, Step

\* The inductive invariant holds of every reachable state.
THEOREM Invariance == Spec => []IInv
<1>1. IInv /\ [Next]_vars => IInv'
  BY TypeStep, ProgressStep, SuccessStep, DescriptorsStep DEF IInv
<1> QED
  BY InitIInv, <1>1, PTL DEF Spec

\* Type correctness of dev_random's randombytes (random.c:7-26).
THEOREM TypeCorrect == Spec => []TypeOK
BY Invariance, PTL DEF IInv

\* A non-0 return of dev_random's randombytes means a full buffer (random.c:14-25).
THEOREM SuccessCorrect == Spec => []SuccessMeansFilled
BY Invariance, PTL DEF IInv

\* The loop reads into p + completed and never past len (random.c:14-21).
THEOREM ProgressCorrect == Spec => []ReadProgress
BY Invariance, PTL DEF IInv

\* Every descriptor open in the process belongs to exactly one call in progress:
\* random.c closes it on each of its return paths (random.c:8-11, 16-19, 23-25).
THEOREM DescriptorsCorrect == Spec => []DescriptorsAccounted
BY Invariance, PTL DEF IInv

\* random.c implements randombytes.h: each of its steps is a step of the contract
\* or leaves what the caller sees unchanged.
THEOREM ImplementsContract == Spec => ContractSpec
<1>1. Init => Contract!Init
  BY DEF Init, DeviceInit, Contract!Init, Contract!Failed, ED25519_ERROR
<1>2. IInv /\ [Next]_vars => [Contract!Next]_(Contract!vars)
  <2> SUFFICES ASSUME IInv, [Next]_vars PROVE [Contract!Next]_(Contract!vars)
    OBVIOUS
  <2> USE DEF IInv, TypeOK, DeviceTypeOK, PCs, Goto, Contract!vars, deviceVars
  <2>1. CASE Refill
    BY <2>1 DEF Refill
  <2>2. ASSUME NEW c \in Callers, Call(c) PROVE Contract!Next
    BY <2>2 DEF Call, CallRandombytes, Contract!Next, Contract!Call
  <2>3. ASSUME NEW c \in Callers, Open(c) PROVE UNCHANGED Contract!vars
    BY <2>3 DEF Open, OpenDevice
  <2>4. ASSUME NEW c \in Callers, OpenError(c) PROVE Contract!Next
    <3>0. {} \in SUBSET (0 .. len[c] - 1) /\ filled' = [filled EXCEPT ![c] = @ \cup {}]
      BY <2>4 DEF OpenError, OpenFails
    <3>1. Contract!Fail(c)
      BY <2>4, <3>0 DEF OpenError, OpenFails, Contract!Fail, Contract!Failed, ED25519_ERROR
    <3> QED BY <3>1 DEF Contract!Next
  <2>5. ASSUME NEW c \in Callers, ReadSome(c) PROVE Contract!Next
    <3> PICK result \in 1 .. pool :
          /\ result <= len[c] - completed[c]
          /\ filled' = [filled EXCEPT ![c] =
                          @ \cup completed[c] .. completed[c] + result - 1]
      BY <2>5 DEF ReadSome
    <3>0. completed[c] .. completed[c] + result - 1 \in SUBSET (0 .. len[c] - 1)
      <4>1. completed[c] \in Nat /\ result \in Nat /\ len[c] \in Nat
        OBVIOUS
      <4> QED BY <4>1
    <3>1. Contract!Write(c)
      BY <2>5, <3>0 DEF ReadSome, Contract!Write
    <3> QED BY <3>1 DEF Contract!Next
  <2>6. ASSUME NEW c \in Callers, ReadNothing(c) PROVE UNCHANGED Contract!vars
    BY <2>6 DEF ReadNothing, vars
  <2>7. ASSUME NEW c \in Callers, ReadError(c) PROVE UNCHANGED Contract!vars
    BY <2>7 DEF ReadError, ReadFails
  <2>8. ASSUME NEW c \in Callers, LoopEnds(c) PROVE UNCHANGED Contract!vars
    BY <2>8 DEF LoopEnds
  <2>9. ASSUME NEW c \in Callers, Close(c) PROVE Contract!Next
    <3>1. CASE pc[c] = "close_success"
      <4>1. filled[c] = 0 .. len[c] - 1
        BY <3>1 DEF ReadProgress, HasDevice
      <4>2. filled' = [filled EXCEPT ![c] = 0 .. len[c] - 1]
        BY <2>9, <4>1 DEF Close, CloseAndReturn
      <4>3. Contract!Succeed(c)
        BY <2>9, <3>1, <4>2
           DEF Close, CloseAndReturn, Contract!Succeed, ED25519_SUCCESS
      <4> QED BY <4>3 DEF Contract!Next
    <3>2. CASE pc[c] = "close_error"
      <4>0. {} \in SUBSET (0 .. len[c] - 1) /\ filled' = [filled EXCEPT ![c] = @ \cup {}]
        BY <2>9 DEF Close, CloseAndReturn
      <4>1. Contract!Fail(c)
        BY <2>9, <3>2, <4>0
           DEF Close, CloseAndReturn, Contract!Fail, Contract!Failed, ED25519_ERROR
      <4> QED BY <4>1 DEF Contract!Next
    <3> QED BY <2>9, <3>1, <3>2 DEF Close, CloseAndReturn
  <2>10. CASE UNCHANGED vars
    BY <2>10 DEF vars
  <2> QED
    BY <2>1, <2>2, <2>3, <2>4, <2>5, <2>6, <2>7, <2>8, <2>9, <2>10 DEF Next, Step
<1> QED
  BY Invariance, <1>1, <1>2, PTL DEF Spec, ContractSpec, Contract!Spec
-----------------------------------------------------------------------------
(***************************************************************************)
(* dev_urandom, over the same variables.                                   *)
(***************************************************************************)
Urandom == INSTANCE DevUrandom

UInv == DeviceTypeOK /\ DescriptorsAccounted

LEMMA UrandomTypeStep ==
  DeviceTypeOK /\ [Urandom!Next]_(Urandom!deviceVars) => DeviceTypeOK'
<1> SUFFICES ASSUME DeviceTypeOK, [Urandom!Next]_(Urandom!deviceVars)
             PROVE  DeviceTypeOK'
  OBVIOUS
<1> USE DeviceAssumption
    DEF DeviceTypeOK, PCs, Fds, ED25519_ERROR, ED25519_SUCCESS, Urandom!Fds, Urandom!Goto,
        Urandom!deviceVars, Urandom!ED25519_ERROR, Urandom!ED25519_SUCCESS
<1>1. ASSUME NEW c \in Callers, Urandom!Call(c) PROVE DeviceTypeOK'
  BY <1>1 DEF Urandom!Call, Urandom!CallRandombytes
<1>2. ASSUME NEW c \in Callers, Urandom!Open(c) PROVE DeviceTypeOK'
  BY <1>2 DEF Urandom!Open, Urandom!OpenDevice
<1>3. ASSUME NEW c \in Callers, Urandom!OpenError(c) PROVE DeviceTypeOK'
  BY <1>3 DEF Urandom!OpenError, Urandom!OpenFails
<1>4. ASSUME NEW c \in Callers, Urandom!Read(c) PROVE DeviceTypeOK'
  BY <1>4 DEF Urandom!Read
<1>5. ASSUME NEW c \in Callers, Urandom!ReadError(c) PROVE DeviceTypeOK'
  BY <1>5 DEF Urandom!ReadError, Urandom!ReadFails
<1>6. ASSUME NEW c \in Callers, Urandom!Close(c) PROVE DeviceTypeOK'
  BY <1>6 DEF Urandom!Close, Urandom!CloseAndReturn
<1>7. CASE UNCHANGED Urandom!deviceVars
  BY <1>7
<1> QED
  BY <1>1, <1>2, <1>3, <1>4, <1>5, <1>6, <1>7 DEF Urandom!Next, Urandom!Step

LEMMA UrandomDescriptorsStep ==
  DeviceTypeOK /\ DescriptorsAccounted /\ [Urandom!Next]_(Urandom!deviceVars) => DescriptorsAccounted'
<1> SUFFICES ASSUME DeviceTypeOK, DescriptorsAccounted, [Urandom!Next]_(Urandom!deviceVars)
             PROVE  DescriptorsAccounted'
  OBVIOUS
<1> USE DEF DeviceTypeOK, PCs, DescriptorsAccounted, HasDevice, Fds, Urandom!Fds, Urandom!Goto,
        Urandom!deviceVars
<1>1. ASSUME NEW c \in Callers, Urandom!Call(c) PROVE DescriptorsAccounted'
  BY <1>1 DEF Urandom!Call, Urandom!CallRandombytes
<1>2. ASSUME NEW c \in Callers, Urandom!Open(c) PROVE DescriptorsAccounted'
  BY <1>2 DEF Urandom!Open, Urandom!OpenDevice
<1>3. ASSUME NEW c \in Callers, Urandom!OpenError(c) PROVE DescriptorsAccounted'
  BY <1>3 DEF Urandom!OpenError, Urandom!OpenFails
<1>4. ASSUME NEW c \in Callers, Urandom!Read(c) PROVE DescriptorsAccounted'
  BY <1>4 DEF Urandom!Read
<1>5. ASSUME NEW c \in Callers, Urandom!ReadError(c) PROVE DescriptorsAccounted'
  BY <1>5 DEF Urandom!ReadError, Urandom!ReadFails
<1>6. ASSUME NEW c \in Callers, Urandom!Close(c) PROVE DescriptorsAccounted'
  BY <1>6 DEF Urandom!Close, Urandom!CloseAndReturn
<1>7. CASE UNCHANGED Urandom!deviceVars
  BY <1>7
<1> QED
  BY <1>1, <1>2, <1>3, <1>4, <1>5, <1>6, <1>7 DEF Urandom!Next, Urandom!Step

\* urandom.c closes on each of its return paths the descriptor its call opened, and no
\* other (urandom.c:7-10, 13-15, 18-19).
THEOREM UrandomDescriptors == Urandom!Spec => []DescriptorsAccounted
<1>1. Urandom!Init => UInv
  BY DeviceAssumption
     DEF Urandom!Init, Urandom!DeviceInit, UInv, DeviceTypeOK, PCs, DescriptorsAccounted,
         HasDevice, Fds, ED25519_ERROR, ED25519_SUCCESS, Urandom!ED25519_ERROR,
         Urandom!ED25519_SUCCESS
<1>2. UInv => DescriptorsAccounted
  BY DEF UInv
<1>3. UInv /\ [Urandom!Next]_(Urandom!deviceVars) => UInv'
  BY UrandomTypeStep, UrandomDescriptorsStep DEF UInv
<1> QED
  BY <1>1, <1>2, <1>3, PTL DEF Urandom!Spec
-----------------------------------------------------------------------------
(***************************************************************************)
(* bcryptgen.                                                              *)
(***************************************************************************)
Bcrypt == INSTANCE RandomLibrary WITH Backend <- "bcryptgen"

BInv ==
  /\ pc \in [Callers -> {"idle", "library"}]
  /\ ret \in [Callers -> {0, 1}]
  /\ filled \in [Callers -> SUBSET Int]
  /\ \A c \in Callers : pc[c] = "library" => filled[c] = {}

LEMMA BcryptStep == BInv /\ [Bcrypt!Next]_(Bcrypt!vars) => BInv'
<1> SUFFICES ASSUME BInv, [Bcrypt!Next]_(Bcrypt!vars) PROVE BInv'
  OBVIOUS
<1> USE DEF BInv
<1>1. ASSUME NEW c \in Callers, Bcrypt!Call(c) PROVE BInv'
  BY <1>1 DEF Bcrypt!Call
<1>2. ASSUME NEW c \in Callers, Bcrypt!LibrarySucceeds(c) PROVE BInv'
  BY <1>2 DEF Bcrypt!LibrarySucceeds, Bcrypt!Return, Bcrypt!ReturnOf, Bcrypt!SuccessCode
<1>3. ASSUME NEW c \in Callers, Bcrypt!LibraryFails(c) PROVE BInv'
  BY <1>3 DEF Bcrypt!LibraryFails, Bcrypt!Return, Bcrypt!ReturnOf, Bcrypt!FailureCodes
<1>4. CASE UNCHANGED Bcrypt!vars
  BY <1>4 DEF Bcrypt!vars
<1> QED
  BY <1>1, <1>2, <1>3, <1>4 DEF Bcrypt!Next

\* bcryptgen/randombytes.c implements randombytes.h: BCRYPT_SUCCESS makes a success code
\* of the status of every failure.  (rand_openssl does not: RAND_bytes may return -1.)
THEOREM BcryptImplementsContract == Bcrypt!Spec => Contract!Spec
<1>1. Bcrypt!Init => BInv /\ Contract!Init
  BY DEF Bcrypt!Init, BInv, Contract!Init, Contract!Failed
<1>2. BInv /\ [Bcrypt!Next]_(Bcrypt!vars) => [Contract!Next]_(Contract!vars)
  <2> SUFFICES ASSUME BInv, [Bcrypt!Next]_(Bcrypt!vars)
               PROVE  [Contract!Next]_(Contract!vars)
    OBVIOUS
  <2> USE DEF BInv
  <2>1. ASSUME NEW c \in Callers, Bcrypt!Call(c) PROVE Contract!Next
    BY <2>1 DEF Bcrypt!Call, Contract!Next, Contract!Call
  <2>2. ASSUME NEW c \in Callers, Bcrypt!LibrarySucceeds(c) PROVE Contract!Next
    <3>0. Bcrypt!SuccessCode = 0 /\ Bcrypt!ReturnOf(0) = 1
      BY DEF Bcrypt!SuccessCode, Bcrypt!ReturnOf
    <3>1. /\ [c1 \in Callers |-> pc[c1] # "idle"]' =
                [[c1 \in Callers |-> pc[c1] # "idle"] EXCEPT ![c] = FALSE]
          /\ pc[c] = "library"
      BY <2>2 DEF Bcrypt!LibrarySucceeds, Bcrypt!Return
    <3>2. /\ ret' = [ret EXCEPT ![c] = 1] /\ len' = len
          /\ filled' = [filled EXCEPT ![c] = 0 .. len[c] - 1]
      BY <2>2, <3>0 DEF Bcrypt!LibrarySucceeds, Bcrypt!Return
    <3>3. Contract!Succeed(c)
      BY <3>1, <3>2 DEF Contract!Succeed
    <3> QED BY <3>3 DEF Contract!Next
  <2>3. ASSUME NEW c \in Callers, Bcrypt!LibraryFails(c) PROVE Contract!Next
    <3>0. Bcrypt!FailureCodes = {-1} /\ Bcrypt!ReturnOf(-1) = 0
      BY DEF Bcrypt!FailureCodes, Bcrypt!ReturnOf
    <3>1. /\ [c1 \in Callers |-> pc[c1] # "idle"]' =
                [[c1 \in Callers |-> pc[c1] # "idle"] EXCEPT ![c] = FALSE]
          /\ pc[c] = "library"
      BY <2>3 DEF Bcrypt!LibraryFails, Bcrypt!Return
    <3>2. ret' = [ret EXCEPT ![c] = 0] /\ len' = len
      BY <2>3, <3>0 DEF Bcrypt!LibraryFails, Bcrypt!Return
    <3>3. PICK part \in SUBSET (0 .. len[c] - 1) : filled' = [filled EXCEPT ![c] = part]
      BY <2>3 DEF Bcrypt!LibraryFails
    <3>4. filled' = [filled EXCEPT ![c] = @ \cup part]
      BY <3>1, <3>3
    <3>5. Contract!Fail(c)
      BY <3>1, <3>2, <3>4 DEF Contract!Fail, Contract!Failed
    <3> QED BY <3>5 DEF Contract!Next
  <2>4. CASE UNCHANGED Bcrypt!vars
    BY <2>4 DEF Bcrypt!vars, Contract!vars
  <2> QED BY <2>1, <2>2, <2>3, <2>4 DEF Bcrypt!Next
<1> QED
  BY <1>1, <1>2, BcryptStep, PTL DEF Bcrypt!Spec, Contract!Spec
=============================================================================
