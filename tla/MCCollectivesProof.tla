-------------------------- MODULE MCCollectivesProof --------------------------
(* The theorems of CollectivesProof and ShmemSyncProof for the jobs of         *)
(* MCCollectives.                                                              *)
(*                                                                             *)
(* A job is an instance of a routine's module in MCCollectives and, with the   *)
(* same constants, an instance of its proofs here; the two have the same       *)
(* definitions (...IsTheSame, ...IsTheExchange).  A step of MCCollectives is   *)
(* one of its job, or changes nothing (Jobs), so that the invariants of the    *)
(* proofs, for the job that runs, are one of MCCollectives.                    *)
EXTENDS MCCollectives, TLAPS

NotOfJob == [n \in {} |-> 0]    \* a reduction has no blocks and no root
AsRing == INSTANCE CollectivesProof WITH
  PE_start <- 0, Stride <- 1, PE_size <- 3, nreduce <- 1, MIN_WRKDATA <- 1,
  nelems <- NotOfJob, PE_root <- NotOfJob, entered <- calls, left <- synced
AsPair == INSTANCE CollectivesProof WITH
  PE_start <- 1, Stride <- 2, PE_size <- 2, nreduce <- 5, MIN_WRKDATA <- 2,
  nelems <- NotOfJob, PE_root <- NotOfJob, entered <- calls, left <- synced
AsFour == INSTANCE CollectivesProof WITH
  PE_start <- 0, Stride <- 1, PE_size <- 4, nreduce <- 1, MIN_WRKDATA <- 1,
  nelems <- NotOfJob, PE_root <- NotOfJob, entered <- calls, left <- synced
AsRow == INSTANCE CollectivesProof WITH
  PE_start <- 1, Stride <- 2, PE_size <- 3, nreduce <- 1, MIN_WRKDATA <- 1,
  nelems <- [n \in 1..MaxCalls |-> [p \in {1, 3, 5} |-> (p + n + 1) % 3]],
  PE_root <- NotOfJob, entered <- calls, left <- synced
AsTree8 == INSTANCE CollectivesProof WITH
  PE_start <- 0, Stride <- 1, PE_size <- 8, PE_root <- <<1, 3>>,
  nreduce <- 1, MIN_WRKDATA <- 1, nelems <- NotOfJob, entered <- calls, left <- synced
AsTree4 == INSTANCE CollectivesProof WITH
  PE_start <- 1, Stride <- 2, PE_size <- 4, PE_root <- <<1, 3>>,
  nreduce <- 1, MIN_WRKDATA <- 1, nelems <- NotOfJob, entered <- calls, left <- synced

LEMMA RingIsTheSame ==
  /\ Ring!ReduceAssumption = AsRing!ReduceAssumption
  /\ Ring!Init = AsRing!Init
  /\ [Ring!Next]_(Ring!vars) = [AsRing!Next]_(AsRing!vars)
  /\ Ring!OnePieceAtATime = AsRing!OnePieceAtATime
  /\ Ring!PieceOfThisCall = AsRing!PieceOfThisCall
  /\ Ring!SumIsComplete = AsRing!SumIsComplete
BY DEF Ring!ReduceAssumption, AsRing!ReduceAssumption, Ring!Init, AsRing!Init,
       Ring!Sync!Init, AsRing!Sync!Init, Ring!Next, AsRing!Next, Ring!Step, AsRing!Step,
       Ring!Land, AsRing!Land, Ring!Finished, AsRing!Finished, Ring!Enter, AsRing!Enter,
       Ring!Sync!Enter, AsRing!Sync!Enter, Ring!SyncReturns, AsRing!SyncReturns,
       Ring!Sync!Leave, AsRing!Sync!Leave, Ring!Send, AsRing!Send, Ring!Combine,
       AsRing!Combine, Ring!Clear, AsRing!Clear, Ring!OpenLock, AsRing!OpenLock,
       Ring!Onward, AsRing!Onward, Ring!After, AsRing!After, Ring!Goto, AsRing!Goto,
       Ring!Piece, AsRing!Piece, Ring!nrem, AsRing!nrem, Ring!data, AsRing!data, Ring!ring,
       AsRing!ring, Ring!Member, AsRing!Member, Ring!First, AsRing!First, Ring!Next_to,
       AsRing!Next_to, Ring!Own, AsRing!Own, Ring!Open, AsRing!Open, Ring!Nobody,
       AsRing!Nobody, Ring!nwrk, AsRing!nwrk, Ring!Element, AsRing!Element, Ring!PE_end,
       AsRing!PE_end, Ring!PE_size_stride, AsRing!PE_size_stride, Ring!vars, AsRing!vars,
       Ring!OnePieceAtATime, AsRing!OnePieceAtATime, Ring!PieceOfThisCall,
       AsRing!PieceOfThisCall, Ring!SumIsComplete, AsRing!SumIsComplete, Ring!Cardinality,
       AsRing!Cardinality

LEMMA PairIsTheSame ==
  /\ Pair!ReduceAssumption = AsPair!ReduceAssumption
  /\ Pair!Init = AsPair!Init
  /\ [Pair!Next]_(Pair!vars) = [AsPair!Next]_(AsPair!vars)
  /\ Pair!OnePieceAtATime = AsPair!OnePieceAtATime
  /\ Pair!PieceOfThisCall = AsPair!PieceOfThisCall
  /\ Pair!SumIsComplete = AsPair!SumIsComplete
BY DEF Pair!ReduceAssumption, AsPair!ReduceAssumption, Pair!Init, AsPair!Init,
       Pair!Sync!Init, AsPair!Sync!Init, Pair!Next, AsPair!Next, Pair!Step, AsPair!Step,
       Pair!Land, AsPair!Land, Pair!Finished, AsPair!Finished, Pair!Enter, AsPair!Enter,
       Pair!Sync!Enter, AsPair!Sync!Enter, Pair!SyncReturns, AsPair!SyncReturns,
       Pair!Sync!Leave, AsPair!Sync!Leave, Pair!Send, AsPair!Send, Pair!Combine,
       AsPair!Combine, Pair!Clear, AsPair!Clear, Pair!OpenLock, AsPair!OpenLock,
       Pair!Onward, AsPair!Onward, Pair!After, AsPair!After, Pair!Goto, AsPair!Goto,
       Pair!Piece, AsPair!Piece, Pair!nrem, AsPair!nrem, Pair!data, AsPair!data, Pair!ring,
       AsPair!ring, Pair!Member, AsPair!Member, Pair!First, AsPair!First, Pair!Next_to,
       AsPair!Next_to, Pair!Own, AsPair!Own, Pair!Open, AsPair!Open, Pair!Nobody,
       AsPair!Nobody, Pair!nwrk, AsPair!nwrk, Pair!Element, AsPair!Element, Pair!PE_end,
       AsPair!PE_end, Pair!PE_size_stride, AsPair!PE_size_stride, Pair!vars, AsPair!vars,
       Pair!OnePieceAtATime, AsPair!OnePieceAtATime, Pair!PieceOfThisCall,
       AsPair!PieceOfThisCall, Pair!SumIsComplete, AsPair!SumIsComplete, Pair!Cardinality,
       AsPair!Cardinality

LEMMA FourIsTheSame ==
  /\ Four!ReduceAssumption = AsFour!ReduceAssumption
  /\ Four!Init = AsFour!Init
  /\ [Four!Next]_(Four!vars) = [AsFour!Next]_(AsFour!vars)
  /\ Four!OnePieceAtATime = AsFour!OnePieceAtATime
  /\ Four!PieceOfThisCall = AsFour!PieceOfThisCall
BY DEF Four!ReduceAssumption, AsFour!ReduceAssumption, Four!Init, AsFour!Init,
       Four!Sync!Init, AsFour!Sync!Init, Four!Next, AsFour!Next, Four!Step, AsFour!Step,
       Four!Land, AsFour!Land, Four!Finished, AsFour!Finished, Four!Enter, AsFour!Enter,
       Four!Sync!Enter, AsFour!Sync!Enter, Four!SyncReturns, AsFour!SyncReturns,
       Four!Sync!Leave, AsFour!Sync!Leave, Four!Send, AsFour!Send, Four!Combine,
       AsFour!Combine, Four!Clear, AsFour!Clear, Four!OpenLock, AsFour!OpenLock,
       Four!Onward, AsFour!Onward, Four!After, AsFour!After, Four!Goto, AsFour!Goto,
       Four!Piece, AsFour!Piece, Four!nrem, AsFour!nrem, Four!data, AsFour!data, Four!ring,
       AsFour!ring, Four!Member, AsFour!Member, Four!First, AsFour!First, Four!Next_to,
       AsFour!Next_to, Four!Own, AsFour!Own, Four!Open, AsFour!Open, Four!Nobody,
       AsFour!Nobody, Four!nwrk, AsFour!nwrk, Four!Element, AsFour!Element, Four!PE_end,
       AsFour!PE_end, Four!PE_size_stride, AsFour!PE_size_stride, Four!vars, AsFour!vars,
       Four!OnePieceAtATime, AsFour!OnePieceAtATime, Four!PieceOfThisCall,
       AsFour!PieceOfThisCall, Four!Cardinality, AsFour!Cardinality

LEMMA RowIsTheSame ==
  /\ Row!CollectAssumption = AsRow!C!CollectAssumption
  /\ Row!Init = AsRow!C!Init
  /\ [Row!Next]_(Row!vars) = [AsRow!C!Next]_(AsRow!C!vars)
  /\ Row!IInv = AsRow!C!IInv
  /\ Row!FlagMeansOffset = AsRow!C!FlagMeansOffset
  /\ Row!FlagsRestored = AsRow!C!FlagsRestored
BY DEF Row!CollectAssumption, AsRow!C!CollectAssumption, Row!Init, AsRow!C!Init,
       Row!Sync!Init, AsRow!C!Sync!Init, Row!Next, AsRow!C!Next, Row!Step, AsRow!C!Step,
       Row!Finished, AsRow!C!Finished, Row!Enter, AsRow!C!Enter, Row!Look, AsRow!C!Look,
       Row!Read, AsRow!C!Read, Row!Got, AsRow!C!Got, Row!TellOffset, AsRow!C!TellOffset,
       Row!SetFlag, AsRow!C!SetFlag, Row!Copy, AsRow!C!Copy, Row!Return, AsRow!C!Return,
       Row!Sync!Enter, AsRow!C!Sync!Enter, Row!Sync!Leave, AsRow!C!Sync!Leave, Row!Goto,
       AsRow!C!Goto, Row!Len, AsRow!C!Len, Row!Member, AsRow!C!Member, Row!pe_end,
       AsRow!C!pe_end, Row!Place, AsRow!C!Place, Row!Total, AsRow!C!Total, Row!Offset,
       AsRow!C!Offset, Row!None, AsRow!C!None, Row!vars, AsRow!C!vars, Row!IInv,
       AsRow!C!IInv, Row!TypeOK, AsRow!C!TypeOK, Row!InStep, AsRow!C!InStep,
       Row!FlagCounts, AsRow!C!FlagCounts, Row!OffsetStays, AsRow!C!OffsetStays, Row!Sets,
       AsRow!C!Sets, Row!Takes, AsRow!C!Takes, Row!FlagMeansOffset,
       AsRow!C!FlagMeansOffset, Row!FlagsRestored, AsRow!C!FlagsRestored

LEMMA Tree8IsTheSame ==
  /\ Tree8!BroadcastAssumption = AsTree8!B!BroadcastAssumption
  /\ Tree8!Init = AsTree8!B!Init
  /\ [Tree8!Next]_(Tree8!vars) = [AsTree8!B!Next]_(AsTree8!B!vars)
  /\ Tree8!DestIsSource = AsTree8!B!DestIsSource
  /\ Tree8!NothingComesLate = AsTree8!B!NothingComesLate
  /\ Tree8!FlagIsOfThisCall = AsTree8!B!FlagIsOfThisCall
BY DEF Tree8!Init, AsTree8!B!Init, Tree8!Next, AsTree8!B!Next, Tree8!Step,
       AsTree8!B!Step, Tree8!Land, AsTree8!B!Land, Tree8!Finished, AsTree8!B!Finished,
       Tree8!Enter, AsTree8!B!Enter, Tree8!SyncReturns, AsTree8!B!SyncReturns,
       Tree8!Sends, AsTree8!B!Sends, Tree8!Advance, AsTree8!B!Advance, Tree8!Send,
       AsTree8!B!Send, Tree8!Receive, AsTree8!B!Receive, Tree8!Reset, AsTree8!B!Reset,
       Tree8!PE_to, AsTree8!B!PE_to, Tree8!Halved, AsTree8!B!Halved, Tree8!FirstMask,
       AsTree8!B!FirstMask, Tree8!LowBit, AsTree8!B!LowBit, Tree8!maskx,
       AsTree8!B!maskx, Tree8!Power2, AsTree8!B!Power2, Tree8!IsRoot, AsTree8!B!IsRoot,
       Tree8!PEx, AsTree8!B!PEx, Tree8!PE_root_stride, AsTree8!B!PE_root_stride,
       Tree8!PE_end, AsTree8!B!PE_end, Tree8!PE_size_stride, AsTree8!B!PE_size_stride,
       Tree8!Member, AsTree8!B!Member, Tree8!vars, AsTree8!B!vars, Tree8!Sync!Init,
       AsTree8!B!Sync!Init, Tree8!Sync!Enter, AsTree8!B!Sync!Enter, Tree8!Sync!Leave,
       AsTree8!B!Sync!Leave, Tree8!BroadcastAssumption, AsTree8!B!BroadcastAssumption,
       Tree8!DestIsSource, AsTree8!B!DestIsSource, Tree8!NothingComesLate,
       AsTree8!B!NothingComesLate, Tree8!Until, AsTree8!B!Until, Tree8!FlagIsOfThisCall,
       AsTree8!B!FlagIsOfThisCall

LEMMA Tree4IsTheSame ==
  /\ Tree4!BroadcastAssumption = AsTree4!B!BroadcastAssumption
  /\ Tree4!Init = AsTree4!B!Init
  /\ [Tree4!Next]_(Tree4!vars) = [AsTree4!B!Next]_(AsTree4!B!vars)
  /\ Tree4!DestIsSource = AsTree4!B!DestIsSource
  /\ Tree4!NothingComesLate = AsTree4!B!NothingComesLate
  /\ Tree4!FlagIsOfThisCall = AsTree4!B!FlagIsOfThisCall
BY DEF Tree4!Init, AsTree4!B!Init, Tree4!Next, AsTree4!B!Next, Tree4!Step,
       AsTree4!B!Step, Tree4!Land, AsTree4!B!Land, Tree4!Finished, AsTree4!B!Finished,
       Tree4!Enter, AsTree4!B!Enter, Tree4!SyncReturns, AsTree4!B!SyncReturns,
       Tree4!Sends, AsTree4!B!Sends, Tree4!Advance, AsTree4!B!Advance, Tree4!Send,
       AsTree4!B!Send, Tree4!Receive, AsTree4!B!Receive, Tree4!Reset, AsTree4!B!Reset,
       Tree4!PE_to, AsTree4!B!PE_to, Tree4!Halved, AsTree4!B!Halved, Tree4!FirstMask,
       AsTree4!B!FirstMask, Tree4!LowBit, AsTree4!B!LowBit, Tree4!maskx,
       AsTree4!B!maskx, Tree4!Power2, AsTree4!B!Power2, Tree4!IsRoot, AsTree4!B!IsRoot,
       Tree4!PEx, AsTree4!B!PEx, Tree4!PE_root_stride, AsTree4!B!PE_root_stride,
       Tree4!PE_end, AsTree4!B!PE_end, Tree4!PE_size_stride, AsTree4!B!PE_size_stride,
       Tree4!Member, AsTree4!B!Member, Tree4!vars, AsTree4!B!vars, Tree4!Sync!Init,
       AsTree4!B!Sync!Init, Tree4!Sync!Enter, AsTree4!B!Sync!Enter, Tree4!Sync!Leave,
       AsTree4!B!Sync!Leave, Tree4!BroadcastAssumption, AsTree4!B!BroadcastAssumption,
       Tree4!DestIsSource, AsTree4!B!DestIsSource, Tree4!NothingComesLate,
       AsTree4!B!NothingComesLate, Tree4!Until, AsTree4!B!Until, Tree4!FlagIsOfThisCall,
       AsTree4!B!FlagIsOfThisCall

\* A step of MCCollectives is a step of the job.
LEMMA Jobs ==
  ASSUME [Next]_vars
  PROVE  /\ job' = job
         /\ job = "ring" => [Ring!Next]_(Ring!vars)
         /\ job = "pair" => [Pair!Next]_(Pair!vars)
         /\ job = "four" => [Four!Next]_(Four!vars)
         /\ job = "row" => [Row!Next]_(Row!vars)
         /\ job = "tree8" => [Tree8!Next]_(Tree8!vars)
         /\ job = "tree4" => [Tree4!Next]_(Tree4!vars)
         /\ job = "duo" => [Duo!Sync!Next]_(Duo!Sync!vars)
         /\ job = "chain" => [Chain!Next]_(Chain!vars)
         /\ job = "duo" => [Duo!Next]_(Duo!vars)
         /\ job = "trio" => [Trio!Next]_(Trio!vars)
         /\ job = "swap" => [Swap!Next]_(Swap!vars)
         /\ job = "strided" => [Strided!Next]_(Strided!vars)
         /\ job = "turn" => [Turn!Next]_(Turn!vars)
<1>1. CASE UNCHANGED vars
  BY <1>1 DEF vars, ofReduce, ofCollect, Ring!vars, Pair!vars, Four!vars, Row!vars,
              ofBroadcast, Tree8!vars, Tree4!vars, ofSync, Duo!Sync!vars, others,
              ofInit, Chain!vars, ofExchange, Duo!vars, Trio!vars, Swap!vars,
              Strided!vars, Turn!vars
<1>2. CASE \E p \in PE : ReduceStep(p) \/ ReduceLand(p)
  <2>1. PICK p \in PE : ReduceStep(p) \/ ReduceLand(p)
    BY <1>2
  <2>2. job' = job /\ job \in {"ring", "pair", "four"}
    BY <2>1 DEF ReduceStep, ReduceLand
  <2>3. job = "ring" => Ring!Next
    BY <2>1 DEF ReduceStep, ReduceLand, Ring!Next
  <2>4. job = "pair" => Pair!Next
    BY <2>1 DEF ReduceStep, ReduceLand, Pair!Next
  <2>5. job = "four" => Four!Next
    BY <2>1 DEF ReduceStep, ReduceLand, Four!Next
  <2> QED BY <2>2, <2>3, <2>4, <2>5
<1>3. CASE (\E p \in PE : BroadcastStep(p) \/ BroadcastLand(p))
  <2>1. PICK p \in PE : BroadcastStep(p) \/ BroadcastLand(p)
    BY <1>3
  <2>2. job' = job /\ job \in {"tree8", "tree4"}
    BY <2>1 DEF BroadcastStep, BroadcastLand
  <2>3. job = "tree8" => Tree8!Next
    BY <2>1 DEF BroadcastStep, BroadcastLand, Tree8!Next
  <2>4. job = "tree4" => Tree4!Next
    BY <2>1 DEF BroadcastStep, BroadcastLand, Tree4!Next
  <2> QED BY <2>2, <2>3, <2>4
<1>4. CASE ExchangeLand \/ \E p \in PE : ExchangeStep(p)
  <2>1. job' = job /\ job \in {"duo", "trio", "swap", "strided", "turn"}
    BY <1>4 DEF ExchangeStep, ExchangeLand
  <2>2. job = "duo" => Duo!Next
    BY <1>4 DEF ExchangeStep, ExchangeLand, Duo!Next
  <2>3. job = "trio" => Trio!Next
    BY <1>4 DEF ExchangeStep, ExchangeLand, Trio!Next
  <2>4. job = "swap" => Swap!Next
    BY <1>4 DEF ExchangeStep, ExchangeLand, Swap!Next
  <2>5. job = "strided" => Strided!Next
    BY <1>4 DEF ExchangeStep, ExchangeLand, Strided!Next
  <2>6. job = "turn" => Turn!Next
    BY <1>4 DEF ExchangeStep, ExchangeLand, Turn!Next
  <2>7. Duo!Next => [Duo!Sync!Next]_(Duo!Sync!vars)
    BY DEF Duo!Next, Duo!Land, Duo!LandData, Duo!LandSignal, Duo!Member, Duo!Step, Duo!Copy, Duo!Enter,
       Duo!SyncStep, Duo!Sync!Next, Duo!Sync!Step, Duo!Sync!vars
  <2> QED BY <2>1, <2>2, <2>3, <2>4, <2>5, <2>6, <2>7
<1>5. CASE \E p \in PE : CollectStep(p)
  <2>1. job' = job /\ job = "row"
    BY <1>5 DEF CollectStep
  <2>2. Row!Next
    BY <1>5 DEF CollectStep, Row!Next
  <2> QED BY <2>1, <2>2
<1>6. CASE \E p \in PE : InitStep(p) \/ InitLand(p)
  <2>1. job' = job /\ job = "chain"
    BY <1>6 DEF InitStep, InitLand
  <2>2. Chain!Next
    BY <1>6 DEF InitStep, InitLand, Chain!Next
  <2> QED BY <2>1, <2>2
<1> QED BY <1>1, <1>2, <1>3, <1>4, <1>5, <1>6 DEF Next, Move, Finished, Step, Land
------------------------------------------------------------------------------
(* The reductions *)

LEMMA Powers == 2^0 = 1 /\ 2^1 = 2 /\ 2^2 = 4 /\ 2^3 = 8
<1>1. 2^(0 + 1) = 2 * 2^0 /\ 2^(1 + 1) = 2 * 2^1 /\ 2^(2 + 1) = 2 * 2^2 /\ 2^0 = 1
  BY AsRing!PowerStep
<1>2. 0 + 1 = 1 /\ 1 + 1 = 2 /\ 2 + 1 = 3
  OBVIOUS
<1> QED BY <1>1, <1>2

\* Three PEs are a ring of single pieces, two are a pair.
LEMMA ReduceJobs ==
  /\ AsRing!ReduceAssumption /\ AsRing!SingleRing
  /\ AsPair!ReduceAssumption /\ AsPair!IsPair
  /\ AsFour!ReduceAssumption
<1>1. AsRing!ReduceAssumption /\ AsPair!ReduceAssumption /\ AsFour!ReduceAssumption
  BY DEF AsRing!ReduceAssumption, AsPair!ReduceAssumption, AsFour!ReduceAssumption, MaxCalls
<1>2. AsRing!SingleRing
  <2>1. AsRing!ring
    <3>1. ASSUME NEW e \in 0..3 PROVE 3 # 2^e
      <4>1. e = 0 \/ e = 1 \/ e = 2 \/ e = 3
        OBVIOUS
      <4>2. 1 # 3 /\ 2 # 3 /\ 4 # 3 /\ 8 # 3
        OBVIOUS
      <4> QED BY Zenon, <4>1, <4>2, Powers
    <3> QED BY <3>1 DEF AsRing!ring
  <2>2. 1 <= AsRing!nwrk
    BY DEF AsRing!nwrk
  <2> QED BY <2>1, <2>2 DEF AsRing!SingleRing
<1>3. AsPair!IsPair
  <2>1. 1 \in 0..2 /\ 2 = 2^1
    BY Powers
  <2> QED BY <2>1 DEF AsPair!IsPair, AsPair!ring
<1> QED BY <1>1, <1>2, <1>3

\* The invariants of the reductions, each for its job.
ReduceInv ==
  /\ job = "ring" => AsRing!IInv /\ AsRing!RingSum
  /\ job = "pair" => AsPair!IInv /\ AsPair!PairSum
  /\ job = "four" => AsFour!IInv

LEMMA ReduceInvInit == Init => ReduceInv
<1>1. ASSUME Init
      PROVE  /\ job = "ring" => Ring!Init
             /\ job = "pair" => Pair!Init
             /\ job = "four" => Four!Init
  BY <1>1 DEF Init, InitOfCollectives
<1>2. Ring!Init => AsRing!IInv /\ AsRing!RingSum
  BY ReduceJobs, RingIsTheSame, AsRing!InitIInv, AsRing!RingInit
<1>3. Pair!Init => AsPair!IInv /\ AsPair!PairSum
  BY ReduceJobs, PairIsTheSame, AsPair!InitIInv, AsPair!PairInit
<1>4. Four!Init => AsFour!IInv
  BY ReduceJobs, FourIsTheSame, AsFour!InitIInv
<1> QED BY <1>1, <1>2, <1>3, <1>4 DEF ReduceInv

LEMMA ReduceInvNext == ReduceInv /\ [Next]_vars => ReduceInv'
<1> SUFFICES ASSUME ReduceInv, [Next]_vars PROVE ReduceInv'
  OBVIOUS
<1>1. CASE job = "ring"
  <2>1. [AsRing!Next]_(AsRing!vars) /\ job' = "ring"
    BY <1>1, Jobs, RingIsTheSame
  <2>2. (AsRing!IInv /\ AsRing!RingSum)'
    BY <1>1, <2>1, ReduceJobs, AsRing!NextIInv, AsRing!RingNext DEF ReduceInv
  <2> QED BY <2>1, <2>2 DEF ReduceInv
<1>2. CASE job = "pair"
  <2>1. [AsPair!Next]_(AsPair!vars) /\ job' = "pair"
    BY <1>2, Jobs, PairIsTheSame
  <2>2. (AsPair!IInv /\ AsPair!PairSum)'
    BY <1>2, <2>1, ReduceJobs, AsPair!NextIInv, AsPair!PairNext DEF ReduceInv
  <2> QED BY <2>1, <2>2 DEF ReduceInv
<1>3. CASE job = "four"
  <2>1. [AsFour!Next]_(AsFour!vars) /\ job' = "four"
    BY <1>3, Jobs, FourIsTheSame
  <2>2. AsFour!IInv'
    BY <1>3, <2>1, ReduceJobs, AsFour!NextIInv DEF ReduceInv
  <2> QED BY <2>1, <2>2 DEF ReduceInv
<1>4. CASE job \notin {"ring", "pair", "four"}
  <2>1. job' = job
    BY Jobs
  <2> QED BY <1>4, <2>1 DEF ReduceInv
<1> QED BY <1>1, <1>2, <1>3, <1>4

\* No piece in pWrk is overwritten before it is combined (def_shmem_x_to_all.h:68-74),
\* in the ring, the pair and the four of the run.
THEOREM PiecesAreSafe == FairSpec => []OnePieceAtATime
<1>1. ReduceInv => OnePieceAtATime
  <2>1. AsRing!IInv => Ring!OnePieceAtATime
    BY ReduceJobs, AsRing!LockGuards, RingIsTheSame
  <2>2. AsPair!IInv => Pair!OnePieceAtATime
    BY ReduceJobs, AsPair!LockGuards, PairIsTheSame
  <2>3. AsFour!IInv => Four!OnePieceAtATime
    BY ReduceJobs, AsFour!LockGuards, FourIsTheSame
  <2> QED BY <2>1, <2>2, <2>3 DEF ReduceInv, OnePieceAtATime
<1> QED BY <1>1, ReduceInvInit, ReduceInvNext, PTL DEF FairSpec

\* No piece reaches a PE that is in another call (def_shmem_x_to_all.h:52-53).
THEOREM PiecesAreOfTheCall == FairSpec => []PieceOfThisCall
<1>1. ReduceInv => PieceOfThisCall
  <2>1. AsRing!IInv => Ring!PieceOfThisCall
    BY ReduceJobs, AsRing!LockGuards, RingIsTheSame
  <2>2. AsPair!IInv => Pair!PieceOfThisCall
    BY ReduceJobs, AsPair!LockGuards, PairIsTheSame
  <2>3. AsFour!IInv => Four!PieceOfThisCall
    BY ReduceJobs, AsFour!LockGuards, FourIsTheSame
  <2> QED BY <2>1, <2>2, <2>3 DEF ReduceInv, PieceOfThisCall
<1> QED BY <1>1, ReduceInvInit, ReduceInvNext, PTL DEF FairSpec

\* A reduction in the ring or the pair returns with the sum of all (test/reduce.c:98).
THEOREM SumsAreComplete == FairSpec => []SumIsComplete
<1>1. ReduceInv => SumIsComplete
  <2>1. AsRing!IInv /\ AsRing!RingSum => Ring!SumIsComplete
    BY ReduceJobs, AsRing!RingIsComplete, RingIsTheSame
  <2>2. AsPair!IInv /\ AsPair!PairSum => Pair!SumIsComplete
    BY ReduceJobs, AsPair!PairIsComplete, PairIsTheSame
  <2> QED BY <2>1, <2>2 DEF ReduceInv, SumIsComplete
<1> QED BY <1>1, ReduceInvInit, ReduceInvNext, PTL DEF FairSpec
------------------------------------------------------------------------------
(* The collect *)

LEMMA RowJob == AsRow!C!CollectAssumption
<1>1. {1 + m * 2 : m \in 0..(3 - 1)} = {1, 3, 5}
  <2>1. 0..(3 - 1) = {0, 1, 2}
    OBVIOUS
  <2> QED BY <2>1
<1>2. \A n \in 1..2, p \in {1, 3, 5} : (p + n + 1) % 3 \in Nat
  OBVIOUS
<1> QED BY <1>1, <1>2 DEF AsRow!C!CollectAssumption, AsRow!C!Member, MaxCalls

LEMMA RowInv == FairSpec => [](job = "row" => AsRow!C!IInv)
<1>1. Init => (job = "row" => AsRow!C!IInv)
  <2>1. Init /\ job = "row" => Row!Init
    BY DEF Init, InitOfCollectives
  <2> QED BY <2>1, RowJob, RowIsTheSame, AsRow!CollectInit
<1>2. (job = "row" => AsRow!C!IInv) /\ [Next]_vars => (job = "row" => AsRow!C!IInv)'
  <2> SUFFICES ASSUME job = "row" => AsRow!C!IInv, [Next]_vars, job' = "row"
               PROVE  AsRow!C!IInv'
    OBVIOUS
  <2>1. job = "row" /\ [AsRow!C!Next]_(AsRow!C!vars)
    BY Jobs, RowIsTheSame
  <2> QED BY <2>1, RowJob, AsRow!CollectNext
<1> QED BY <1>1, <1>2, PTL DEF FairSpec

\* A PE of the run's collect that sees the flag finds behind it the offset of its call
\* (def_shmem_collect_n.h:54-55).
THEOREM OffsetsAreThere == FairSpec => []FlagMeansOffset
<1>1. (job = "row" => AsRow!C!IInv) => FlagMeansOffset
  BY RowJob, RowIsTheSame, AsRow!OffsetIsThere DEF FlagMeansOffset
<1> QED BY <1>1, RowInv, PTL

\* The padded words of its pSync are restored (def_shmem_collect_n.h:44-49).
THEOREM FlagsAreClear == FairSpec => []FlagsRestored
<1>1. (job = "row" => AsRow!C!IInv) => FlagsRestored
  BY RowJob, RowIsTheSame, AsRow!FlagsAreClear DEF FlagsRestored
<1> QED BY <1>1, RowInv, PTL
------------------------------------------------------------------------------
(* The broadcasts *)

LEMMA TreeJobs == /\ AsTree8!B!BroadcastAssumption /\ AsTree8!B!PowersOfTwo
                  /\ AsTree4!B!BroadcastAssumption /\ AsTree4!B!PowersOfTwo
<1>1. AsTree8!B!BroadcastAssumption /\ AsTree4!B!BroadcastAssumption
  BY DEF AsTree8!B!BroadcastAssumption, AsTree4!B!BroadcastAssumption, MaxCalls
<1>2. 1 = 2^0 /\ 2 = 2^1 /\ 4 = 2^2 /\ 8 = 2^3
  BY Powers
<1>3. 0 \in Nat /\ 1 \in Nat /\ 2 \in Nat \ {0} /\ 3 \in Nat \ {0}
  OBVIOUS
<1>4. AsTree8!B!PowersOfTwo
  BY Zenon, <1>2, <1>3 DEF AsTree8!B!PowersOfTwo
<1>5. AsTree4!B!PowersOfTwo
  BY Zenon, <1>2, <1>3 DEF AsTree4!B!PowersOfTwo
<1> QED BY <1>1, <1>4, <1>5

\* The invariants of the broadcasts, each for its job.
TreeInv == /\ job = "tree8" => AsTree8!B!IInv
           /\ job = "tree4" => AsTree4!B!IInv

LEMMA TreesKeepInv == FairSpec => []TreeInv
<1>1. ASSUME Init PROVE TreeInv
  <2>1. (job = "tree8" => Tree8!Init) /\ (job = "tree4" => Tree4!Init)
    BY <1>1 DEF Init, InitOfCollectives
  <2>2. AsTree8!B!Init => AsTree8!B!IInv
    BY TreeJobs, AsTree8!BroadcastInit
  <2>3. AsTree4!B!Init => AsTree4!B!IInv
    BY TreeJobs, AsTree4!BroadcastInit
  <2> QED BY <2>1, <2>2, <2>3, Tree8IsTheSame, Tree4IsTheSame DEF TreeInv
<1>2. ASSUME TreeInv, [Next]_vars PROVE TreeInv'
  <2>1. ASSUME job' = "tree8" PROVE AsTree8!B!IInv'
    <3>1. AsTree8!B!IInv /\ [AsTree8!B!Next]_(AsTree8!B!vars)
      BY <1>2, <2>1, Jobs, Tree8IsTheSame DEF TreeInv
    <3> QED BY <3>1, TreeJobs, AsTree8!BroadcastNext
  <2>2. ASSUME job' = "tree4" PROVE AsTree4!B!IInv'
    <3>1. AsTree4!B!IInv /\ [AsTree4!B!Next]_(AsTree4!B!vars)
      BY <1>2, <2>2, Jobs, Tree4IsTheSame DEF TreeInv
    <3> QED BY <3>1, TreeJobs, AsTree4!BroadcastNext
  <2> QED BY <2>1, <2>2 DEF TreeInv
<1> QED BY <1>1, <1>2, PTL DEF FairSpec

\* A broadcast returns with the root's data of that call (test/broadcast32.c:100).
THEOREM BroadcastsDeliver == FairSpec => []DestIsSource
<1>1. TreeInv => DestIsSource
  BY TreeJobs, AsTree8!ReturnedHasData, AsTree4!ReturnedHasData,
     Tree8IsTheSame, Tree4IsTheSame DEF TreeInv, DestIsSource
<1> QED BY <1>1, TreesKeepInv, PTL

\* No data comes to a PE that has returned (def_shmem_broadcastx.h:76).
THEOREM BroadcastsAreOver == FairSpec => []NothingComesLate
<1>1. TreeInv => NothingComesLate
  BY TreeJobs, AsTree8!ReturnedIsLeftAlone, AsTree4!ReturnedIsLeftAlone,
     Tree8IsTheSame, Tree4IsTheSame DEF TreeInv, NothingComesLate
<1> QED BY <1>1, TreesKeepInv, PTL

\* lock_receive_finished is set for the PE's present call only
\* (def_shmem_broadcastx.h:57, 68-72).
THEOREM BroadcastFlagsAreOfTheCall == FairSpec => []FlagIsOfThisCall
<1>1. TreeInv => FlagIsOfThisCall
  BY TreeJobs, AsTree8!FlagIsForTheCall, AsTree4!FlagIsForTheCall,
     Tree8IsTheSame, Tree4IsTheSame DEF TreeInv, FlagIsOfThisCall
<1> QED BY <1>1, TreesKeepInv, PTL
------------------------------------------------------------------------------
(* The constants of the barriers *)

\* The assumptions of ShmemSync about its constants hold for each job.
LEMMA DuoJob ==
  LET R == [k \in 0..1 |-> Pow2[k]]
  IN  /\ 4 \in Nat /\ 2 \in Nat \ {0} /\ 2 \in Nat \ {0}
      /\ 1 \in Nat /\ R \in [0..1 -> Nat] /\ R[0] = 1
      /\ \A k \in 0..1 : k < 1 => R[k + 1] = 2 * R[k]
      /\ \A k \in 0..1 : R[k] < 2 <=> k < 1
      /\ 3 \in Nat /\ One(3) \in [1..3 -> {"A"}]
      /\ "sync" \in {"sync", "sync_all"}
      /\ "sync" = "sync_all" => 4 = 0 /\ 2 = 1 /\ \A m, n \in 1..3 : One(3)[m] = One(3)[n]
BY DEF Pow2, One

LEMMA TrioJob ==
  LET R == [k \in 0..2 |-> Pow2[k]]
  IN  /\ 1 \in Nat /\ 2 \in Nat \ {0} /\ 3 \in Nat \ {0}
      /\ 2 \in Nat /\ R \in [0..2 -> Nat] /\ R[0] = 1
      /\ \A k \in 0..2 : k < 2 => R[k + 1] = 2 * R[k]
      /\ \A k \in 0..2 : R[k] < 3 <=> k < 2
      /\ MaxCalls \in Nat /\ Two \in [1..MaxCalls -> {"A", "B"}]
      /\ "sync" \in {"sync", "sync_all"}
      /\ "sync" = "sync_all" => 1 = 0 /\ 2 = 1 /\ \A m, n \in 1..MaxCalls : Two[m] = Two[n]
<1> DEFINE R == [k \in 0..2 |-> Pow2[k]]
<1>1. 0..2 = {0, 1, 2}
  OBVIOUS
<1>2. R[0] = 1 /\ R[1] = 2 /\ R[2] = 4
  BY DEF Pow2
<1>3. R \in [0..2 -> Nat]
  BY <1>1, <1>2
<1>4. MaxCalls \in Nat /\ Two \in [1..MaxCalls -> {"A", "B"}]
  BY DEF Two, MaxCalls
<1> HIDE DEF R
<1>5. \A k \in 0..2 : (k < 2 => R[k + 1] = 2 * R[k]) /\ (R[k] < 3 <=> k < 2)
  BY <1>1, <1>2
<1> QED BY <1>2, <1>3, <1>4, <1>5 DEF R

LEMMA SwapJob ==
  LET R == [k \in 0..2 |-> Pow2[k]]
  IN  /\ 1 \in Nat /\ 2 \in Nat \ {0} /\ 3 \in Nat \ {0}
      /\ 2 \in Nat /\ R \in [0..2 -> Nat] /\ R[0] = 1
      /\ \A k \in 0..2 : k < 2 => R[k + 1] = 2 * R[k]
      /\ \A k \in 0..2 : R[k] < 3 <=> k < 2
      /\ 1 \in Nat /\ One(1) \in [1..1 -> {"A"}]
      /\ "sync" \in {"sync", "sync_all"}
      /\ "sync" = "sync_all" => 1 = 0 /\ 2 = 1 /\ \A m, n \in 1..1 : One(1)[m] = One(1)[n]
<1> DEFINE R == [k \in 0..2 |-> Pow2[k]]
<1>1. 0..2 = {0, 1, 2}
  OBVIOUS
<1>2. R[0] = 1 /\ R[1] = 2 /\ R[2] = 4
  BY DEF Pow2
<1>3. R \in [0..2 -> Nat]
  BY <1>1, <1>2
<1>4. One(1) \in [1..1 -> {"A"}]
  BY DEF One
<1> HIDE DEF R
<1>5. \A k \in 0..2 : (k < 2 => R[k + 1] = 2 * R[k]) /\ (R[k] < 3 <=> k < 2)
  BY <1>1, <1>2
<1> QED BY <1>2, <1>3, <1>4, <1>5 DEF R

LEMMA StridedJob ==
  LET R == [k \in 0..2 |-> Pow2[k]]
  IN  /\ 0 \in Nat /\ 1 \in Nat \ {0} /\ 3 \in Nat \ {0}
      /\ 2 \in Nat /\ R \in [0..2 -> Nat] /\ R[0] = 1
      /\ \A k \in 0..2 : k < 2 => R[k + 1] = 2 * R[k]
      /\ \A k \in 0..2 : R[k] < 3 <=> k < 2
      /\ 1 \in Nat /\ One(1) \in [1..1 -> {"A"}]
      /\ "sync" \in {"sync", "sync_all"}
      /\ "sync" = "sync_all" => 0 = 0 /\ 1 = 1 /\ \A m, n \in 1..1 : One(1)[m] = One(1)[n]
<1> DEFINE R == [k \in 0..2 |-> Pow2[k]]
<1>1. 0..2 = {0, 1, 2}
  OBVIOUS
<1>2. R[0] = 1 /\ R[1] = 2 /\ R[2] = 4
  BY DEF Pow2
<1>3. R \in [0..2 -> Nat]
  BY <1>1, <1>2
<1>4. One(1) \in [1..1 -> {"A"}]
  BY DEF One
<1> HIDE DEF R
<1>5. \A k \in 0..2 : (k < 2 => R[k + 1] = 2 * R[k]) /\ (R[k] < 3 <=> k < 2)
  BY <1>1, <1>2
<1> QED BY <1>2, <1>3, <1>4, <1>5 DEF R

LEMMA TurnJob ==
  LET R == [k \in 0..3 |-> Pow2[k]]
  IN  /\ 0 \in Nat /\ 1 \in Nat \ {0} /\ 5 \in Nat \ {0}
      /\ 3 \in Nat /\ R \in [0..3 -> Nat] /\ R[0] = 1
      /\ \A k \in 0..3 : k < 3 => R[k + 1] = 2 * R[k]
      /\ \A k \in 0..3 : R[k] < 5 <=> k < 3
      /\ 1 \in Nat /\ One(1) \in [1..1 -> {"A"}]
      /\ "sync" \in {"sync", "sync_all"}
      /\ "sync" = "sync_all" => 0 = 0 /\ 1 = 1 /\ \A m, n \in 1..1 : One(1)[m] = One(1)[n]
<1> DEFINE R == [k \in 0..3 |-> Pow2[k]]
<1>1. 0..3 = {0, 1, 2, 3}
  OBVIOUS
<1>2. R[0] = 1 /\ R[1] = 2 /\ R[2] = 4 /\ R[3] = 8
  BY DEF Pow2
<1>3. R \in [0..3 -> Nat]
  BY <1>1, <1>2
<1>4. One(1) \in [1..1 -> {"A"}]
  BY DEF One
<1> HIDE DEF R
<1>5. \A k \in 0..3 : (k < 3 => R[k + 1] = 2 * R[k]) /\ (R[k] < 5 <=> k < 3)
  BY <1>1, <1>2
<1> QED BY <1>2, <1>3, <1>4, <1>5 DEF R

LEMMA ChainJob ==
  LET R == [k \in 0..2 |-> Pow2[k]]
  IN  /\ 0 \in Nat /\ 1 \in Nat \ {0} /\ 4 \in Nat \ {0}
      /\ 2 \in Nat /\ R \in [0..2 -> Nat] /\ R[0] = 1
      /\ \A k \in 0..2 : k < 2 => R[k + 1] = 2 * R[k]
      /\ \A k \in 0..2 : R[k] < 4 <=> k < 2
      /\ 1 \in Nat /\ One(1) \in [1..1 -> {"A"}]
      /\ "sync" \in {"sync", "sync_all"}
      /\ "sync" = "sync_all" => 0 = 0 /\ 1 = 1 /\ \A m, n \in 1..1 : One(1)[m] = One(1)[n]
<1> DEFINE R == [k \in 0..2 |-> Pow2[k]]
<1>1. 0..2 = {0, 1, 2} /\ 1..1 = {1}
  OBVIOUS
<1>2. R[0] = 1 /\ R[1] = 2 /\ R[2] = 4
  BY DEF Pow2
<1>3. R \in [0..2 -> Nat]
  BY <1>1, <1>2
<1>4. One(1) \in [1..1 -> {"A"}]
  BY DEF One
<1> HIDE DEF R
<1>5. \A k \in 0..2 : (k < 2 => R[k + 1] = 2 * R[k]) /\ (R[k] < 4 <=> k < 2)
  BY <1>1, <1>2
<1> QED BY <1>2, <1>3, <1>4, <1>5 DEF R

------------------------------------------------------------------------------
(* shmem_init of four PEs and a shmem_sync *)

\* The two arrays are all there is in flag.
TwoArrays == flag = [a \in {"barrier_sync", "A"} |-> flag[a]]

LEMMA ChainKeepsArrays == TwoArrays /\ [Chain!Next]_(Chain!vars) => TwoArrays'
<1> SUFFICES ASSUME TwoArrays, [Chain!Next]_(Chain!vars) PROVE TwoArrays'
  OBVIOUS
<1>1. \A a, f : flag' = [flag EXCEPT ![a] = f] => TwoArrays'
  BY DEF TwoArrays
<1>2. CASE flag' = flag
  BY <1>2 DEF TwoArrays
<1>3. ASSUME NEW p \in Chain!PE, Chain!Step(p) PROVE TwoArrays'
  <2>1. CASE Chain!SyncStep(p)
    BY <1>1, <1>2, <2>1 DEF Chain!SyncStep, Chain!Sync!Step, Chain!Sync!Enter, Chain!Sync!Signal,
       Chain!Sync!TestsetSignal, Chain!Sync!Wait, Chain!Sync!Clear, Chain!Sync!Leave
  <2> QED BY <1>1, <1>2, <1>3, <2>1 DEF Chain!Step, Chain!Start, Chain!WaitChain, Chain!Post,
       Chain!ClearChain, Chain!SetSync
<1>4. ASSUME NEW p \in Chain!PE, Chain!Land(p) PROVE TwoArrays'
  BY <1>1, <1>4 DEF Chain!Land, Chain!LandChain, Chain!SetSync, Chain!LandSignal, Chain!Sync!Land
<1> QED BY <1>2, <1>3, <1>4 DEF Chain!Next, Chain!Sync!Finished, Chain!Sync!vars, Chain!vars

AsChain == INSTANCE ShmemSyncProof WITH
  PE_start <- 0, Stride <- 1, PE_size <- 4, Rounds <- 2, Pow2 <- [k \in 0..2 |-> Pow2[k]],
  Arrays <- {"A"}, ArrayOf <- One(1), MaxCalls <- 1, Routine <- "sync",
  flag <- [a \in {"A"} |-> flag[a]], word <- flag["barrier_sync"],
  Collective <- NotOfJob, Source <- NotOfJob, nelems <- NotOfJob, dst <- NotOfJob, sst <- NotOfJob

LEMMA ChainIsOfAll == AsChain!AllPEs /\ AsChain!OnlyFlags /\ AsChain!OnlyFlags'
<1>1. "barrier_sync" \notin {"A"} /\ 4 > 1
  OBVIOUS
<1>2. \A x : [a \in {"A"} |-> x[a]] = [a \in {"A"} |-> [b \in {"A"} |-> x[b]][a]]
  OBVIOUS
<1> QED BY <1>1, <1>2 DEF AsChain!AllPEs, AsChain!OnlyFlags

LEMMA ChainFlags == TwoArrays => AsChain!AllFlags = flag
<1> DEFINE F == [a \in {"A"} \cup {"barrier_sync"} |->
                   IF a = "barrier_sync" THEN flag["barrier_sync"] ELSE [b \in {"A"} |-> flag[b]][a]]
<1>1. F = [a \in {"barrier_sync", "A"} |-> flag[a]]
  OBVIOUS
<1> QED BY <1>1 DEF TwoArrays, AsChain!AllFlags

LEMMA ChainFlagsNext == TwoArrays' => AsChain!AllFlags' = flag'
<1> DEFINE F == [a \in {"A"} \cup {"barrier_sync"} |->
                   IF a = "barrier_sync" THEN flag'["barrier_sync"] ELSE [b \in {"A"} |-> flag'[b]][a]]
<1>1. F = [a \in {"barrier_sync", "A"} |-> flag'[a]]
  OBVIOUS
<1> QED BY <1>1 DEF TwoArrays, AsChain!AllFlags

\* The steps of the job are those of the chain and the barrier.
LEMMA ChainIsTheSame ==
  /\ TwoArrays /\ Chain!Init => AsChain!I!Init
  /\ TwoArrays /\ TwoArrays' /\ [Chain!Next]_(Chain!vars) => [AsChain!I!Next]_(AsChain!I!vars)
  /\ TwoArrays /\ AsChain!I!InitIsChain /\ AsChain!I!InitIsOver
       => Chain!InitIsChain /\ Chain!InitIsOver
<1> DEFINE F == AsChain!AllFlags
<1>1. ASSUME TwoArrays, Chain!Init PROVE AsChain!I!Init
  <2>1. {"A"} \cup {"barrier_sync"} = {"barrier_sync", "A"}
    OBVIOUS
  <2> QED BY <1>1, <2>1, ChainFlags DEF Chain!Init, AsChain!I!Init, Chain!Sync!Init,
       AsChain!I!Sync!Init, Chain!Sync!Member, AsChain!I!Sync!Member, Chain!Sync!Round,
       AsChain!I!Sync!Round, Chain!Sync!SYNC_VALUE, AsChain!I!Sync!SYNC_VALUE, Chain!PE,
       AsChain!I!PE
<1>2. ASSUME TwoArrays, TwoArrays', [Chain!Next]_(Chain!vars)
      PROVE  [AsChain!I!Next]_(AsChain!I!vars)
  <2> USE DEF Chain!Sync!Member, AsChain!I!Sync!Member, Chain!Sync!Round, AsChain!I!Sync!Round,
       Chain!Sync!SYNC_VALUE, AsChain!I!Sync!SYNC_VALUE, Chain!PE, AsChain!I!PE,
       Chain!SetSync, AsChain!I!SetSync, Chain!Next_pe, AsChain!I!Next_pe, Chain!Goto,
       AsChain!I!Goto, Chain!SyncUnchanged, AsChain!I!SyncUnchanged,
       Chain!Sync!Testset, AsChain!I!Sync!Testset
  <2>a. AsChain!AllFlags = flag /\ AsChain!AllFlags' = flag'
    BY <1>2, ChainFlags, ChainFlagsNext
  <2>b. \A p, k : Chain!Sync!To(p, k) = AsChain!I!Sync!To(p, k)
    BY DEF Chain!Sync!To, AsChain!I!Sync!To, Chain!Sync!Dist, AsChain!I!Sync!Dist,
       Chain!Sync!PE_end, AsChain!I!Sync!PE_end, Chain!Sync!PE_size_stride,
       AsChain!I!Sync!PE_size_stride
  <2>0. /\ AsChain!AllFlags = flag /\ AsChain!AllFlags' = flag'
        /\ \A p, k : Chain!Sync!To(p, k) = AsChain!I!Sync!To(p, k)
    BY <2>a, <2>b
  <2>1. \A p : Chain!Start(p) => AsChain!I!Start(p)
    BY <2>0 DEF Chain!Start, AsChain!I!Start
  <2>2. \A p : Chain!WaitChain(p) => AsChain!I!WaitChain(p)
    BY <2>0 DEF Chain!WaitChain, AsChain!I!WaitChain, Chain!barrier_sync, AsChain!I!barrier_sync
  <2>3. \A p : Chain!Post(p) => AsChain!I!Post(p)
    BY <2>0 DEF Chain!Post, AsChain!I!Post
  <2>4. \A p : Chain!ClearChain(p) => AsChain!I!ClearChain(p)
    BY <2>0 DEF Chain!ClearChain, AsChain!I!ClearChain
  <2>5. \A p : Chain!Sync!Enter(p) => AsChain!I!Sync!Enter(p)
    BY <2>0 DEF Chain!Sync!Enter, AsChain!I!Sync!Enter
  <2>6. \A p : Chain!Sync!Signal(p) => AsChain!I!Sync!Signal(p)
    BY <2>0 DEF Chain!Sync!Signal, AsChain!I!Sync!Signal
  <2>7. \A p : Chain!Sync!TestsetSignal(p) => AsChain!I!Sync!TestsetSignal(p)
    BY <2>0 DEF Chain!Sync!TestsetSignal, AsChain!I!Sync!TestsetSignal
  <2>8. \A p : Chain!Sync!Wait(p) => AsChain!I!Sync!Wait(p)
    BY <2>0 DEF Chain!Sync!Wait, AsChain!I!Sync!Wait
  <2>9. \A p : Chain!Sync!Clear(p) => AsChain!I!Sync!Clear(p)
    BY <2>0 DEF Chain!Sync!Clear, AsChain!I!Sync!Clear
  <2>10. \A p : Chain!Sync!Leave(p) => AsChain!I!Sync!Leave(p)
    BY <2>0 DEF Chain!Sync!Leave, AsChain!I!Sync!Leave
  <2>11. \A p : Chain!SyncStep(p) => AsChain!I!SyncStep(p)
    BY <2>5, <2>6, <2>7, <2>8, <2>9, <2>10
       DEF Chain!SyncStep, AsChain!I!SyncStep, Chain!Sync!Step, AsChain!I!Sync!Step
  <2>12. \A p : Chain!LandChain(p) => AsChain!I!LandChain(p)
    BY ZenonT(40), <2>0 DEF Chain!LandChain, AsChain!I!LandChain
  <2>13. \A p, k : Chain!LandSignal(p, k) => AsChain!I!LandSignal(p, k)
    BY ZenonT(40), <2>0 DEF Chain!LandSignal, AsChain!I!LandSignal, Chain!Sync!Land, AsChain!I!Sync!Land
  <2>14. Chain!Sync!Finished => AsChain!I!Sync!Finished
    BY <2>0 DEF Chain!Sync!Finished, AsChain!I!Sync!Finished, Chain!Sync!vars, AsChain!I!Sync!vars
  <2>15. Chain!Next => AsChain!I!Next
    BY <2>1, <2>2, <2>3, <2>4, <2>11, <2>12, <2>13, <2>14 DEF Chain!Next, AsChain!I!Next,
       Chain!Step, AsChain!I!Step, Chain!Land, AsChain!I!Land
  <2>16. UNCHANGED Chain!vars => UNCHANGED AsChain!I!vars
    BY <2>0 DEF Chain!vars, AsChain!I!vars
  <2> QED BY <1>2, <2>15, <2>16
<1>3. ASSUME TwoArrays, AsChain!I!InitIsChain, AsChain!I!InitIsOver
      PROVE  Chain!InitIsChain /\ Chain!InitIsOver
  BY <1>3, ChainFlags DEF Chain!InitIsChain, AsChain!I!InitIsChain, Chain!InitIsOver,
     AsChain!I!InitIsOver, Chain!PE, AsChain!I!PE, Chain!barrier_sync, AsChain!I!barrier_sync
<1> QED BY <1>1, <1>2, <1>3

ChainIsRight == job = "chain" => TwoArrays /\ AsChain!IInv /\ AsChain!ChainInv

\* The chain of shmem_init and a shmem_sync leave barrier_sync clear, and nobody is
\* still in shmem_init (shmem_init.c:181-184).
THEOREM InitIsOverOnFourPEs == FairSpec => []InitIsOver
<1>1. Init => ChainIsRight
  <2> SUFFICES ASSUME Init, job = "chain" PROVE TwoArrays /\ AsChain!IInv /\ AsChain!ChainInv
    BY DEF ChainIsRight
  <2>1. Chain!Init
    BY DEF Init, InitOfCollectives
  <2>2. TwoArrays
    BY <2>1 DEF Chain!Init, Chain!Sync!Init, TwoArrays
  <2>3. AsChain!I!Init
    BY <2>1, <2>2, ChainIsTheSame
  <2> QED BY <2>2, <2>3, ChainJob, ChainIsOfAll, AsChain!ChainInit
<1>2. ChainIsRight /\ [Next]_vars => ChainIsRight'
  <2> SUFFICES ASSUME ChainIsRight, [Next]_vars, job' = "chain"
               PROVE  TwoArrays' /\ AsChain!IInv' /\ AsChain!ChainInv'
    BY DEF ChainIsRight
  <2>1. job = "chain" /\ [Chain!Next]_(Chain!vars)
    BY Jobs
  <2>2. TwoArrays /\ TwoArrays' /\ AsChain!IInv /\ AsChain!ChainInv
    BY <2>1, ChainKeepsArrays DEF ChainIsRight
  <2>3. [AsChain!I!Next]_(AsChain!I!vars)
    BY <2>1, <2>2, ChainIsTheSame
  <2> QED BY <2>2, <2>3, ChainJob, ChainIsOfAll, AsChain!ChainNext
<1>3. ChainIsRight => InitIsOver
  <2> SUFFICES ASSUME ChainIsRight, job = "chain" PROVE Chain!InitIsChain /\ Chain!InitIsOver
    BY DEF InitIsOver
  <2>1. TwoArrays /\ AsChain!IInv /\ AsChain!ChainInv
    BY DEF ChainIsRight
  <2>2. AsChain!I!InitIsChain /\ AsChain!I!InitIsOver
    BY <2>1, ChainJob, ChainIsOfAll, AsChain!ChainInvGives
  <2> QED BY <2>1, <2>2, ChainIsTheSame
<1> QED BY <1>1, <1>2, <1>3, PTL DEF FairSpec
------------------------------------------------------------------------------
(* The barrier of two PEs *)

AsDuo == INSTANCE ShmemSyncProof WITH
  Collective <- "fcollect", Source <- Blocks(1), nelems <- 1, dst <- 1, sst <- 1,
  PE_start <- 4, Stride <- 2, PE_size <- 2, Rounds <- 1, Pow2 <- [k \in 0..1 |-> Pow2[k]],
  Arrays <- {"A"}, ArrayOf <- One(3), MaxCalls <- 3, Routine <- "sync",
  word <- NotUsed

LEMMA DuoIsTheSame ==
  /\ Duo!Sync!Init = AsDuo!Init
  /\ [Duo!Sync!Next]_(Duo!Sync!vars) = [AsDuo!Next]_(AsDuo!vars)
  /\ Duo!Sync!IInv = AsDuo!IInv
BY DEF Duo!Sync!Init, AsDuo!Init, Duo!Sync!Next, AsDuo!Next, Duo!Sync!Step, AsDuo!Step,
       Duo!Sync!Enter, AsDuo!Enter, Duo!Sync!Signal, AsDuo!Signal,
       Duo!Sync!TestsetSignal, AsDuo!TestsetSignal, Duo!Sync!Land, AsDuo!Land,
       Duo!Sync!Wait, AsDuo!Wait, Duo!Sync!Clear, AsDuo!Clear, Duo!Sync!Leave,
       AsDuo!Leave, Duo!Sync!Finished, AsDuo!Finished, Duo!Sync!vars, AsDuo!vars,
       Duo!Sync!Member, AsDuo!Member, Duo!Sync!Round, AsDuo!Round,
       Duo!Sync!PE_size_stride, AsDuo!PE_size_stride, Duo!Sync!PE_end, AsDuo!PE_end,
       Duo!Sync!SYNC_VALUE, AsDuo!SYNC_VALUE, Duo!Sync!Dist, AsDuo!Dist, Duo!Sync!To,
       AsDuo!To, Duo!Sync!Testset, AsDuo!Testset, Duo!Sync!IInv, AsDuo!IInv,
       Duo!Sync!TypeOK, AsDuo!TypeOK, Duo!Sync!ControlOK, AsDuo!ControlOK,
       Duo!Sync!Sent, AsDuo!Sent, Duo!Sync!Consumed, AsDuo!Consumed, Duo!Sync!TestsetOK,
       AsDuo!TestsetOK, Duo!Sync!InOrder, AsDuo!InOrder, Duo!Sync!PostedFresh,
       AsDuo!PostedFresh, Duo!Sync!FlagFresh, AsDuo!FlagFresh, Duo!Sync!ConsumedWasSent,
       AsDuo!ConsumedWasSent, Duo!Sync!SeenStaysSet, AsDuo!SeenStaysSet,
       Duo!Sync!Behind, AsDuo!Behind, Duo!Sync!Dissemination, AsDuo!Dissemination,
       Duo!Sync!Skew, AsDuo!Skew

LEMMA DuoInv == FairSpec => [](job = "duo" => AsDuo!IInv)
<1>1. AsDuo!Init => AsDuo!IInv
  BY DuoJob, AsDuo!InitIInv
<1>2. AsDuo!IInv /\ [AsDuo!Next]_(AsDuo!vars) => AsDuo!IInv'
  BY DuoJob, AsDuo!NextIInv
<1>3. Init => (job = "duo" => AsDuo!IInv)
  <2>1. Init /\ job = "duo" => Duo!Sync!Init
    BY DEF Init, InitOfCollectives, Duo!Init
  <2> QED BY <1>1, <2>1, DuoIsTheSame
<1>4. (job = "duo" => AsDuo!IInv) /\ [Next]_vars => (job = "duo" => AsDuo!IInv)'
  <2> SUFFICES ASSUME job = "duo" => AsDuo!IInv, [Next]_vars, job' = "duo"
               PROVE  AsDuo!IInv'
    OBVIOUS
  <2>1. job = "duo" /\ [AsDuo!Next]_(AsDuo!vars)
    BY Jobs, DuoIsTheSame
  <2> QED BY <1>2, <2>1
<1> QED BY <1>3, <1>4, PTL DEF FairSpec

\* Two PEs can call shmem_sync in a loop with one array (shmem_sync.c:41-43): no
\* signal is lost, and nobody leaves before the other has entered.
THEOREM TwoPEsAreSynchronized == FairSpec => []SyncIsBarrier
<1>1. ASSUME job = "duo", AsDuo!IInv PROVE SyncIsBarrier
  <2>1. Duo!Sync!NoLostSignal
    BY <1>1 DEF Duo!Sync!NoLostSignal, Duo!Sync!Member, Duo!Sync!Round, AsDuo!IInv,
       AsDuo!TestsetOK, AsDuo!Testset, AsDuo!Member, AsDuo!Round
  <2>2. \A p, q \in AsDuo!Member : AsDuo!Behind(q, p) < AsDuo!Dist(1)
    BY DuoJob, AsDuo!BehindAll
  <2>3. ASSUME NEW p \in AsDuo!Member, NEW q \in AsDuo!Member, pc[p] = "out"
        PROVE  calls[q] >= calls[p]
    <3>1. c[p] = 1
      BY <1>1, <2>3 DEF AsDuo!IInv, AsDuo!ControlOK
    <3>2. 1 \in 0..c[p]
      BY <3>1
    <3> QED BY <1>1, <2>2, <2>3, <3>2 DEF AsDuo!IInv, AsDuo!Dissemination
  <2> QED BY <1>1, <2>1, <2>3, DuoIsTheSame
          DEF SyncIsBarrier, Duo!Member, Duo!Sync!Member, AsDuo!Member
<1>2. (job = "duo" => AsDuo!IInv) => SyncIsBarrier
  BY <1>1 DEF SyncIsBarrier
<1> QED BY <1>2, DuoInv, PTL
------------------------------------------------------------------------------
(* The exchanges *)

LEMMA DuoIsTheExchange ==
  /\ Duo!Init = AsDuo!X!Init
  /\ [Duo!Next]_(Duo!vars) = [AsDuo!X!Next]_(AsDuo!X!vars)
  /\ Duo!DestIsExchanged = AsDuo!X!DestIsExchanged
BY SMTT(20) DEF Duo!Init, AsDuo!X!Init, Duo!Next, AsDuo!X!Next, Duo!Step, AsDuo!X!Step,
       Duo!Land, AsDuo!X!Land, Duo!Copy, AsDuo!X!Copy, Duo!Enter, AsDuo!X!Enter,
       Duo!SyncStep, AsDuo!X!SyncStep, Duo!LandSignal, AsDuo!X!LandSignal,
       Duo!LandData, AsDuo!X!LandData, Duo!NothingBefore, AsDuo!X!NothingBefore,
       Duo!Written, AsDuo!X!Written, Duo!Copies, AsDuo!X!Copies, Duo!Target,
       AsDuo!X!Target, Duo!Block, AsDuo!X!Block, Duo!fcollect_to, AsDuo!X!fcollect_to,
       Duo!fcollect_block, AsDuo!X!fcollect_block, Duo!alltoall_to,
       AsDuo!X!alltoall_to, Duo!alltoall_block, AsDuo!X!alltoall_block,
       Duo!alltoalls_block, AsDuo!X!alltoalls_block, Duo!rotate_to, AsDuo!X!rotate_to,
       Duo!rotate_block, AsDuo!X!rotate_block, Duo!Member, AsDuo!X!Member, Duo!Index,
       AsDuo!X!Index, Duo!PE, AsDuo!X!PE, Duo!None, AsDuo!X!None, Duo!Place,
       AsDuo!X!Place, Duo!vars, AsDuo!X!vars, Duo!DestIsExchanged,
       AsDuo!X!DestIsExchanged, Duo!Expected, AsDuo!X!Expected, Duo!Sync!Init,
       AsDuo!X!Sync!Init, Duo!Sync!Enter, AsDuo!X!Sync!Enter, Duo!Sync!Signal,
       AsDuo!X!Sync!Signal, Duo!Sync!TestsetSignal, AsDuo!X!Sync!TestsetSignal,
       Duo!Sync!Land, AsDuo!X!Sync!Land, Duo!Sync!Wait, AsDuo!X!Sync!Wait,
       Duo!Sync!Clear, AsDuo!X!Sync!Clear, Duo!Sync!Leave, AsDuo!X!Sync!Leave,
       Duo!Sync!Member, AsDuo!X!Sync!Member, Duo!Sync!Round, AsDuo!X!Sync!Round,
       Duo!Sync!PE_size_stride, AsDuo!X!Sync!PE_size_stride, Duo!Sync!PE_end,
       AsDuo!X!Sync!PE_end, Duo!Sync!SYNC_VALUE, AsDuo!X!Sync!SYNC_VALUE,
       Duo!Sync!Dist, AsDuo!X!Sync!Dist, Duo!Sync!To, AsDuo!X!Sync!To,
       Duo!Sync!Testset, AsDuo!X!Sync!Testset

\* shmem_fcollect of two PEs.
LEMMA DuoIsComplete == FairSpec => [](job = "duo" => Duo!DestIsExchanged)
<1> DEFINE Right == job = "duo" => AsDuo!IInv /\ AsDuo!ExchangeInv
<1>1. AsDuo!Exchanging
  BY DEF AsDuo!Exchanging
<1>2. AsDuo!ReachesAll /\ AsDuo!BlocksFit
  BY SMTT(20), <1>1, DuoJob, AsDuo!FcollectFits
<1>3. Init => Right
  <2>1. Init /\ job = "duo" => AsDuo!X!Init
    BY DuoIsTheExchange DEF Init, InitOfCollectives
  <2> QED BY SMTT(20), <2>1, DuoJob, AsDuo!ExchangeInit
<1>4. Right /\ [Next]_vars => Right'
  <2>1. [Next]_vars /\ job' = "duo" => job = "duo" /\ [AsDuo!X!Next]_(AsDuo!X!vars)
    BY SMTT(20), Jobs, DuoIsTheExchange
  <2>2. AsDuo!IInv /\ AsDuo!ExchangeInv /\ [AsDuo!X!Next]_(AsDuo!X!vars)
          => AsDuo!IInv' /\ AsDuo!ExchangeInv'
    BY SMTT(20), <1>2, DuoJob, AsDuo!ExchangeNext
  <2> QED BY <2>1, <2>2
<1>5. Right => (job = "duo" => Duo!DestIsExchanged)
  BY SMTT(20), <1>2, DuoJob, AsDuo!ExchangeGives, DuoIsTheExchange
<1> QED BY <1>3, <1>4, <1>5, PTL DEF FairSpec

AsTrio == INSTANCE ShmemSyncProof WITH
  Collective <- "fcollect", Source <- Blocks(2), nelems <- 2, dst <- 1, sst <- 1,
  PE_start <- 1, Stride <- 2, PE_size <- 3, Rounds <- 2, Pow2 <- [k \in 0..2 |-> Pow2[k]],
  Arrays <- {"A", "B"}, ArrayOf <- Two, Routine <- "sync",
  word <- NotUsed

LEMMA TrioIsTheExchange ==
  /\ Trio!Init = AsTrio!X!Init
  /\ [Trio!Next]_(Trio!vars) = [AsTrio!X!Next]_(AsTrio!X!vars)
  /\ Trio!DestIsExchanged = AsTrio!X!DestIsExchanged
BY SMTT(20) DEF Trio!Init, AsTrio!X!Init, Trio!Next, AsTrio!X!Next, Trio!Step, AsTrio!X!Step,
       Trio!Land, AsTrio!X!Land, Trio!Copy, AsTrio!X!Copy, Trio!Enter, AsTrio!X!Enter,
       Trio!SyncStep, AsTrio!X!SyncStep, Trio!LandSignal, AsTrio!X!LandSignal,
       Trio!LandData, AsTrio!X!LandData, Trio!NothingBefore, AsTrio!X!NothingBefore,
       Trio!Written, AsTrio!X!Written, Trio!Copies, AsTrio!X!Copies, Trio!Target,
       AsTrio!X!Target, Trio!Block, AsTrio!X!Block, Trio!fcollect_to,
       AsTrio!X!fcollect_to, Trio!fcollect_block, AsTrio!X!fcollect_block,
       Trio!alltoall_to, AsTrio!X!alltoall_to, Trio!alltoall_block,
       AsTrio!X!alltoall_block, Trio!alltoalls_block, AsTrio!X!alltoalls_block,
       Trio!rotate_to, AsTrio!X!rotate_to, Trio!rotate_block, AsTrio!X!rotate_block,
       Trio!Member, AsTrio!X!Member, Trio!Index, AsTrio!X!Index, Trio!PE, AsTrio!X!PE,
       Trio!None, AsTrio!X!None, Trio!Place, AsTrio!X!Place, Trio!vars, AsTrio!X!vars,
       Trio!DestIsExchanged, AsTrio!X!DestIsExchanged, Trio!Expected,
       AsTrio!X!Expected, Trio!Sync!Init, AsTrio!X!Sync!Init, Trio!Sync!Enter,
       AsTrio!X!Sync!Enter, Trio!Sync!Signal, AsTrio!X!Sync!Signal,
       Trio!Sync!TestsetSignal, AsTrio!X!Sync!TestsetSignal, Trio!Sync!Land,
       AsTrio!X!Sync!Land, Trio!Sync!Wait, AsTrio!X!Sync!Wait, Trio!Sync!Clear,
       AsTrio!X!Sync!Clear, Trio!Sync!Leave, AsTrio!X!Sync!Leave, Trio!Sync!Member,
       AsTrio!X!Sync!Member, Trio!Sync!Round, AsTrio!X!Sync!Round,
       Trio!Sync!PE_size_stride, AsTrio!X!Sync!PE_size_stride, Trio!Sync!PE_end,
       AsTrio!X!Sync!PE_end, Trio!Sync!SYNC_VALUE, AsTrio!X!Sync!SYNC_VALUE,
       Trio!Sync!Dist, AsTrio!X!Sync!Dist, Trio!Sync!To, AsTrio!X!Sync!To,
       Trio!Sync!Testset, AsTrio!X!Sync!Testset

\* shmem_fcollect of three PEs.
LEMMA TrioIsComplete == FairSpec => [](job = "trio" => Trio!DestIsExchanged)
<1> DEFINE Right == job = "trio" => AsTrio!IInv /\ AsTrio!ExchangeInv
<1>1. AsTrio!Exchanging
  BY SMTT(20) DEF AsTrio!Exchanging
<1>2. AsTrio!ReachesAll /\ AsTrio!BlocksFit
  BY SMTT(20), <1>1, TrioJob, AsTrio!FcollectFits
<1>3. Init => Right
  <2>1. Init /\ job = "trio" => AsTrio!X!Init
    BY TrioIsTheExchange DEF Init, InitOfCollectives
  <2> QED BY SMTT(20), <2>1, TrioJob, AsTrio!ExchangeInit
<1>4. Right /\ [Next]_vars => Right'
  <2>1. [Next]_vars /\ job' = "trio" => job = "trio" /\ [AsTrio!X!Next]_(AsTrio!X!vars)
    BY SMTT(20), Jobs, TrioIsTheExchange
  <2>2. AsTrio!IInv /\ AsTrio!ExchangeInv /\ [AsTrio!X!Next]_(AsTrio!X!vars)
          => AsTrio!IInv' /\ AsTrio!ExchangeInv'
    BY SMTT(20), <1>2, TrioJob, AsTrio!ExchangeNext
  <2> QED BY <2>1, <2>2
<1>5. Right => (job = "trio" => Trio!DestIsExchanged)
  BY SMTT(20), <1>2, TrioJob, AsTrio!ExchangeGives, TrioIsTheExchange
<1> QED BY <1>3, <1>4, <1>5, PTL DEF FairSpec

AsSwap == INSTANCE ShmemSyncProof WITH
  Collective <- "alltoall", Source <- EqualBlocks(2), nelems <- 2, dst <- 1, sst <- 1,
  PE_start <- 1, Stride <- 2, PE_size <- 3, Rounds <- 2, Pow2 <- [k \in 0..2 |-> Pow2[k]],
  Arrays <- {"A"}, ArrayOf <- One(1), MaxCalls <- 1, Routine <- "sync",
  word <- NotUsed

LEMMA SwapIsTheExchange ==
  /\ Swap!Init = AsSwap!X!Init
  /\ [Swap!Next]_(Swap!vars) = [AsSwap!X!Next]_(AsSwap!X!vars)
  /\ Swap!DestIsExchanged = AsSwap!X!DestIsExchanged
BY SMTT(20) DEF Swap!Init, AsSwap!X!Init, Swap!Next, AsSwap!X!Next, Swap!Step, AsSwap!X!Step,
       Swap!Land, AsSwap!X!Land, Swap!Copy, AsSwap!X!Copy, Swap!Enter, AsSwap!X!Enter,
       Swap!SyncStep, AsSwap!X!SyncStep, Swap!LandSignal, AsSwap!X!LandSignal,
       Swap!LandData, AsSwap!X!LandData, Swap!NothingBefore, AsSwap!X!NothingBefore,
       Swap!Written, AsSwap!X!Written, Swap!Copies, AsSwap!X!Copies, Swap!Target,
       AsSwap!X!Target, Swap!Block, AsSwap!X!Block, Swap!fcollect_to,
       AsSwap!X!fcollect_to, Swap!fcollect_block, AsSwap!X!fcollect_block,
       Swap!alltoall_to, AsSwap!X!alltoall_to, Swap!alltoall_block,
       AsSwap!X!alltoall_block, Swap!alltoalls_block, AsSwap!X!alltoalls_block,
       Swap!rotate_to, AsSwap!X!rotate_to, Swap!rotate_block, AsSwap!X!rotate_block,
       Swap!Member, AsSwap!X!Member, Swap!Index, AsSwap!X!Index, Swap!PE, AsSwap!X!PE,
       Swap!None, AsSwap!X!None, Swap!Place, AsSwap!X!Place, Swap!vars, AsSwap!X!vars,
       Swap!DestIsExchanged, AsSwap!X!DestIsExchanged, Swap!Expected,
       AsSwap!X!Expected, Swap!Sync!Init, AsSwap!X!Sync!Init, Swap!Sync!Enter,
       AsSwap!X!Sync!Enter, Swap!Sync!Signal, AsSwap!X!Sync!Signal,
       Swap!Sync!TestsetSignal, AsSwap!X!Sync!TestsetSignal, Swap!Sync!Land,
       AsSwap!X!Sync!Land, Swap!Sync!Wait, AsSwap!X!Sync!Wait, Swap!Sync!Clear,
       AsSwap!X!Sync!Clear, Swap!Sync!Leave, AsSwap!X!Sync!Leave, Swap!Sync!Member,
       AsSwap!X!Sync!Member, Swap!Sync!Round, AsSwap!X!Sync!Round,
       Swap!Sync!PE_size_stride, AsSwap!X!Sync!PE_size_stride, Swap!Sync!PE_end,
       AsSwap!X!Sync!PE_end, Swap!Sync!SYNC_VALUE, AsSwap!X!Sync!SYNC_VALUE,
       Swap!Sync!Dist, AsSwap!X!Sync!Dist, Swap!Sync!To, AsSwap!X!Sync!To,
       Swap!Sync!Testset, AsSwap!X!Sync!Testset

\* shmem_alltoall of three PEs, all blocks of a PE equal.
LEMMA SwapIsComplete == FairSpec => [](job = "swap" => Swap!DestIsExchanged)
<1> DEFINE Right == job = "swap" => AsSwap!IInv /\ AsSwap!ExchangeInv
<1>0. AsSwap!EqualBlocks
  <2>1. \A m \in 0..2, e \in 0..1 : m * 2 + e \in 0..6 /\ (m * 2 + e) % 2 = e % 2 /\ e \in 0..6
    BY SMTT(20)
  <2>2. \A m \in 0..2 : 1 + m * 2 \in PE
    BY SMTT(20) DEF PE
  <2>3. \A p \in PE : EqualBlocks(2)[p] = [i \in 0..6 |-> 10 * p + (i % 2)]
    BY SMTT(20) DEF EqualBlocks
  <2>4. AsSwap!Member \subseteq PE
    BY <2>2 DEF AsSwap!Member
  <2>5. \A p \in AsSwap!Member, i \in 0..6 : EqualBlocks(2)[p][i] = 10 * p + (i % 2)
    BY ZenonT(40), <2>3, <2>4
  <2> QED BY <2>1, <2>5 DEF AsSwap!EqualBlocks
<1>1. AsSwap!Exchanging
  BY DEF AsSwap!Exchanging
<1>2. AsSwap!ReachesAll /\ AsSwap!BlocksFit
  BY SMTT(20), <1>0, <1>1, SwapJob, AsSwap!AlltoallFits
<1>3. Init => Right
  <2>1. Init /\ job = "swap" => AsSwap!X!Init
    BY SwapIsTheExchange DEF Init, InitOfCollectives
  <2> QED BY SMTT(20), <2>1, SwapJob, AsSwap!ExchangeInit
<1>4. Right /\ [Next]_vars => Right'
  <2>1. [Next]_vars /\ job' = "swap" => job = "swap" /\ [AsSwap!X!Next]_(AsSwap!X!vars)
    BY SMTT(20), Jobs, SwapIsTheExchange
  <2>2. AsSwap!IInv /\ AsSwap!ExchangeInv /\ [AsSwap!X!Next]_(AsSwap!X!vars)
          => AsSwap!IInv' /\ AsSwap!ExchangeInv'
    BY SMTT(20), <1>2, SwapJob, AsSwap!ExchangeNext
  <2> QED BY <2>1, <2>2
<1>5. Right => (job = "swap" => Swap!DestIsExchanged)
  BY SMTT(20), <1>2, SwapJob, AsSwap!ExchangeGives, SwapIsTheExchange
<1> QED BY <1>3, <1>4, <1>5, PTL DEF FairSpec

AsStrided == INSTANCE ShmemSyncProof WITH
  Collective <- "alltoalls", Source <- Blocks(2), nelems <- 2, dst <- 3, sst <- 2,
  PE_start <- 0, Stride <- 1, PE_size <- 3, Rounds <- 2, Pow2 <- [k \in 0..2 |-> Pow2[k]],
  Arrays <- {"A"}, ArrayOf <- One(1), MaxCalls <- 1, Routine <- "sync",
  word <- NotUsed

LEMMA StridedIsTheExchange ==
  /\ Strided!Init = AsStrided!X!Init
  /\ [Strided!Next]_(Strided!vars) = [AsStrided!X!Next]_(AsStrided!X!vars)
  /\ Strided!DestIsExchanged = AsStrided!X!DestIsExchanged
BY SMTT(20) DEF Strided!Init, AsStrided!X!Init, Strided!Next, AsStrided!X!Next, Strided!Step,
       AsStrided!X!Step, Strided!Land, AsStrided!X!Land, Strided!Copy,
       AsStrided!X!Copy, Strided!Enter, AsStrided!X!Enter, Strided!SyncStep,
       AsStrided!X!SyncStep, Strided!LandSignal, AsStrided!X!LandSignal,
       Strided!LandData, AsStrided!X!LandData, Strided!NothingBefore,
       AsStrided!X!NothingBefore, Strided!Written, AsStrided!X!Written,
       Strided!Copies, AsStrided!X!Copies, Strided!Target, AsStrided!X!Target,
       Strided!Block, AsStrided!X!Block, Strided!fcollect_to, AsStrided!X!fcollect_to,
       Strided!fcollect_block, AsStrided!X!fcollect_block, Strided!alltoall_to,
       AsStrided!X!alltoall_to, Strided!alltoall_block, AsStrided!X!alltoall_block,
       Strided!alltoalls_block, AsStrided!X!alltoalls_block, Strided!rotate_to,
       AsStrided!X!rotate_to, Strided!rotate_block, AsStrided!X!rotate_block,
       Strided!Member, AsStrided!X!Member, Strided!Index, AsStrided!X!Index,
       Strided!PE, AsStrided!X!PE, Strided!None, AsStrided!X!None, Strided!Place,
       AsStrided!X!Place, Strided!vars, AsStrided!X!vars, Strided!DestIsExchanged,
       AsStrided!X!DestIsExchanged, Strided!Expected, AsStrided!X!Expected,
       Strided!Sync!Init, AsStrided!X!Sync!Init, Strided!Sync!Enter,
       AsStrided!X!Sync!Enter, Strided!Sync!Signal, AsStrided!X!Sync!Signal,
       Strided!Sync!TestsetSignal, AsStrided!X!Sync!TestsetSignal, Strided!Sync!Land,
       AsStrided!X!Sync!Land, Strided!Sync!Wait, AsStrided!X!Sync!Wait,
       Strided!Sync!Clear, AsStrided!X!Sync!Clear, Strided!Sync!Leave,
       AsStrided!X!Sync!Leave, Strided!Sync!Member, AsStrided!X!Sync!Member,
       Strided!Sync!Round, AsStrided!X!Sync!Round, Strided!Sync!PE_size_stride,
       AsStrided!X!Sync!PE_size_stride, Strided!Sync!PE_end, AsStrided!X!Sync!PE_end,
       Strided!Sync!SYNC_VALUE, AsStrided!X!Sync!SYNC_VALUE, Strided!Sync!Dist,
       AsStrided!X!Sync!Dist, Strided!Sync!To, AsStrided!X!Sync!To,
       Strided!Sync!Testset, AsStrided!X!Sync!Testset

\* shmem_alltoalls of three PEs, with strides.
LEMMA StridedIsComplete == FairSpec => [](job = "strided" => Strided!DestIsExchanged)
<1> DEFINE Right == job = "strided" => AsStrided!IInv /\ AsStrided!ExchangeInv
<1>1. AsStrided!Exchanging
  BY SMTT(20) DEF AsStrided!Exchanging
<1>2. AsStrided!ReachesAll /\ AsStrided!BlocksFit
  BY SMTT(20), <1>1, StridedJob, AsStrided!AlltoallsFits
<1>3. Init => Right
  <2>1. Init /\ job = "strided" => AsStrided!X!Init
    BY StridedIsTheExchange DEF Init, InitOfCollectives
  <2> QED BY SMTT(20), <2>1, StridedJob, AsStrided!ExchangeInit
<1>4. Right /\ [Next]_vars => Right'
  <2>1. [Next]_vars /\ job' = "strided" => job = "strided" /\ [AsStrided!X!Next]_(AsStrided!X!vars)
    BY SMTT(20), Jobs, StridedIsTheExchange
  <2>2. AsStrided!IInv /\ AsStrided!ExchangeInv /\ [AsStrided!X!Next]_(AsStrided!X!vars)
          => AsStrided!IInv' /\ AsStrided!ExchangeInv'
    BY SMTT(20), <1>2, StridedJob, AsStrided!ExchangeNext
  <2> QED BY <2>1, <2>2
<1>5. Right => (job = "strided" => Strided!DestIsExchanged)
  BY SMTT(20), <1>2, StridedJob, AsStrided!ExchangeGives, StridedIsTheExchange
<1> QED BY <1>3, <1>4, <1>5, PTL DEF FairSpec

AsTurn == INSTANCE ShmemSyncProof WITH
  Collective <- "rotate", Source <- Blocks(1), nelems <- 1, dst <- 1, sst <- 1,
  PE_start <- 0, Stride <- 1, PE_size <- 5, Rounds <- 3, Pow2 <- [k \in 0..3 |-> Pow2[k]],
  Arrays <- {"A"}, ArrayOf <- One(1), MaxCalls <- 1, Routine <- "sync",
  word <- NotUsed

LEMMA TurnIsTheExchange ==
  /\ Turn!Init = AsTurn!X!Init
  /\ [Turn!Next]_(Turn!vars) = [AsTurn!X!Next]_(AsTurn!X!vars)
  /\ Turn!DestIsExchanged = AsTurn!X!DestIsExchanged
BY SMTT(20) DEF Turn!Init, AsTurn!X!Init, Turn!Next, AsTurn!X!Next, Turn!Step, AsTurn!X!Step,
       Turn!Land, AsTurn!X!Land, Turn!Copy, AsTurn!X!Copy, Turn!Enter, AsTurn!X!Enter,
       Turn!SyncStep, AsTurn!X!SyncStep, Turn!LandSignal, AsTurn!X!LandSignal,
       Turn!LandData, AsTurn!X!LandData, Turn!NothingBefore, AsTurn!X!NothingBefore,
       Turn!Written, AsTurn!X!Written, Turn!Copies, AsTurn!X!Copies, Turn!Target,
       AsTurn!X!Target, Turn!Block, AsTurn!X!Block, Turn!fcollect_to,
       AsTurn!X!fcollect_to, Turn!fcollect_block, AsTurn!X!fcollect_block,
       Turn!alltoall_to, AsTurn!X!alltoall_to, Turn!alltoall_block,
       AsTurn!X!alltoall_block, Turn!alltoalls_block, AsTurn!X!alltoalls_block,
       Turn!rotate_to, AsTurn!X!rotate_to, Turn!rotate_block, AsTurn!X!rotate_block,
       Turn!Member, AsTurn!X!Member, Turn!Index, AsTurn!X!Index, Turn!PE, AsTurn!X!PE,
       Turn!None, AsTurn!X!None, Turn!Place, AsTurn!X!Place, Turn!vars, AsTurn!X!vars,
       Turn!DestIsExchanged, AsTurn!X!DestIsExchanged, Turn!Expected,
       AsTurn!X!Expected, Turn!Sync!Init, AsTurn!X!Sync!Init, Turn!Sync!Enter,
       AsTurn!X!Sync!Enter, Turn!Sync!Signal, AsTurn!X!Sync!Signal,
       Turn!Sync!TestsetSignal, AsTurn!X!Sync!TestsetSignal, Turn!Sync!Land,
       AsTurn!X!Sync!Land, Turn!Sync!Wait, AsTurn!X!Sync!Wait, Turn!Sync!Clear,
       AsTurn!X!Sync!Clear, Turn!Sync!Leave, AsTurn!X!Sync!Leave, Turn!Sync!Member,
       AsTurn!X!Sync!Member, Turn!Sync!Round, AsTurn!X!Sync!Round,
       Turn!Sync!PE_size_stride, AsTurn!X!Sync!PE_size_stride, Turn!Sync!PE_end,
       AsTurn!X!Sync!PE_end, Turn!Sync!SYNC_VALUE, AsTurn!X!Sync!SYNC_VALUE,
       Turn!Sync!Dist, AsTurn!X!Sync!Dist, Turn!Sync!To, AsTurn!X!Sync!To,
       Turn!Sync!Testset, AsTurn!X!Sync!Testset

\* The rotation of five PEs.
LEMMA TurnIsComplete == FairSpec => [](job = "turn" => Turn!DestIsExchanged)
<1> DEFINE Right == job = "turn" => AsTurn!IInv /\ AsTurn!ExchangeInv
<1>1. AsTurn!Exchanging
  BY DEF AsTurn!Exchanging
<1>2. AsTurn!ReachesAll /\ AsTurn!BlocksFit
  BY SMTT(20), <1>1, TurnJob, AsTurn!RotateFits
<1>3. Init => Right
  <2>1. Init /\ job = "turn" => AsTurn!X!Init
    BY TurnIsTheExchange DEF Init, InitOfCollectives
  <2> QED BY SMTT(20), <2>1, TurnJob, AsTurn!ExchangeInit
<1>4. Right /\ [Next]_vars => Right'
  <2>1. [Next]_vars /\ job' = "turn" => job = "turn" /\ [AsTurn!X!Next]_(AsTurn!X!vars)
    BY SMTT(20), Jobs, TurnIsTheExchange
  <2>2. AsTurn!IInv /\ AsTurn!ExchangeInv /\ [AsTurn!X!Next]_(AsTurn!X!vars)
          => AsTurn!IInv' /\ AsTurn!ExchangeInv'
    BY SMTT(20), <1>2, TurnJob, AsTurn!ExchangeNext
  <2> QED BY <2>1, <2>2
<1>5. Right => (job = "turn" => Turn!DestIsExchanged)
  BY SMTT(20), <1>2, TurnJob, AsTurn!ExchangeGives, TurnIsTheExchange
<1> QED BY <1>3, <1>4, <1>5, PTL DEF FairSpec

\* The data of an exchange is there when the call returns, although nobody waits for
\* the copies (def_shmem_fcollect_n.h:53): shmem_fcollect on two and on three PEs, both
\* all-to-alls on three, and the rotation of five.
THEOREM ExchangesAreComplete == FairSpec => []DestIsExchanged
<1>1. /\ job = "duo" => Duo!DestIsExchanged
      /\ job = "trio" => Trio!DestIsExchanged
      /\ job = "swap" => Swap!DestIsExchanged
      /\ job = "strided" => Strided!DestIsExchanged
      /\ job = "turn" => Turn!DestIsExchanged
      => DestIsExchanged
  BY SMTT(20) DEF DestIsExchanged
<1> QED BY <1>1, DuoIsComplete, TrioIsComplete, SwapIsComplete, StridedIsComplete,
           TurnIsComplete, PTL
==============================================================================
